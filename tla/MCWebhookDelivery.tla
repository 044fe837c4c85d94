-------------------------- MODULE MCWebhookDelivery --------------------------
(***************************************************************************)
(* Small instances of WebhookDelivery for TLC: the events are numbered in  *)
(* the order they are committed.                                           *)
(***************************************************************************)
EXTENDS WebhookDelivery

TwoEvents == 1..2
=============================================================================
