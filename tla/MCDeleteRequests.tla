-------------------------- MODULE MCDeleteRequests --------------------------
(***************************************************************************)
(* Small instances of DeleteRequests for TLC: readers who ask for the      *)
(* deletion of one title.                                                  *)
(***************************************************************************)
EXTENDS DeleteRequests

SameTitle == [r \in Request |-> CHOOSE t \in Title : TRUE]
=============================================================================
