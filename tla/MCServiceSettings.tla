-------------------------- MODULE MCServiceSettings --------------------------
(***************************************************************************)
(* Small instances of ServiceSettings for TLC: two media servers, of which *)
(* one or both are configured at first.  Servers, their addresses and the  *)
(* requests are interchangeable.                                           *)
(***************************************************************************)
EXTENDS ServiceSettings, TLC

Interchangeable ==
  Permutations(Config) \cup Permutations(Url) \cup Permutations(Handler)
=============================================================================
