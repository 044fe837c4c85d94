----------------------------- MODULE MCMediaSync -----------------------------
(***************************************************************************)
(* Small instances of MediaSync for TLC: two titles, one of them with two  *)
(* files of the same content.                                              *)
(***************************************************************************)
EXTENDS MediaSync, TLC

CONSTANTS t1, t2, f1, f2, g1

\* The files of one title with the same content, and the candidates' keys.
Interchangeable == Permutations({f1, f2}) \cup Permutations(CandidateId)

MCTitleOf == (f1 :> t1) @@ (f2 :> t1) @@ (g1 :> t2)
MCContentOf == (f1 :> "hd") @@ (f2 :> "hd") @@ (g1 :> "uhd")
=============================================================================
