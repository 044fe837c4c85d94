---------------------------- MODULE MCAutoDelete ----------------------------
(***************************************************************************)
(* A rule that depends on who watched the title and one that does not,     *)
(* with review periods of their own.                                       *)
(***************************************************************************)
EXTENDS AutoDelete, TLC

CONSTANTS watched, large

MCDelay == watched :> 0 @@ large :> 1
=============================================================================
