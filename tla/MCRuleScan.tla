----------------------------- MODULE MCRuleScan -----------------------------
(***************************************************************************)
(* An instance of RuleScan: a series two Sonarr instances hold and one     *)
(* neither does, three protecting rules and one that lists candidates.     *)
(***************************************************************************)
EXTENDS RuleScan, TLC
CONSTANTS s1, s2, p1, p2, p3, c

MCRefsOf == s1 :> {1, 2} @@ s2 :> {}
MCOutcome == [r \in Rule |-> IF r # c THEN "protect" ELSE "candidate"]

On(field, accepts) == [enabled |-> TRUE, field |-> field, accepts |-> accepts]
Of(op, nodes) == [enabled |-> TRUE, op |-> op, nodes |-> nodes]
Off(node) == [node EXCEPT !.enabled = FALSE]

\* p1 keeps what airs, or is requested and not ended; p2 what was played or
\* requested; p3 what has no finale yet and was played; c lists what ended unplayed.
MCRoot ==
  p1 :> Of("or", {Of("and", {On("status", {"continuing"}), On("requested", {"yes"})}),
                  Of("and", {On("unaired", {"yes"})})}) @@
  p2 :> Of("and", {Of("or", {On("played", {"yes"}), On("requested", {"yes"})}),
                   Off(Of("and", {On("finale", {"yes"})}))}) @@
  p3 :> Of("and", {Of("and", {On("finale", {"no"}), On("played", {"yes"})})}) @@
  c :> Of("and", {Of("and", {On("status", {"ended"})}),
                  Of("or", {On("played", {"no"}), Off(On("unaired", {"no"}))})})

Airing == [airs |-> "yes", unaired |-> "yes", finale |-> "no", status |-> "continuing"]
Paused == [airs |-> "no", unaired |-> "no", finale |-> "no", status |-> "continuing"]
Over == [airs |-> "no", unaired |-> "no", finale |-> "yes", status |-> "ended"]
MCShows == {Airing, Paused, Over}

\* Both instances agree, or each says something else.
MCSources ==
  LET s1Shows == {1 :> Airing @@ 2 :> Airing, 1 :> Over @@ 2 :> Paused} IN
  [shows : {s1 :> h @@ s2 :> [i \in Instance |-> Over] : h \in s1Shows},
   played : {s1 :> "no" @@ s2 :> "yes"},
   requested : {s1 :> "no" @@ s2 :> "no"}]
=============================================================================
