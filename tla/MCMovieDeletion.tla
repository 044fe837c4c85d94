--------------------------- MODULE MCMovieDeletion ---------------------------
(***************************************************************************)
(* Small instances of MovieDeletion for TLC: three version rows, three     *)
(* files and two Radarr configurations, laid out in the ways that take     *)
(* different routes.                                                       *)
(***************************************************************************)
EXTENDS MovieDeletion, TLC

CONSTANTS v1, v2, v3, f, g, h, i, j, k

Twins == (v1 :> f) @@ (v2 :> f) @@ (v3 :> g)       \* h is not indexed
Distinct == (v1 :> f) @@ (v2 :> g) @@ (v3 :> h)
Apart == (v1 :> i) @@ (v2 :> j) @@ (v3 :> k)
OneItem == (v1 :> i) @@ (v2 :> j) @@ (v3 :> i)     \* two versions of one item
TwinsItem == (v1 :> i) @@ (v2 :> j) @@ (v3 :> j)   \* the twin shares its item
OneFolder == (f :> 1) @@ (g :> 1) @@ (h :> 1)
TwoFolders == (f :> 1) @@ (g :> 2) @@ (h :> 1)
Outside == (f :> 1) @@ (g :> Nowhere) @@ (h :> 1)
OwnStems == (f :> f) @@ (g :> g) @@ (h :> h)
OneStem == (f :> f) @@ (g :> f) @@ (h :> h)

Base == [file |-> Twins, item |-> Apart, home |-> OneFolder, stem |-> OwnStems,
         mapped |-> TRUE, local |-> TRUE, server |-> "plex",
         refs |-> {1}, up |-> {1, 2}]

MCLayouts ==
  {Base,
   [Base EXCEPT !.file = Distinct, !.item = OneItem],
   [Base EXCEPT !.file = Distinct, !.stem = OneStem, !.refs = {}],
   [Base EXCEPT !.file = Distinct, !.item = OneItem, !.server = "emby", !.refs = {}],
   [Base EXCEPT !.server = "emby", !.local = FALSE],
   [Base EXCEPT !.item = TwinsItem, !.refs = {}],
   [Base EXCEPT !.item = TwinsItem, !.refs = {}, !.server = "emby"],
   [Base EXCEPT !.home = TwoFolders, !.refs = {1, 2}],
   [Base EXCEPT !.home = TwoFolders, !.refs = {1, 2}, !.up = {2}],
   [Base EXCEPT !.file = Distinct, !.home = Outside, !.local = FALSE],
   [Base EXCEPT !.mapped = FALSE],
   [Base EXCEPT !.file = Distinct, !.home = TwoFolders, !.mapped = FALSE, !.refs = {1, 2}]}
=============================================================================
