------------------------- MODULE MCDuplicateDeletion -------------------------
(***************************************************************************)
(* Small instances of DuplicateDeletion for TLC: three files, a fourth     *)
(* that an upgrade may bring, and two Arrs, laid out in the ways that take *)
(* different routes.                                                       *)
(***************************************************************************)
EXTENDS DuplicateDeletion, TLC

CONSTANTS a, b, c, n

Apart == (a :> a) @@ (b :> b) @@ (c :> c) @@ (n :> n)
Together == (a :> a) @@ (b :> a) @@ (c :> c) @@ (n :> n)   \* a and b share

Twins == {<<a, 1>>, <<a, 2>>, <<b, 1>>, <<n, 1>>}
Three == {<<a, 1>>, <<b, 1>>, <<c, 1>>, <<n, 1>>}
Supplemental == {<<a, 1>>, <<b, 2>>, <<c, 2>>, <<n, 1>>}

RowsOfPlaces(p1, p2, p3) == (1 :> p1) @@ (2 :> p2) @@ (3 :> p3) @@ (4 :> None) @@ (5 :> None)
TwinRows == RowsOfPlaces(<<a, 1>>, <<a, 2>>, <<b, 1>>)
ThreeRows == RowsOfPlaces(<<a, 1>>, <<b, 1>>, <<c, 1>>)
SeriesRows == RowsOfPlaces(<<a, 1>>, <<b, 2>>, <<c, 2>>)

Movie ==
  [kind |-> "movie", server |-> "plex", places |-> Three, start |-> {a, b, c},
   rows |-> ThreeRows,
   item |-> Apart, stem |-> Apart, odd |-> {},
   rank |-> (a :> 1) @@ (b :> 2) @@ (c :> 3) @@ (n :> 4), folder |-> (1 :> {a, b, n}) @@ (2 :> {}),
   up |-> {1, 2}, mapped |-> TRUE, local |-> TRUE, fallback |-> TRUE]

Series == [Movie EXCEPT !.kind = "episode", !.places = Supplemental,
                        !.rows = SeriesRows]

MCLayouts ==
  {[Movie EXCEPT !.places = Twins, !.start = {a, b}, !.rows = TwinRows],
   [Movie EXCEPT !.item = Together],
   [Movie EXCEPT !.stem = Together, !.up = {}],
   [Movie EXCEPT !.server = "emby", !.folder = (1 :> {a}) @@ (2 :> {a, b})],
   [Movie EXCEPT !.server = "emby", !.item = Together],
   [Movie EXCEPT !.server = "emby", !.fallback = FALSE],
   [Movie EXCEPT !.mapped = FALSE, !.local = FALSE],
   [Series EXCEPT !.server = "emby"],
   [Series EXCEPT !.stem = Together, !.folder = (1 :> {b}) @@ (2 :> {})],
   [Series EXCEPT !.odd = {c}, !.fallback = FALSE]}
===============================================================================
