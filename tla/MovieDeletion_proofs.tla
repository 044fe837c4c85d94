------------------------ MODULE MovieDeletion_proofs ------------------------
(***************************************************************************)
(* Proofs about MovieDeletion, for any layout of a movie, any group of     *)
(* candidates, every action, and calls that fail in every way.             *)
(***************************************************************************)
EXTENDS MovieDeletion, FiniteSetTheorems, TLAPS

Stages == {"idle", "routing", "files", "native", "version", "entries", "cleanup",
           "fallback", "movie", "done"}

Run ==
  [at : Stages,
   ids : SUBSET (Version \cup {Whole}), chosen : SUBSET (Version \cup {Whole}),
   info : SUBSET Version, loaded : SUBSET Version,
   target : SUBSET File, files : SUBSET File,
   covered : SUBSET Version, byFile : SUBSET Version, native : SUBSET Version,
   picked : SUBSET Version, calls : SUBSET Version,
   entries : SUBSET Radarr, todo : SUBSET Radarr, done : SUBSET Radarr,
   byEntry : SUBSET (Version \cup {Whole}), cleaned : SUBSET Version, count : Nat]

GivenInv ==
  /\ given.file \in [Version -> File] /\ given.item \in [Version -> Item]
  /\ given.stem \in [File -> File]
  /\ given.refs \subseteq Radarr
  /\ given.action \in Action /\ given.server \in {"plex", "emby"}

Typed ==
  /\ disk \subseteq File /\ rows \subseteq Version /\ removed \in BOOLEAN
  /\ entry \in [Radarr -> {"monitored", "unmonitored", "deleted"}]
  /\ cands \subseteq rows \cup {Whole}
  /\ error \subseteq cands /\ deferred \subseteq cands
  /\ seen \subseteq File /\ playing \subseteq File
  /\ asked \subseteq Version \cup {Whole}

(***************************************************************************)
(* What may go: the files somebody asked to delete, with those that share  *)
(* their stem.  A protected version keeps its row, and is no candidate.    *)
(***************************************************************************)
Allowed ==
  {f \in File :
     \/ Whole \in asked
     \/ \E c \in asked : given.stem[FileOf(c)] = given.stem[f]
                         /\ FileOf(c) \notin FilesOf(protected)}

ProtectedInv ==
  /\ protected \subseteq rows /\ protected \cap cands = {}

\* Files that are gone, and files whose row is, were asked for.
GoneInv ==
  /\ TwinsAlone => FilesOf(Version) \ disk \subseteq Allowed
  /\ FilesOf(Version \ rows) \subseteq Allowed

DataInv ==
  /\ GivenInv /\ Typed /\ ProtectedInv /\ GoneInv /\ RowsGoWithTheirFiles

(***************************************************************************)
(* What a run has chosen, and how it has divided it.                       *)
(***************************************************************************)
Versions == run.chosen \cap Version

ChosenInv ==
  /\ run \in Run /\ run.ids \subseteq asked
  /\ run.chosen \subseteq run.ids
  /\ Versions \subseteq run.info
  /\ FilesOf(Versions) \cap FilesOf(protected) = {}
  /\ run.covered = Siblings(Versions, run.info)
  /\ run.byFile \subseteq Versions /\ run.native \subseteq Versions
  /\ run.picked \subseteq Versions /\ run.byEntry \subseteq run.chosen
  /\ run.chosen \cap {Whole} \subseteq run.byEntry
  /\ run.byFile \cap run.native = {} /\ run.byFile \cap run.byEntry = {}
  /\ run.native \cap run.byEntry = {} /\ run.picked \cap run.byEntry = {}
  /\ run.picked \cap run.native = {}
  /\ run.at \notin {"idle", "routing"} => rows \subseteq run.info

\* Single files: those of the selected versions, and all that are left of them.
FilesInv ==
  /\ run.files \subseteq FilesOf(run.covered)
  /\ run.at = "files" /\ run.byFile # {} =>
       FilesOf(run.covered) \cap disk \subseteq run.files

\* Versions: the calls whose turn is still to come are for files that may be there.
NativeInv ==
  /\ run.at \in {"native", "version"} => rows \subseteq run.loaded
  /\ run.at # "version" => run.picked = {}
  /\ run.at = "version" => \E v \in run.loaded :
       /\ run.picked = {v} /\ ~ItemShared(v)
       /\ run.calls \subseteq Siblings({v}, run.loaded)
       /\ FilesOf(Siblings({v}, run.loaded) \ run.calls) \cap disk = {}

\* Entries: every indexed file in the folder of one that is to go may go.
EntriesInv ==
  /\ ~Unmonitors =>
       /\ \A r \in run.todo, v \in Version :
            given.home[FileOf(v)] = r => FileOf(v) \in Allowed
       /\ \A r \in run.done : entry[r] = "deleted"
  /\ run.todo \cup run.done # {} => run.byEntry # {}
  /\ run.at = "cleanup" => Unmonitors /\ run.done # {} /\ run.calls \subseteq Targets
  /\ FilesOf(run.cleaned) \cap disk = {}

\* The whole movie.
WholeInv ==
  run.at = "movie" => Whole \in run.chosen /\ run.done = {}
                      /\ FilesOf(rows \ run.calls) \cap disk = {}

\* What the count has counted: candidates that are gone, and not to come.
Pending ==
  run.native \cup run.picked
    \cup (IF run.at \in {"routing", "files"} THEN run.byFile ELSE {})
    \cup (IF \/ run.at \in {"routing", "files", "native", "version", "entries", "cleanup"}
             \/ run.at \in {"fallback", "movie"} /\ run.done = {}
          THEN run.byEntry ELSE {})

CountInv ==
  \E P \in SUBSET run.ids :
    run.count <= Cardinality(P) /\ P \cap cands = {} /\ P \cap Pending = {}

\* A run that is idle is Idle, and one that starts has done nothing.
IdleInv ==
  /\ run.at = "idle" => run = Idle
  /\ run.at = "routing" =>
       run = [Idle EXCEPT !.at = "routing", !.ids = run.ids, !.target = run.target]

RunInv ==
  /\ ChosenInv /\ FilesInv /\ NativeInv /\ EntriesInv /\ WholeInv /\ IdleInv

Inv == DataInv /\ RunInv /\ CountInv

-----------------------------------------------------------------------------
(***************************************************************************)
(* The data: calls that remove files, and the two kinds of commit.         *)
(***************************************************************************)
LEMMA AllowedGrows ==
  ASSUME UNCHANGED <<given, protected>>, asked \subseteq asked'
  PROVE  Allowed \subseteq Allowed'
BY DEF Allowed, FilesOf, FileOf

\* Calls to the services change the disk and Radarr's entries, and nothing else
\* but marks and candidates that go.
LEMMA CallKeepsData ==
  ASSUME DataInv, UNCHANGED <<given, rows, removed, protected>>,
         asked \subseteq asked', asked' \subseteq Version \cup {Whole},
         cands' \subseteq cands, error' \subseteq cands', deferred' \subseteq cands',
         seen' \subseteq File, playing' \subseteq File,
         disk' \subseteq disk,
         TwinsAlone => FilesOf(Version) \cap (disk \ disk') \subseteq Allowed,
         entry' \in [Radarr -> {"monitored", "unmonitored", "deleted"}],
         \A r \in Radarr : entry[r] = "deleted" => entry'[r] = "deleted"
  PROVE  DataInv'
<1> USE DEF DataInv
<1>1. GivenInv' BY DEF GivenInv
<1>2. Typed' BY DEF Typed
<1>3. ProtectedInv' BY DEF ProtectedInv
<1>4. GoneInv'
  <2>1. Allowed \subseteq Allowed' BY AllowedGrows
  <2>2. TwinsAlone' = TwinsAlone BY DEF TwinsAlone, FileOf, OnItem
  <2>4. TwinsAlone => FilesOf(Version) \ disk' \subseteq Allowed BY DEF GoneInv
  <2>5. FilesOf(Version)' = FilesOf(Version) /\ FilesOf(Version \ rows)' = FilesOf(Version \ rows)
    BY DEF FilesOf, FileOf
  <2> QED BY <2>1, <2>2, <2>4, <2>5 DEF GoneInv
<1>5. RowsGoWithTheirFiles'
  BY DEF RowsGoWithTheirFiles, TwinsGoTogether, Unmonitors, FilesOf, FileOf
<1> QED BY <1>1, <1>2, <1>3, <1>4, <1>5

\* A commit that retires rows.
LEMMA RowsRetire ==
  ASSUME DataInv, NEW gone, NEW done, RetireRows(gone, done),
         UNCHANGED <<given, protected, disk, asked, seen, playing>>,
         entry' \in [Radarr -> {"monitored", "unmonitored", "deleted"}],
         \A r \in Radarr : entry[r] = "deleted" => entry'[r] = "deleted",
         gone \subseteq Version, FilesOf(gone) \subseteq Allowed,
         FilesOf(gone) \cap FilesOf(protected) = {},
         ~Unmonitors => \A v \in gone, w \in rows : FileOf(v) = FileOf(w) => w \in gone,
         \/ FilesOf(gone \cap rows) \cap disk = {}
         \/ \E r \in Radarr : entry'[r] = "deleted"
  PROVE  DataInv'
<1> USE DEF DataInv
<1>0. /\ rows' = rows \ gone /\ removed' = (removed \/ rows \subseteq gone)
      /\ cands' \subseteq (cands \ done) \ gone
      /\ (rows \subseteq gone => cands' = {})
      /\ error' \subseteq cands' /\ deferred' \subseteq cands'
  BY DEF RetireRows
<1>1. GivenInv' BY DEF GivenInv
<1>2. Typed' BY <1>0 DEF Typed
<1>3. ProtectedInv'
  <2>1. gone \cap protected = {} BY DEF FilesOf
  <2> QED BY <1>0, <2>1 DEF ProtectedInv
<1>4. GoneInv'
  <2>1. Allowed' = Allowed BY DEF Allowed, FilesOf, FileOf
  <2>2. TwinsAlone' = TwinsAlone BY DEF TwinsAlone, FileOf, OnItem
  <2>3. FilesOf(Version)' = FilesOf(Version) BY DEF FilesOf, FileOf
  <2>4. FilesOf(Version \ rows)' \subseteq FilesOf(Version \ rows) \cup FilesOf(gone)
    BY <1>0 DEF FilesOf, FileOf
  <2> QED BY <2>1, <2>2, <2>3, <2>4 DEF GoneInv
<1>5. TwinsGoTogether'
  BY <1>0 DEF RowsGoWithTheirFiles, TwinsGoTogether, Unmonitors, FileOf, Typed
<1>6. ASSUME \A r \in Radarr : entry'[r] # "deleted"
      PROVE  /\ \A v \in Version \ rows' : FileOf(v)' \notin disk'
             /\ removed' => disk' \cap FilesOf(Version)' = {}
  <2>1. \A r \in Radarr : entry[r] # "deleted" BY <1>6
  <2>2. \A v \in Version \ rows : FileOf(v) \notin disk BY <2>1 DEF RowsGoWithTheirFiles
  <2>3. FilesOf(gone \cap rows) \cap disk = {} BY <1>6
  <2>4. \A v \in gone \cap rows : FileOf(v) \notin disk BY <2>3 DEF FilesOf
  <2>5. \A v \in Version \ rows' : FileOf(v) \notin disk BY <1>0, <2>2, <2>4
  <2>6. removed => disk \cap FilesOf(Version) = {} BY <2>1 DEF RowsGoWithTheirFiles
  <2>7. rows \subseteq gone => disk \cap FilesOf(Version) = {}
    BY <1>0, <2>5 DEF FilesOf
  <2> QED BY <1>0, <2>5, <2>6, <2>7 DEF FilesOf, FileOf
<1>7. RowsGoWithTheirFiles' BY <1>5, <1>6 DEF RowsGoWithTheirFiles
<1> QED BY <1>1, <1>2, <1>3, <1>4, <1>7

\* A commit that tombstones the movie.
LEMMA MovieIsRemoved ==
  ASSUME DataInv, removed' = TRUE,
         UNCHANGED <<given, rows, entry, protected, disk, asked, seen, playing>>,
         cands' \subseteq cands, error' \subseteq cands', deferred' \subseteq cands',
         FilesOf(rows) \cap disk = {} \/ \E r \in Radarr : entry[r] = "deleted"
  PROVE  DataInv'
<1> USE DEF DataInv
<1>1. GivenInv' BY DEF GivenInv
<1>2. Typed' BY DEF Typed
<1>3. ProtectedInv' BY DEF ProtectedInv
<1>4. GoneInv'
  <2>1. Allowed' = Allowed BY DEF Allowed, FilesOf, FileOf
  <2>2. TwinsAlone' = TwinsAlone BY DEF TwinsAlone, FileOf, OnItem
  <2>3. FilesOf(Version)' = FilesOf(Version) /\ FilesOf(Version \ rows)' = FilesOf(Version \ rows)
    BY DEF FilesOf, FileOf
  <2> QED BY <2>1, <2>2, <2>3 DEF GoneInv
<1>5. TwinsGoTogether'
  BY DEF RowsGoWithTheirFiles, TwinsGoTogether, Unmonitors, FileOf
<1>6. ASSUME \A r \in Radarr : entry[r] # "deleted"
      PROVE  disk \cap FilesOf(Version) = {}
  <2>1. \A v \in Version \ rows : FileOf(v) \notin disk
    BY <1>6 DEF RowsGoWithTheirFiles
  <2> QED BY <1>6, <2>1 DEF FilesOf
<1>7. (\A r \in Radarr : entry[r] # "deleted") => \A v \in Version \ rows : FileOf(v) \notin disk
  BY DEF RowsGoWithTheirFiles
<1>8. FilesOf(Version)' = FilesOf(Version) /\ \A v \in Version : FileOf(v)' = FileOf(v)
  BY DEF FilesOf, FileOf
<1>9. RowsGoWithTheirFiles' BY <1>5, <1>6, <1>7, <1>8 DEF RowsGoWithTheirFiles
<1> QED BY <1>1, <1>2, <1>3, <1>4, <1>9

(***************************************************************************)
(* The end of a run, and what it has counted.                              *)
(***************************************************************************)
LEMMA IdleRun ==
  ASSUME DataInv', run' = Idle
  PROVE  Inv'
<1>1. ChosenInv'
  BY DEF ChosenInv, Run, Stages, Idle, Versions, Siblings, FilesOf
<1>2. FilesInv' BY DEF FilesInv, Idle
<1>3. NativeInv' BY DEF NativeInv, Idle
<1>4. EntriesInv' BY DEF EntriesInv, Idle, FilesOf
<1>5. WholeInv' BY DEF WholeInv, Idle
<1>6. IdleInv' BY DEF IdleInv, Idle
<1>7. CountInv'
  <2>1. run'.count <= Cardinality({}) BY FS_EmptySet DEF Idle
  <2>2. \E P \in SUBSET run'.ids :
          run'.count <= Cardinality(P) /\ P \cap cands' = {} /\ P \cap Pending' = {}
    BY <2>1
  <2> QED BY <2>2 DEF CountInv
<1> QED BY <1>1, <1>2, <1>3, <1>4, <1>5, <1>6, <1>7 DEF Inv, RunInv

LEMMA CountStays ==
  ASSUME CountInv, run'.ids = run.ids, run'.count = run.count,
         cands' \subseteq cands, Pending' \subseteq Pending
  PROVE  CountInv'
<1>1. PICK P \in SUBSET run.ids :
        run.count <= Cardinality(P) /\ P \cap cands = {} /\ P \cap Pending = {}
  BY DEF CountInv
<1>2. run'.count <= Cardinality(P) /\ P \cap cands' = {} /\ P \cap Pending' = {}
  BY <1>1
<1> QED BY <1>1, <1>2 DEF CountInv

LEMMA CountGrows ==
  ASSUME DataInv, ChosenInv, CountInv,
         run'.ids = run.ids, run'.count = run.count + 1,
         cands' \subseteq cands, Pending' \subseteq Pending,
         NEW d \in run.ids, d \in Pending, d \notin cands', d \notin Pending'
  PROVE  CountInv'
<1>1. PICK P \in SUBSET run.ids :
        run.count <= Cardinality(P) /\ P \cap cands = {} /\ P \cap Pending = {}
  BY DEF CountInv
<1>2. IsFiniteSet(P)
  <2>1. IsFiniteSet(Version \cup {Whole})
    BY BoundAssumption, FS_AddElement
  <2>2. P \subseteq Version \cup {Whole} BY <1>1 DEF ChosenInv, DataInv, Typed
  <2> QED BY <2>1, <2>2, FS_Subset
<1>3. d \notin P BY <1>1
<1>4. Cardinality(P \cup {d}) = Cardinality(P) + 1 BY <1>2, <1>3, FS_AddElement
<1>5. run'.count <= Cardinality(P \cup {d})
  <2>1. run.count \in Nat BY DEF ChosenInv, Run
  <2>2. Cardinality(P) \in Nat BY <1>2, FS_CardinalityType
  <2> QED BY <1>1, <1>4, <2>1, <2>2
<1>6. (P \cup {d}) \cap cands' = {} /\ (P \cup {d}) \cap Pending' = {} BY <1>1
<1>7. P \cup {d} \in SUBSET run'.ids BY <1>1
<1> QED BY <1>5, <1>6, <1>7 DEF CountInv

-----------------------------------------------------------------------------
(***************************************************************************)
(* The steps, one by one.                                                  *)
(***************************************************************************)
LEMMA LooksAtFiles ==
  ASSUME DataInv, Look
  PROVE  seen' \subseteq File
BY DEF DataInv, Typed, Look

LEMMA DeferHolds ==
  ASSUME Inv, Defer, Look
  PROVE  Inv'
<1>1. DataInv'
  <2>1. seen' \subseteq File BY LooksAtFiles DEF Inv
  <2> QED BY <2>1, CallKeepsData DEF Inv, Defer, DataInv, Typed, db, world
<1>2. run' = Idle BY DEF Defer
<1> QED BY <1>1, <1>2, IdleRun

LEMMA AttemptHolds ==
  ASSUME Inv, NEW ids \in SUBSET cands, Attempt(ids)
  PROVE  Inv'
<1> DEFINE allowed == {c \in ids : ~Blocked(TargetOf(c))}
           target == UNION {TargetOf(c) : c \in allowed}
<1>1. allowed \subseteq cands /\ cands \subseteq Version \cup {Whole}
  BY DEF Inv, DataInv, Typed
<1>2. /\ UNCHANGED <<given, rows, removed, cands, protected, disk, entry, playing>>
      /\ asked' = asked \cup allowed
      /\ run' = IF allowed = {} THEN Idle
                ELSE [Idle EXCEPT !.at = "routing", !.ids = allowed, !.target = target]
      /\ error' \subseteq error \cup cands /\ deferred' \subseteq deferred \cup cands
      /\ Look
  BY DEF Attempt, db, world
<1>3. target \subseteq File
  <2>1. \A c \in allowed : TargetOf(c) \subseteq File
    <3> SUFFICES ASSUME NEW c \in allowed PROVE TargetOf(c) \subseteq File
      OBVIOUS
    <3>1. given.file \in [Version -> File] /\ rows \subseteq Version
      BY DEF Inv, DataInv, GivenInv, Typed
    <3>2. c = Whole \/ c \in Version BY <1>1
    <3> QED BY <3>1, <3>2 DEF TargetOf, FilesOf, FileOf, SameStem
  <2> QED BY <2>1
<1> HIDE DEF allowed, target
<1>4. DataInv'
  <2>1. seen' \subseteq File BY <1>2, LooksAtFiles DEF Inv
  <2> QED BY <1>1, <1>2, <2>1, CallKeepsData DEF Inv, DataInv, Typed
<1>5. CASE allowed = {}
  BY <1>2, <1>4, <1>5, IdleRun
<1>6. CASE allowed # {}
  <2>1. /\ run' = [at |-> "routing", ids |-> allowed, chosen |-> {}, info |-> {},
                   loaded |-> {}, target |-> target,
                   files |-> {}, covered |-> {}, byFile |-> {}, native |-> {},
                   picked |-> {}, calls |-> {}, entries |-> {}, todo |-> {}, done |-> {},
                   byEntry |-> {}, cleaned |-> {}, count |-> 0]
    BY <1>2, <1>6 DEF Idle
  <2>2. ChosenInv'
    <3>1. run' \in Run BY <1>1, <1>3, <2>1 DEF Run, Stages
    <3>2. run'.ids \subseteq asked' BY <1>2, <2>1
    <3>3. Versions' = {} /\ FilesOf(Versions)' = {} /\ Siblings(Versions, run.info)' = {}
      BY <2>1 DEF Versions, FilesOf, Siblings
    <3> QED BY <2>1, <3>1, <3>2, <3>3 DEF ChosenInv
  <2>3. FilesInv' /\ NativeInv' /\ WholeInv'
    BY <2>1 DEF FilesInv, NativeInv, WholeInv
  <2>4. EntriesInv' BY <2>1 DEF EntriesInv, FilesOf
  <2>5. IdleInv'
    <3>1. run'.at = "routing" /\ run'.ids = allowed /\ run'.target = target BY <2>1
    <3> QED BY <1>2, <1>6, <3>1 DEF IdleInv, Idle
  <2>6. CountInv'
    <3>1. run'.count <= Cardinality({}) BY <2>1, FS_EmptySet
    <3>2. \E P \in SUBSET run'.ids :
            run'.count <= Cardinality(P) /\ P \cap cands' = {} /\ P \cap Pending' = {}
      BY <3>1
    <3> QED BY <3>2 DEF CountInv
  <2> QED BY <1>4, <2>2, <2>3, <2>4, <2>5, <2>6 DEF Inv, RunInv
<1> QED BY <1>5, <1>6

LEMMA StutterHolds ==
  ASSUME Inv, UNCHANGED <<given, disk, rows, removed, entry, cands, protected, error,
                          deferred, seen, run, asked>>,
         playing' \subseteq File
  PROVE  Inv'
<1>1. DataInv'
  BY CallKeepsData DEF Inv, DataInv, Typed
<1>3. ChosenInv' BY DEF Inv, RunInv, ChosenInv, Versions, Siblings, FilesOf, FileOf
<1>4. FilesInv' BY DEF Inv, RunInv, FilesInv, FilesOf, FileOf
<1>5. NativeInv'
  BY DEF Inv, RunInv, NativeInv, ItemShared, Siblings, FilesOf, FileOf, OnItem
<1>6. EntriesInv'
  BY DEF Inv, RunInv, EntriesInv, Unmonitors, Allowed, Targets, FilesOf, FileOf
<1>7. WholeInv' BY DEF Inv, RunInv, WholeInv, FilesOf, FileOf
<1>8. IdleInv' BY DEF Inv, RunInv, IdleInv
<1>9. CountInv' BY DEF Inv, CountInv, Pending
<1> QED BY <1>1, <1>3, <1>4, <1>5, <1>6, <1>7, <1>8, <1>9 DEF Inv, RunInv

LEMMA PlayHolds ==
  ASSUME Inv, Play
  PROVE  Inv'
<1>1. playing' \subseteq File BY DEF Play, Inv, DataInv, Typed
<1> QED BY <1>1, StutterHolds DEF Play, db, marks, world

LEMMA EndHolds ==
  ASSUME Inv, Die \/ Diagnose
  PROVE  Inv'
<1>1. /\ UNCHANGED <<given, rows, removed, cands, protected, disk, entry, playing, seen, asked>>
      /\ error' \subseteq cands /\ deferred' = deferred /\ run' = Idle
  BY DEF Die, Diagnose, db, marks, world, Marked, Inv, DataInv, Typed
<1>2. DataInv' BY <1>1, CallKeepsData DEF Inv, DataInv, Typed
<1> QED BY <1>1, <1>2, IdleRun

LEMMA MatchedRadarrs ==
  ASSUME GivenInv, NEW v
  PROVE  MatchVersion(v) \subseteq Active /\ Active \subseteq Radarr
BY DEF MatchVersion, Active, GivenInv

\* The files of a selection are those of the rows that go with it, and may go.
LEMMA SiblingsFiles ==
  ASSUME NEW S, NEW info, NEW v \in Siblings(S, info)
  PROVE  \E w \in S : FileOf(w) = FileOf(v)
BY DEF Siblings

LEMMA SelectionMayGo ==
  ASSUME DataInv, NEW S \in SUBSET Version, S \subseteq asked,
         FilesOf(S) \cap FilesOf(protected) = {}, NEW info \in SUBSET Version
  PROVE  /\ Siblings(S, info) \subseteq Version
         /\ FilesOf(Siblings(S, info)) \subseteq Allowed
         /\ FilesOf(Siblings(S, info)) \cap FilesOf(protected) = {}
<1>1. given.file \in [Version -> File] BY DEF DataInv, GivenInv
<1>2. Siblings(S, info) \subseteq Version BY DEF Siblings
<1>3. ASSUME NEW v \in Siblings(S, info)
      PROVE  FileOf(v) \in Allowed /\ FileOf(v) \notin FilesOf(protected)
  <2>1. PICK w \in S : FileOf(w) = FileOf(v) BY SiblingsFiles
  <2>2. FileOf(w) \notin FilesOf(protected) BY DEF FilesOf
  <2>3. FileOf(v) \in File BY <1>1, <1>2 DEF FileOf
  <2> QED BY <2>1, <2>2, <2>3 DEF Allowed
<1> QED BY <1>2, <1>3 DEF FilesOf

\* No row outside has the file of one of them.
LEMMA SiblingsClosed ==
  ASSUME NEW S, NEW info, S \subseteq info,
         NEW v \in Siblings(S, info), NEW w \in info, FileOf(v) = FileOf(w)
  PROVE  w \in Siblings(S, info)
BY DEF Siblings

LEMMA RouteHolds ==
  ASSUME Inv, Route
  PROVE  Inv'
<1> DEFINE live == IF removed THEN {} ELSE run.ids \cap cands
           chosen == live \ HeldBack(live)
           S == chosen \cap Version
           byEntry == {v \in S : \/ Unmonitors /\ MatchVersion(v) # {}
                                 \/ given.action = "delete"
                                    /\ CoversFullEntry(S, MatchVersion(v), rows)}
           partial == {v \in S \ byEntry : given.action = "delete" /\ MatchVersion(v) # {}}
           plans == {DeletableFiles(S, MatchVersion(v), rows) :
                       v \in {p \in partial : \A r \in MatchVersion(p) : entry[r] # "deleted"}}
           entries == (UNION {MatchVersion(v) : v \in byEntry})
                      \cup (IF Whole \in chosen THEN Active ELSE {})
<1>1. PICK files \in {p \in plans : AllAccounted(p, S, rows)} \cup {{}} :
        run' = [run EXCEPT
            !.at = "files", !.chosen = chosen, !.info = rows,
            !.files = files, !.covered = Siblings(S, rows),
            !.byFile = IF files = {} THEN {} ELSE partial,
            !.native = S \ (byEntry \cup (IF files = {} THEN {} ELSE partial)),
            !.entries = entries, !.todo = entries,
            !.byEntry = byEntry \cup (chosen \cap {Whole})]
  BY DEF Route
<1>2. /\ UNCHANGED <<given, rows, removed, cands, protected, disk, entry, deferred,
                     playing, seen, asked>>
      /\ error' \subseteq cands
  BY DEF Route, db, world, Marked, Inv, DataInv, Typed
<1>3. DataInv' BY <1>2, CallKeepsData DEF Inv, DataInv, Typed
<1>4. /\ run = [Idle EXCEPT !.at = "routing", !.ids = run.ids, !.target = run.target]
      /\ run \in Run /\ run.ids \subseteq asked
  BY DEF Route, Inv, RunInv, IdleInv, ChosenInv
<1>5. /\ chosen \subseteq run.ids /\ chosen \subseteq cands
      /\ S \subseteq chosen /\ S \subseteq rows /\ S \subseteq Version
      /\ Whole \notin Version /\ rows \subseteq Version
      /\ byEntry \subseteq S /\ partial \subseteq S /\ byEntry \cap partial = {}
  BY BoundAssumption DEF Inv, DataInv, Typed
<1>6. FilesOf(S) \cap FilesOf(protected) = {}
  <2>1. protected \subseteq rows /\ protected \cap cands = {}
    BY DEF Inv, DataInv, ProtectedInv
  <2>2. protected \cap rows = protected BY <2>1
  <2>3. \A v \in S : FileOf(v) \notin FilesOf(protected)
    BY <1>5, <2>1, <2>2 DEF HeldBack
  <2> QED BY <2>3 DEF FilesOf
<1>7. /\ Siblings(S, rows) \subseteq Version
      /\ FilesOf(Siblings(S, rows)) \subseteq Allowed
  <2>1. S \subseteq asked BY <1>4, <1>5
  <2> QED BY <1>5, <1>6, <2>1, SelectionMayGo DEF Inv
<1>8. files \subseteq File /\ files \subseteq disk /\ files \subseteq FilesOf(Siblings(S, rows))
      /\ (files # {} => FilesOf(Siblings(S, rows)) \subseteq files)
  <2>1. CASE files = {} BY <2>1
  <2>2. CASE files # {}
    <3>1. PICK v \in partial : files = DeletableFiles(S, MatchVersion(v), rows)
      BY <2>2
    <3>2. UNION {Owners(f, rows) : f \in files} = Siblings(S, rows)
      BY <1>1, <2>2 DEF AllAccounted
    <3>3. ASSUME NEW f \in files
          PROVE  f \in disk /\ \E w \in Siblings(S, rows) : FileOf(w) = f
      BY <3>1 DEF DeletableFiles, Owners
    <3>4. ASSUME NEW w \in Siblings(S, rows) PROVE FileOf(w) \in files
      BY <3>2 DEF Owners
    <3> DEFINE covered == Siblings(S, rows)
    <3>5. disk \subseteq File BY DEF Inv, DataInv, Typed
    <3> HIDE DEF S, covered
    <3>6. files \subseteq FilesOf(covered) BY <3>3 DEF FilesOf, covered
    <3>7. FilesOf(covered) \subseteq files BY <3>4 DEF FilesOf, covered
    <3> QED BY <3>3, <3>5, <3>6, <3>7 DEF covered
  <2> QED BY <2>1, <2>2
<1>9. /\ entries \subseteq Radarr
      /\ (entries # {} => byEntry \cup (chosen \cap {Whole}) # {})
  <2>1. Active \subseteq Radarr /\ \A v : MatchVersion(v) \subseteq Radarr
    BY MatchedRadarrs DEF Inv, DataInv
  <2> HIDE DEF byEntry, chosen
  <2> QED BY <2>1
<1>10. ASSUME ~Unmonitors, NEW r \in entries, NEW w \in Version, given.home[FileOf(w)] = r
       PROVE  FileOf(w) \in Allowed
  <2>0. FileOf(w) \in File BY DEF FileOf, Inv, DataInv, GivenInv
  <2>1. CASE Whole \in chosen
    BY <1>4, <1>5, <2>0, <2>1 DEF Allowed
  <2>2. CASE w \notin rows
    BY <2>2 DEF Inv, DataInv, GoneInv, FilesOf
  <2>3. CASE w \in rows /\ Whole \notin chosen
    <3>1. PICK v \in byEntry : r \in MatchVersion(v) BY <2>3
    <3>2. CoversFullEntry(S, MatchVersion(v), rows) BY <1>10, <3>1
    <3>3. w \in Siblings(S, rows)
      <4> DEFINE inEntry == {x \in rows : InEntry(x, r)}
      <4>1. IF inEntry = {} THEN Siblings(S, rows) = rows ELSE inEntry \subseteq Siblings(S, rows)
        BY <3>1, <3>2 DEF CoversFullEntry
      <4>2. inEntry # {} => w \in inEntry BY <1>10, <2>3 DEF InEntry
      <4> QED BY <2>3, <4>1, <4>2
    <3> QED BY <1>7, <3>3 DEF FilesOf
  <2> QED BY <2>1, <2>2, <2>3
<1> DEFINE byFile == IF files = {} THEN {} ELSE partial
           native == S \ (byEntry \cup byFile)
           covered == Siblings(S, rows)
           handled == byEntry \cup (chosen \cap {Whole})
<1>11. byFile \subseteq S /\ native \subseteq S /\ byFile \cap byEntry = {}
       /\ native \cap byEntry = {} /\ native \cap byFile = {} /\ Whole \notin byFile \cup native
       /\ handled \subseteq chosen /\ handled \cap native = {} /\ handled \cap byFile = {}
  <2>1. byEntry \subseteq S /\ partial \subseteq S \ byEntry /\ S \subseteq chosen /\ Whole \notin S
    BY <1>5
  <2> HIDE DEF chosen, S, byEntry, partial
  <2> QED BY <2>1
<1>12. /\ run'.at = "files" /\ run'.ids = run.ids /\ run'.target = run.target
       /\ run'.chosen = chosen /\ run'.info = rows /\ run'.files = files
       /\ run'.covered = covered /\ run'.byFile = byFile /\ run'.native = native
       /\ run'.entries = entries /\ run'.todo = entries /\ run'.byEntry = handled
       /\ run'.loaded = {} /\ run'.picked = {} /\ run'.calls = {}
       /\ run'.done = {} /\ run'.cleaned = {} /\ run'.count = 0
       /\ run' = [run EXCEPT
            !.at = "files", !.chosen = chosen, !.info = rows, !.files = files,
            !.covered = covered, !.byFile = byFile, !.native = native,
            !.entries = entries, !.todo = entries, !.byEntry = handled]
  <2>1. run' = [run EXCEPT
            !.at = "files", !.chosen = chosen, !.info = rows, !.files = files,
            !.covered = covered, !.byFile = byFile, !.native = native,
            !.entries = entries, !.todo = entries, !.byEntry = handled]
    BY <1>1
  <2>2. /\ run.loaded = {} /\ run.picked = {} /\ run.calls = {}
        /\ run.done = {} /\ run.cleaned = {} /\ run.count = 0
    BY <1>4 DEF Idle
  <2> HIDE DEF live, chosen, S, byEntry, partial, plans, entries, byFile, native, covered, handled
  <2>3. run \in Run
    BY <1>4
  <2> QED BY <2>1, <2>2, <2>3 DEF Run
<1>13. run.ids \subseteq Version \cup {Whole} /\ run.target \subseteq File /\ S = chosen \cap Version
  BY <1>4 DEF Run
<1> HIDE DEF live, chosen, S, byEntry, partial, plans, entries, byFile, native, covered, handled
<1>14. covered \subseteq Version BY <1>7 DEF covered
<1>15. chosen \cap {Whole} \subseteq handled BY DEF handled
<1>16. Versions' = S BY <1>12, <1>13 DEF Versions
<1>17. FilesOf(protected)' = FilesOf(protected) BY <1>2 DEF FilesOf, FileOf
<1>18. ChosenInv'
  <2>1. run' \in Run
    BY <1>4, <1>5, <1>8, <1>9, <1>11, <1>12, <1>13, <1>14 DEF Run, Stages
  <2>2. run'.ids \subseteq asked' BY <1>2, <1>4, <1>12
  <2>3. FilesOf(Versions)' = FilesOf(S) BY <1>2, <1>16 DEF FilesOf, FileOf
  <2>4. Siblings(Versions, run.info)' = covered
    BY <1>2, <1>12, <1>16 DEF Siblings, FileOf, covered
  <2> QED BY <1>2, <1>5, <1>6, <1>11, <1>12, <1>15, <1>16, <1>17, <2>1, <2>2, <2>3, <2>4
          DEF ChosenInv
<1>19. FilesInv'
  <2>1. FilesOf(run.covered)' = FilesOf(covered) BY <1>2, <1>12 DEF FilesOf, FileOf
  <2>2. byFile # {} => files # {} BY DEF byFile
  <2> QED BY <1>8, <1>12, <2>1, <2>2 DEF FilesInv, covered
<1>20. NativeInv' /\ WholeInv' /\ IdleInv' BY <1>12 DEF NativeInv, WholeInv, IdleInv
<1>21. EntriesInv'
  <2>1. Allowed' = Allowed /\ Unmonitors' = Unmonitors
        /\ \A v \in Version : FileOf(v)' = FileOf(v)
    BY <1>2 DEF Allowed, Unmonitors, FilesOf, FileOf
  <2>2. run'.todo = entries /\ run'.done = {} /\ run'.byEntry = handled
        /\ run'.at = "files" /\ run'.cleaned = {}
    BY <1>12
  <2>3. FilesOf(run.cleaned)' = {} BY <2>2 DEF FilesOf
  <2>4. entries # {} => handled # {} BY <1>9 DEF handled
  <2> QED BY <1>2, <1>10, <2>1, <2>2, <2>3, <2>4 DEF EntriesInv
<1>22. CountInv'
  <2>1. run'.count <= Cardinality({}) BY <1>12, FS_EmptySet
  <2>2. \E P \in SUBSET run'.ids :
          run'.count <= Cardinality(P) /\ P \cap cands' = {} /\ P \cap Pending' = {}
    BY <2>1
  <2> QED BY <2>2 DEF CountInv
<1> QED BY <1>3, <1>18, <1>19, <1>20, <1>21, <1>22 DEF Inv, RunInv

(***************************************************************************)
(* What later steps leave alone: what was chosen; the files Radarr is to   *)
(* delete, once their stage is over; the entries, before theirs.           *)
(***************************************************************************)
LEMMA ChosenStays ==
  ASSUME DataInv, ChosenInv, UNCHANGED <<given, protected, asked>>, rows' \subseteq rows,
         run.at \notin {"idle", "routing"}, run'.at \notin {"idle", "routing"},
         run' \in Run, run'.ids = run.ids, run'.chosen = run.chosen, run'.info = run.info,
         run'.covered = run.covered, run'.byFile = run.byFile, run'.byEntry = run.byEntry,
         run'.native \subseteq run.native,
         run'.picked \subseteq Versions \ (run.byEntry \cup run'.native)
  PROVE  ChosenInv' /\ IdleInv'
<1>1. Versions' = Versions BY DEF Versions
<1>2. FilesOf(Versions)' = FilesOf(Versions) /\ FilesOf(protected)' = FilesOf(protected)
  BY <1>1 DEF FilesOf, FileOf
<1>3. Siblings(Versions, run.info)' = Siblings(Versions, run.info)
  BY <1>1 DEF Siblings, FileOf
<1> QED BY <1>1, <1>2, <1>3 DEF ChosenInv, IdleInv

LEMMA FilesStay ==
  ASSUME FilesInv, UNCHANGED given, run'.covered = run.covered,
         run'.files \subseteq run.files, run'.at # "files"
  PROVE  FilesInv'
<1>1. FilesOf(run.covered)' = FilesOf(run.covered) BY DEF FilesOf, FileOf
<1> QED BY <1>1 DEF FilesInv

LEMMA EntriesStay ==
  ASSUME EntriesInv, UNCHANGED <<given, protected, asked>>, disk' \subseteq disk,
         run'.todo \subseteq run.todo, run'.done = run.done, run'.byEntry = run.byEntry,
         run'.cleaned = run.cleaned, run'.at # "cleanup",
         \A r \in run.done : entry[r] = "deleted" => entry'[r] = "deleted"
  PROVE  EntriesInv'
<1>1. /\ Allowed' = Allowed /\ Unmonitors' = Unmonitors
      /\ \A v \in Version : FileOf(v)' = FileOf(v)
      /\ FilesOf(run.cleaned)' = FilesOf(run.cleaned)
  BY DEF Allowed, Unmonitors, FilesOf, FileOf
<1> QED BY <1>1 DEF EntriesInv

LEMMA DeleteMovieFilesHolds ==
  ASSUME Inv, NEW r \in Radarr, DeleteMovieFiles(r)
  PROVE  Inv'
<1> DEFINE files == {f \in run.files : given.home[f] = r}
<1>1. Look /\ run.at = "files" /\ files \subseteq run.files BY DEF DeleteMovieFiles
<1>2. CASE Defer BY <1>1, <1>2, DeferHolds
<1>3. CASE ~Defer
  <2>1. PICK outcome \in Outcome :
          /\ Removes(outcome, files)
          /\ run' = [run EXCEPT !.target = run.target \cup files,
                       !.files = IF outcome = "done" THEN @ \ files ELSE {},
                       !.at = IF outcome = "done" THEN @ ELSE "native",
                       !.loaded = rows]
          /\ error' = IF outcome = "done" THEN error ELSE Marked(run.byFile)
          /\ UNCHANGED <<given, db, deferred, entry, playing, asked, left>>
    BY <1>3 DEF DeleteMovieFiles
  <2> HIDE DEF files
  <2>2. /\ UNCHANGED <<given, rows, removed, cands, protected, deferred, entry, playing, asked>>
        /\ disk' \subseteq disk /\ disk \ disk' \subseteq files
        /\ (outcome = "done" => disk' = disk \ files)
        /\ error' \subseteq cands
    BY <2>1 DEF Removes, db, Marked, Inv, DataInv, Typed
  <2>3. DataInv'
    <3>1. files \subseteq FilesOf(run.covered) BY <1>1 DEF Inv, RunInv, FilesInv
    <3>2. FilesOf(run.covered) \subseteq Allowed
      <4>1. Versions \subseteq Version /\ Versions \subseteq asked /\ run.info \subseteq Version
        BY DEF Inv, RunInv, ChosenInv, Versions, Run
      <4> QED BY <4>1, SelectionMayGo DEF Inv, RunInv, ChosenInv
    <3>3. seen' \subseteq File BY <1>1, LooksAtFiles DEF Inv
    <3> QED BY <2>2, <3>1, <3>2, <3>3, CallKeepsData DEF Inv, DataInv, Typed
  <2>4. run \in Run BY DEF Inv, RunInv, ChosenInv
  <2>5. rows \subseteq Version /\ run.files \subseteq File /\ run.target \subseteq File
    BY <2>4 DEF Inv, DataInv, Typed, Run
  <2>6. run' \in Run BY <1>1, <2>1, <2>4, <2>5 DEF Run, Stages
  <2>7. ChosenInv' /\ IdleInv'
    BY <1>1, <2>1, <2>2, <2>4, <2>6, ChosenStays DEF Inv, RunInv, ChosenInv, Run, NativeInv
  <2>8. FilesInv'
    <3>1. CASE outcome # "done"
      BY <2>1, <2>2, <2>4, <3>1, FilesStay DEF Run, Inv, RunInv
    <3>2. CASE outcome = "done"
      <4>1. FilesOf(run.covered)' = FilesOf(run.covered)
        BY <2>1, <2>2, <2>4 DEF FilesOf, FileOf, Run
      <4>2. run'.at = "files" /\ run'.files = run.files \ files /\ run'.byFile = run.byFile
        BY <1>1, <2>1, <2>4, <3>2 DEF Run
      <4> QED BY <1>1, <2>2, <3>2, <4>1, <4>2 DEF FilesInv, Inv, RunInv
    <3> QED BY <3>1, <3>2
  <2>9. NativeInv'
    BY <1>1, <2>1, <2>2, <2>4 DEF NativeInv, Inv, RunInv, Run
  <2>10. EntriesInv'
    BY <1>1, <2>1, <2>2, <2>4, EntriesStay DEF Run, Inv, RunInv
  <2>11. WholeInv'
    BY <1>1, <2>1, <2>4 DEF Run, WholeInv
  <2>12. CountInv'
    <3>1. Pending' \subseteq Pending
      BY <1>1, <2>1, <2>4 DEF Run, Pending
    <3>2. run'.ids = run.ids /\ run'.count = run.count
      BY <2>1, <2>4 DEF Run
    <3> QED BY <2>2, <3>1, <3>2, CountStays DEF Inv
  <2> QED BY <2>3, <2>7, <2>8, <2>9, <2>10, <2>11, <2>12 DEF Inv, RunInv
<1> QED BY <1>2, <1>3

LEMMA FinishFilesHolds ==
  ASSUME Inv, FinishFiles
  PROVE  Inv'
<1>1. /\ run.at = "files" /\ run.files = {}
      /\ IF run.byFile = {} THEN UNCHANGED <<rows, removed, cands, marks>>
                            ELSE RetireRows(run.covered, run.byFile)
      /\ run' = [run EXCEPT !.at = "native", !.loaded = rows',
                   !.count = IF run.byFile = {} THEN @ ELSE @ + 1]
      /\ UNCHANGED <<given, protected, disk, entry, playing, seen, asked>>
  BY DEF FinishFiles, world
<1>2. run \in Run /\ DataInv /\ RunInv /\ CountInv BY DEF Inv, RunInv, ChosenInv
<1>3. /\ rows' \subseteq rows /\ cands' \subseteq cands
      /\ run.byFile \cap cands' = {} /\ error' \subseteq cands' /\ deferred' \subseteq cands'
  BY <1>1, <1>2 DEF RetireRows, marks, DataInv, Typed
<1>4. DataInv'
  <2>1. CASE run.byFile = {}
    BY <1>1, <1>2, <2>1, CallKeepsData DEF DataInv, Typed, marks
  <2>2. CASE run.byFile # {}
    <3>1. run.covered = Siblings(Versions, run.info) /\ rows \subseteq run.info
      BY <1>1, <1>2 DEF RunInv, ChosenInv
    <3>2. Versions \subseteq Version /\ Versions \subseteq asked /\ run.info \subseteq Version
          /\ FilesOf(Versions) \cap FilesOf(protected) = {}
      BY <1>2 DEF RunInv, ChosenInv, Versions, Run
    <3>3. /\ run.covered \subseteq Version /\ FilesOf(run.covered) \subseteq Allowed
          /\ FilesOf(run.covered) \cap FilesOf(protected) = {}
      BY <1>2, <3>1, <3>2, SelectionMayGo
    <3>4. \A v \in run.covered, w \in rows : FileOf(v) = FileOf(w) => w \in run.covered
      <4>1. Versions \subseteq run.info BY <1>2 DEF RunInv, ChosenInv
      <4> QED BY <3>1, <4>1, SiblingsClosed
    <3>5. FilesOf(run.covered \cap rows) \cap disk = {}
      <4>1. FilesOf(run.covered) \cap disk = {}
        BY <1>1, <1>2, <2>2 DEF RunInv, FilesInv
      <4> QED BY <4>1 DEF FilesOf
    <3>6. RetireRows(run.covered, run.byFile) BY <1>1, <2>2
    <3>7. entry' \in [Radarr -> {"monitored", "unmonitored", "deleted"}] /\ entry' = entry
      BY <1>1, <1>2 DEF DataInv, Typed
    <3> QED BY <1>1, <1>2, <3>3, <3>4, <3>5, <3>6, <3>7, RowsRetire
  <2> QED BY <2>1, <2>2
<1>5. run' \in Run /\ rows' \subseteq Version
  <2>1. rows' \subseteq Version BY <1>2, <1>3 DEF DataInv, Typed
  <2>2. CASE run.byFile = {} BY <1>1, <1>2, <2>1, <2>2 DEF Run, Stages
  <2>3. CASE run.byFile # {}
    <3>1. run' = [run EXCEPT !.at = "native", !.loaded = rows', !.count = @ + 1]
      BY <1>1, <2>3
    <3>2. run.count + 1 \in Nat BY <1>2 DEF Run
    <3> QED BY <1>2, <2>1, <3>1, <3>2 DEF Run, Stages
  <2> QED BY <2>1, <2>2, <2>3
<1>6. ChosenInv' /\ IdleInv'
  BY <1>1, <1>2, <1>3, <1>5, ChosenStays DEF RunInv, ChosenInv, Run, NativeInv
<1>7. FilesInv' BY <1>1, <1>2, FilesStay DEF RunInv, Run
<1>8. NativeInv' BY <1>1, <1>2 DEF NativeInv, RunInv, Run
<1>9. EntriesInv' BY <1>1, <1>2, EntriesStay DEF RunInv, Run
<1>10. WholeInv' BY <1>1, <1>2 DEF Run, WholeInv
<1>11. CountInv'
  <2>1. Pending' \subseteq Pending BY <1>1, <1>2 DEF Run, Pending
  <2>2. run'.ids = run.ids BY <1>1, <1>2 DEF Run
  <2>3. CASE run.byFile = {}
    <3>1. run'.count = run.count BY <1>1, <1>2, <2>3 DEF Run
    <3> QED BY <1>2, <1>3, <2>1, <2>2, <3>1, CountStays
  <2>4. CASE run.byFile # {}
    <3>1. PICK d \in run.byFile : TRUE BY <2>4
    <3>2. run'.count = run.count + 1 BY <1>1, <1>2, <2>4 DEF Run
    <3>3. d \in run.ids BY <1>2 DEF RunInv, ChosenInv, Versions
    <3>4. d \in Pending BY <1>1 DEF Pending
    <3>5. d \notin Pending'
      BY <1>1, <1>2, <3>1 DEF Pending, Run, RunInv, ChosenInv, NativeInv
    <3> QED BY <1>2, <1>3, <2>1, <2>2, <3>2, <3>3, <3>4, <3>5, CountGrows DEF RunInv
  <2> QED BY <2>3, <2>4
<1> QED BY <1>4, <1>6, <1>7, <1>8, <1>9, <1>10, <1>11 DEF Inv, RunInv

\* A version more or less on the list changes no data.
LEMMA NativeStepHolds ==
  ASSUME Inv, NEW v \in Version, SkipVersion(v) \/ PickVersion(v)
  PROVE  Inv'
<1>1. /\ run.at = "native" /\ v \in run.native
      /\ \/ run' = [run EXCEPT !.native = @ \ {v}]
         \/ /\ run' = [run EXCEPT !.at = "version", !.native = @ \ {v}, !.picked = {v},
                                  !.calls = Siblings({v}, run.loaded)]
            /\ v \in run.loaded /\ ~ItemShared(v)
      /\ UNCHANGED <<given, rows, removed, cands, protected, disk, entry, deferred,
                     playing, seen, asked>>
      /\ error' \subseteq cands
  BY DEF SkipVersion, PickVersion, db, world, marks, Marked, Inv, DataInv, Typed
<1>2. run \in Run /\ DataInv /\ RunInv /\ CountInv BY DEF Inv, RunInv, ChosenInv
<1>3. DataInv' BY <1>1, <1>2, CallKeepsData DEF DataInv, Typed
<1>4. Siblings({v}, run.loaded) \subseteq Version BY <1>2 DEF Siblings, Run
<1>5. CASE run' = [run EXCEPT !.native = @ \ {v}]
  <2>1. run' \in Run BY <1>2, <1>5 DEF Run
  <2>2. ChosenInv' /\ IdleInv'
    BY <1>1, <1>2, <1>5, <2>1, ChosenStays DEF RunInv, ChosenInv, NativeInv, Run
  <2>3. FilesInv' BY <1>1, <1>2, <1>5, FilesStay DEF RunInv, Run
  <2>4. NativeInv' BY <1>1, <1>2, <1>5 DEF RunInv, NativeInv, Run
  <2>5. EntriesInv' BY <1>1, <1>2, <1>5, EntriesStay DEF RunInv, Run
  <2>6. WholeInv' BY <1>1, <1>2, <1>5 DEF Run, WholeInv
  <2>7. Pending' \subseteq Pending BY <1>1, <1>2, <1>5 DEF Run, Pending
  <2>8. run'.ids = run.ids /\ run'.count = run.count BY <1>2, <1>5 DEF Run
  <2>9. CountInv' BY <1>1, <1>2, <2>7, <2>8, CountStays
  <2> QED BY <1>3, <2>2, <2>3, <2>4, <2>5, <2>6, <2>9 DEF Inv, RunInv
<1>6. CASE /\ run' = [run EXCEPT !.at = "version", !.native = @ \ {v}, !.picked = {v},
                                 !.calls = Siblings({v}, run.loaded)]
           /\ v \in run.loaded /\ ~ItemShared(v)
  <2>1. run' \in Run BY <1>2, <1>4, <1>6 DEF Run, Stages
  <2>2. v \in Versions \ run.byEntry BY <1>1, <1>2 DEF RunInv, ChosenInv
  <2>3. run.picked = {} BY <1>1, <1>2 DEF RunInv, NativeInv
  <2>4. run'.picked = {v} /\ run'.native = run.native \ {v} /\ run'.loaded = run.loaded
        /\ run'.at = "version" /\ run'.calls = Siblings({v}, run.loaded)
    BY <1>2, <1>6 DEF Run
  <2>5. ChosenInv' /\ IdleInv'
    BY <1>1, <1>2, <1>6, <2>1, <2>2, <2>4, ChosenStays DEF RunInv, Run
  <2>6. FilesInv' BY <1>1, <1>2, <1>6, FilesStay DEF RunInv, Run
  <2>7. NativeInv'
    <3>1. ItemShared(v)' = ItemShared(v)
          /\ Siblings({v}, run.loaded)' = Siblings({v}, run.loaded)
      BY <1>1, <2>4 DEF ItemShared, Siblings, OnItem, FileOf
    <3>2. FilesOf(Siblings({v}, run.loaded) \ run.calls)' = {}
      BY <2>4, <3>1 DEF FilesOf
    <3>3. \E x \in run'.loaded :
            /\ run'.picked = {x} /\ ~ItemShared(x)'
            /\ run'.calls \subseteq Siblings({x}, run.loaded)'
            /\ FilesOf(Siblings({x}, run.loaded) \ run.calls)' \cap disk' = {}
      BY <1>6, <2>4, <3>1, <3>2
    <3>4. rows' \subseteq run'.loaded BY <1>1, <1>2, <2>4 DEF RunInv, NativeInv
    <3> QED BY <2>4, <3>3, <3>4 DEF NativeInv
  <2>8. EntriesInv' BY <1>1, <1>2, <1>6, EntriesStay DEF RunInv, Run
  <2>9. WholeInv' BY <2>4 DEF WholeInv
  <2>10. Pending' \subseteq Pending
    <3>1. run'.byFile = run.byFile /\ run'.byEntry = run.byEntry BY <1>2, <1>6 DEF Run
    <3> QED BY <1>1, <2>3, <2>4, <3>1 DEF Pending
  <2>11. run'.ids = run.ids /\ run'.count = run.count BY <1>2, <1>6 DEF Run
  <2>12. CountInv' BY <1>1, <1>2, <2>10, <2>11, CountStays
  <2> QED BY <1>3, <2>5, <2>6, <2>7, <2>8, <2>9, <2>12 DEF Inv, RunInv
<1> QED BY <1>1, <1>5, <1>6

\* What the media server deletes with a picked version may go.
LEMMA DeletedMayGo ==
  ASSUME Inv, TwinsAlone, NEW v \in Versions, ~ItemShared(v), rows \subseteq run.loaded,
         NEW w \in Siblings({v}, run.loaded)
  PROVE  FilesOf(Version) \cap DeletedWith(w) \subseteq Allowed
<1>1. run \in Run /\ Versions \subseteq Version /\ Versions \subseteq asked
      /\ FilesOf(Versions) \cap FilesOf(protected) = {}
  BY DEF Inv, RunInv, ChosenInv, Versions
<1>2. FileOf(w) = FileOf(v) /\ w \in Version /\ v \in Version
  BY <1>1 DEF Siblings, Run
<1>3. /\ Siblings({v}, run.loaded) \subseteq Version
      /\ FilesOf(Siblings({v}, run.loaded)) \subseteq Allowed
  <2>1. {v} \subseteq Version /\ {v} \subseteq asked BY <1>1
  <2>2. FilesOf({v}) \cap FilesOf(protected) = {} BY <1>1 DEF FilesOf
  <2>3. run.loaded \subseteq Version BY <1>1 DEF Run
  <2> QED BY <2>1, <2>2, <2>3, SelectionMayGo DEF Inv
<1>4. FileOf(w) \in Allowed BY <1>3 DEF FilesOf
<1>5. CASE given.server = "plex"
  BY <1>4, <1>5 DEF DeletedWith
<1>6. CASE given.server = "emby"
  <2>1. DeletedWith(w) = FilesOf(OnItem(given.item[w])) BY <1>6 DEF DeletedWith
  <2>2. ASSUME NEW x \in OnItem(given.item[w]) PROVE FileOf(x) \in Allowed
    <3>1. CASE given.item[v] = given.item[w]
      <4>1. OnItem(given.item[w]) \cap run.loaded \subseteq Siblings({v}, run.loaded)
        BY <1>6, <3>1 DEF ItemShared
      <4>2. x \in Version BY DEF OnItem
      <4>3. CASE x \in run.loaded BY <1>3, <4>1, <4>3 DEF FilesOf
      <4>4. CASE x \notin run.loaded
        <5>1. x \in Version \ rows BY <4>2, <4>4
        <5> QED BY <5>1 DEF Inv, DataInv, GoneInv, FilesOf
      <4> QED BY <4>3, <4>4
    <3>2. CASE \A y \in OnItem(given.item[w]) : FileOf(y) = FileOf(w)
      BY <1>4, <3>2
    <3> QED BY <1>2, <1>6, <3>1, <3>2 DEF TwinsAlone
  <2> QED BY <2>1, <2>2 DEF FilesOf
<1>7. given.server \in {"plex", "emby"} BY DEF Inv, DataInv, GivenInv
<1> QED BY <1>5, <1>6, <1>7

LEMMA DeleteMovieVersionHolds ==
  ASSUME Inv, NEW w \in Version, DeleteMovieVersion(w)
  PROVE  Inv'
<1> DEFINE files == DeletedWith(w)
<1>1. Look /\ run.at = "version" /\ w \in run.calls BY DEF DeleteMovieVersion
<1>2. CASE Defer BY <1>1, <1>2, DeferHolds
<1>3. CASE ~Defer
  <2>1. PICK outcome \in Outcome :
          /\ Removes(outcome, files)
          /\ run' = [run EXCEPT !.target = run.target \cup files,
                       !.calls = IF outcome = "done" THEN @ \ {w} ELSE {},
                       !.picked = IF outcome = "done" THEN @ ELSE {},
                       !.at = IF outcome = "done" THEN @ ELSE "native"]
          /\ error' = IF outcome = "done" THEN error ELSE Marked(run.picked)
          /\ UNCHANGED <<given, db, deferred, entry, playing, asked, left>>
    BY <1>3 DEF DeleteMovieVersion
  <2>2. files \subseteq File /\ FileOf(w) \in files
    BY DEF DeletedWith, FilesOf, FileOf, OnItem, Inv, DataInv, GivenInv
  <2>3. run \in Run /\ DataInv /\ RunInv /\ CountInv BY DEF Inv, RunInv, ChosenInv
  <2>4. PICK v \in run.loaded :
          /\ run.picked = {v} /\ ~ItemShared(v)
          /\ run.calls \subseteq Siblings({v}, run.loaded)
          /\ FilesOf(Siblings({v}, run.loaded) \ run.calls) \cap disk = {}
    BY <1>1, <2>3 DEF RunInv, NativeInv
  <2>5. rows \subseteq run.loaded BY <1>1, <2>3 DEF RunInv, NativeInv
  <2>6. TwinsAlone => FilesOf(Version) \cap files \subseteq Allowed
    <3>1. v \in Versions BY <2>3, <2>4 DEF RunInv, ChosenInv
    <3> QED BY <1>1, <2>4, <2>5, <3>1, DeletedMayGo
  <2> HIDE DEF files
  <2>7. /\ UNCHANGED <<given, rows, removed, cands, protected, deferred, entry, playing, asked>>
        /\ disk' \subseteq disk /\ disk \ disk' \subseteq files
        /\ (outcome = "done" => disk' = disk \ files)
        /\ error' \subseteq cands
    BY <2>1, <2>3 DEF Removes, db, Marked, DataInv, Typed
  <2>8. DataInv'
    <3>1. seen' \subseteq File BY <1>1, <2>3, LooksAtFiles
    <3> QED BY <2>3, <2>6, <2>7, <3>1, CallKeepsData DEF DataInv, Typed
  <2>9. run' \in Run
    <3>1. run.target \cup files \subseteq File /\ run.calls \subseteq Version
      BY <2>2, <2>3 DEF Run
    <3> DEFINE target == run.target \cup files
               calls == IF outcome = "done" THEN run.calls \ {w} ELSE {}
               picked == IF outcome = "done" THEN run.picked ELSE {}
               at == IF outcome = "done" THEN run.at ELSE "native"
    <3>2. run \in Run BY <2>3
    <3>3. calls \subseteq Version /\ picked \subseteq Version /\ at \in Stages
      BY <3>1, <3>2 DEF Run, Stages
    <3>4. run' = [run EXCEPT !.target = target, !.calls = calls, !.picked = picked, !.at = at]
      BY <2>1
    <3> HIDE DEF target, calls, picked, at
    <3>5. target \subseteq File BY <3>1 DEF target
    <3> QED BY <3>2, <3>3, <3>4, <3>5 DEF Run
  <2>10. ChosenInv' /\ IdleInv'
    <3>1. /\ run'.ids = run.ids /\ run'.chosen = run.chosen /\ run'.info = run.info
          /\ run'.covered = run.covered /\ run'.byFile = run.byFile
          /\ run'.byEntry = run.byEntry /\ run'.native = run.native
          /\ run'.picked \in {run.picked, {}} /\ run'.at \in {run.at, "native"}
      BY <2>1, <2>3 DEF Run
    <3>2. ChosenInv /\ DataInv BY <2>3 DEF RunInv
    <3>3. run'.picked \subseteq Versions \ (run.byEntry \cup run'.native)
      BY <3>1, <3>2 DEF ChosenInv
    <3>4. run.at \notin {"idle", "routing"} BY <1>1
    <3> QED BY <2>7, <2>9, <3>1, <3>2, <3>3, <3>4, ChosenStays
  <2>11. FilesInv'
    BY <1>1, <2>1, <2>3, <2>7, FilesStay DEF RunInv, Run
  <2>12. NativeInv'
    <3>1. run'.loaded = run.loaded BY <2>1, <2>3 DEF Run
    <3>2. CASE outcome # "done"
      <4>1. run'.at = "native" /\ run'.picked = {} BY <2>1, <2>3, <3>2 DEF Run
      <4> QED BY <2>5, <2>7, <3>1, <4>1 DEF NativeInv
    <3>3. CASE outcome = "done"
      <4>1. run'.at = "version" /\ run'.picked = {v} /\ run'.calls = run.calls \ {w}
        BY <1>1, <2>1, <2>3, <2>4, <3>3 DEF Run
      <4>2. ItemShared(v)' = ItemShared(v)
            /\ Siblings({v}, run.loaded)' = Siblings({v}, run.loaded)
        BY <2>7, <3>1 DEF ItemShared, Siblings, OnItem, FileOf
      <4>3. FilesOf(Siblings({v}, run.loaded) \ run.calls)' \cap disk' = {}
        <5>1. ASSUME NEW x \in Siblings({v}, run.loaded) \ run'.calls
              PROVE  FileOf(x) \notin disk'
          <6>1. CASE x = w BY <2>2, <2>7, <3>3, <6>1
          <6>2. CASE x # w BY <2>4, <2>7, <4>1, <6>2 DEF FilesOf
          <6> QED BY <6>1, <6>2
        <5> QED BY <2>7, <4>2, <5>1 DEF FilesOf, FileOf
      <4>4. \E x \in run'.loaded :
              /\ run'.picked = {x} /\ ~ItemShared(x)'
              /\ run'.calls \subseteq Siblings({x}, run.loaded)'
              /\ FilesOf(Siblings({x}, run.loaded) \ run.calls)' \cap disk' = {}
        BY <2>4, <3>1, <4>1, <4>2, <4>3
      <4> QED BY <2>5, <2>7, <3>1, <4>1, <4>4 DEF NativeInv
    <3> QED BY <3>2, <3>3
  <2>13. EntriesInv'
    BY <1>1, <2>1, <2>3, <2>7, EntriesStay DEF RunInv, Run
  <2>14. WholeInv' BY <1>1, <2>1, <2>3 DEF Run, WholeInv
  <2>15. CountInv'
    <3>1. Pending' \subseteq Pending BY <1>1, <2>1, <2>3 DEF Run, Pending
    <3>2. run'.ids = run.ids /\ run'.count = run.count BY <2>1, <2>3 DEF Run
    <3> QED BY <2>3, <2>7, <3>1, <3>2, CountStays
  <2> QED BY <2>8, <2>10, <2>11, <2>12, <2>13, <2>14, <2>15 DEF Inv, RunInv
<1> QED BY <1>2, <1>3

LEMMA FinishVersionHolds ==
  ASSUME Inv, FinishVersion
  PROVE  Inv'
<1> DEFINE gone == Siblings(run.picked, run.loaded)
<1>1. /\ run.at = "version" /\ run.calls = {}
      /\ RetireRows(gone, run.picked)
      /\ run' = [run EXCEPT !.at = "native", !.count = @ + 1, !.picked = {}]
      /\ UNCHANGED <<given, protected, disk, playing, seen, asked>>
  BY DEF FinishVersion
<1>2. run \in Run /\ DataInv /\ RunInv /\ CountInv BY DEF Inv, RunInv, ChosenInv
<1>3. /\ entry' \in [Radarr -> {"monitored", "unmonitored", "deleted"}]
      /\ \A r \in Radarr : entry[r] = "deleted" => entry'[r] = "deleted"
  <2>1. PICK dropped : entry' = [r \in Radarr |-> IF r \in dropped THEN "deleted" ELSE entry[r]]
    BY DEF FinishVersion
  <2>2. entry \in [Radarr -> {"monitored", "unmonitored", "deleted"}]
    BY <1>2 DEF DataInv, Typed
  <2> QED BY <2>1, <2>2
<1>4. PICK v \in run.loaded :
        /\ run.picked = {v} /\ ~ItemShared(v)
        /\ FilesOf(Siblings({v}, run.loaded) \ run.calls) \cap disk = {}
  BY <1>1, <1>2 DEF RunInv, NativeInv
<1>5. v \in Versions /\ v \in run.ids /\ v \notin run.byEntry /\ v \notin run.native
  BY <1>2, <1>4 DEF RunInv, ChosenInv, Versions
<1>6. rows \subseteq run.loaded BY <1>1, <1>2 DEF RunInv, NativeInv
<1>7. gone \subseteq Version /\ FilesOf(gone) \subseteq Allowed
      /\ FilesOf(gone) \cap FilesOf(protected) = {}
  <2>1. {v} \subseteq Version /\ {v} \subseteq asked /\ run.loaded \subseteq Version
    BY <1>2, <1>5 DEF RunInv, ChosenInv, Versions, Run
  <2>2. FilesOf({v}) \cap FilesOf(protected) = {}
    BY <1>2, <1>5 DEF RunInv, ChosenInv, FilesOf
  <2> QED BY <1>2, <1>4, <2>1, <2>2, SelectionMayGo
<1>8. \A x \in gone, y \in rows : FileOf(x) = FileOf(y) => y \in gone
  BY <1>4, <1>6, SiblingsClosed
<1>9. FilesOf(gone \cap rows) \cap disk = {}
  BY <1>1, <1>4 DEF FilesOf
<1> HIDE DEF gone
<1>10. DataInv' BY <1>1, <1>2, <1>3, <1>7, <1>8, <1>9, RowsRetire
<1>11. rows' \subseteq rows /\ cands' \subseteq cands /\ v \notin cands'
  BY <1>1, <1>4 DEF RetireRows
<1>12. run' \in Run
  <2>1. run.count + 1 \in Nat BY <1>2 DEF Run
  <2> QED BY <1>1, <1>2, <2>1 DEF Run, Stages
<1>13. ChosenInv' /\ IdleInv'
  BY <1>1, <1>2, <1>11, <1>12, ChosenStays DEF RunInv, Run
<1>14. FilesInv' BY <1>1, <1>2, FilesStay DEF RunInv, Run
<1>15. NativeInv'
  <2>1. run'.at = "native" /\ run'.picked = {} /\ run'.loaded = run.loaded
    BY <1>1, <1>2 DEF Run
  <2> QED BY <1>6, <1>11, <2>1 DEF NativeInv
<1>16. EntriesInv'
  <2>1. run.done \subseteq Radarr BY <1>2 DEF Run
  <2> QED BY <1>1, <1>2, <1>3, <2>1, EntriesStay DEF RunInv, Run
<1>17. WholeInv' BY <1>1, <1>2 DEF Run, WholeInv
<1>18. CountInv'
  <2>1. Pending' \subseteq Pending BY <1>1, <1>2 DEF Run, Pending
  <2>2. run'.ids = run.ids /\ run'.count = run.count + 1 BY <1>1, <1>2 DEF Run
  <2>3. v \in Pending BY <1>4 DEF Pending
  <2>4. v \notin Pending'
    BY <1>1, <1>2, <1>5 DEF Pending, Run
  <2> QED BY <1>2, <1>5, <1>11, <2>1, <2>2, <2>3, <2>4, CountGrows DEF RunInv
<1> QED BY <1>10, <1>13, <1>14, <1>15, <1>16, <1>17, <1>18 DEF Inv, RunInv

LEMMA FinishNativeHolds ==
  ASSUME Inv, FinishNative
  PROVE  Inv'
<1>1. /\ run.at = "native" /\ run'.at \in {"fallback", "entries"}
      /\ run' = [run EXCEPT !.at = IF run.entries = {} THEN "fallback" ELSE "entries"]
      /\ UNCHANGED <<given, rows, removed, cands, protected, disk, entry, error, deferred,
                     playing, seen, asked>>
  BY DEF FinishNative, db, world, marks, Inv, RunInv, ChosenInv, Run
<1>2. run \in Run /\ DataInv /\ RunInv /\ CountInv BY DEF Inv, RunInv, ChosenInv
<1>3. DataInv' BY <1>1, <1>2, CallKeepsData DEF DataInv, Typed
<1>4. run' \in Run BY <1>1, <1>2 DEF Run, Stages
<1>5. ChosenInv' /\ IdleInv'
  BY <1>1, <1>2, <1>4, ChosenStays DEF RunInv, ChosenInv, NativeInv, Run
<1>6. FilesInv' BY <1>1, <1>2, FilesStay DEF RunInv, Run
<1>7. NativeInv' BY <1>1, <1>2 DEF RunInv, NativeInv, Run
<1>8. EntriesInv' BY <1>1, <1>2, EntriesStay DEF RunInv, Run
<1>9. WholeInv' BY <1>1 DEF WholeInv
<1>10. CountInv'
  <2>1. Pending' \subseteq Pending BY <1>1, <1>2 DEF Run, Pending
  <2>2. run'.ids = run.ids /\ run'.count = run.count BY <1>1, <1>2 DEF Run
  <2> QED BY <1>1, <1>2, <2>1, <2>2, CountStays
<1> QED BY <1>3, <1>5, <1>6, <1>7, <1>8, <1>9, <1>10 DEF Inv, RunInv

(***************************************************************************)
(* From the entries on, no version is in hand, and the count is only ever  *)
(* about the candidates of the entries.                                    *)
(***************************************************************************)
Late == {"entries", "cleanup", "fallback", "movie", "done"}

LEMMA LateStages ==
  ASSUME DataInv, RunInv, UNCHANGED <<given, protected, asked>>, rows' \subseteq rows,
         run.at \in Late, run'.at \in Late,
         run' \in Run, run'.ids = run.ids, run'.chosen = run.chosen, run'.info = run.info,
         run'.covered = run.covered, run'.byFile = run.byFile, run'.byEntry = run.byEntry,
         run'.native = run.native, run'.picked = run.picked, run'.files = run.files
  PROVE  ChosenInv' /\ IdleInv' /\ FilesInv' /\ NativeInv'
<1>1. run.picked = {} BY DEF RunInv, NativeInv, Late
<1>2. ChosenInv' /\ IdleInv' BY <1>1, ChosenStays DEF RunInv, Late
<1>3. FilesInv' BY FilesStay DEF RunInv, Late
<1>4. NativeInv' BY <1>1 DEF NativeInv, Late
<1> QED BY <1>2, <1>3, <1>4

LEMMA DeleteMoviesHolds ==
  ASSUME Inv, NEW r \in Radarr, DeleteMovies(r)
  PROVE  Inv'
<1>1. Look /\ run.at = "entries" /\ ~Unmonitors /\ r \in run.todo BY DEF DeleteMovies
<1>2. CASE Defer BY <1>1, <1>2, DeferHolds
<1>3. CASE ~Defer
  <2>1. PICK outcome \in Outcome :
          /\ Removes(outcome, InFolder(r))
          /\ entry' = IF outcome = "failed" THEN entry ELSE [entry EXCEPT ![r] = "deleted"]
          /\ run' = [run EXCEPT !.target = run.target \cup InFolder(r), !.todo = @ \ {r},
                       !.done = IF outcome = "done" THEN @ \cup {r} ELSE @]
          /\ error' = IF outcome = "done" THEN error ELSE Marked(run.byEntry)
          /\ UNCHANGED <<given, db, deferred, playing, asked, left>>
    BY <1>3 DEF DeleteMovies, RemovalScope
  <2>2. run \in Run /\ DataInv /\ RunInv /\ CountInv BY DEF Inv, RunInv, ChosenInv
  <2>3. /\ UNCHANGED <<given, rows, removed, cands, protected, deferred, playing, asked>>
        /\ disk' \subseteq disk /\ disk \ disk' \subseteq InFolder(r)
        /\ error' \subseteq cands
    BY <2>1, <2>2 DEF Removes, db, Marked, DataInv, Typed
  <2>4. /\ entry' \in [Radarr -> {"monitored", "unmonitored", "deleted"}]
        /\ \A s \in Radarr : entry[s] = "deleted" => entry'[s] = "deleted"
        /\ (outcome = "done" => entry'[r] = "deleted")
    <3>1. entry \in [Radarr -> {"monitored", "unmonitored", "deleted"}]
      BY <2>2 DEF DataInv, Typed
    <3> QED BY <2>1, <3>1 DEF Outcome
  <2>5. DataInv'
    <3>1. FilesOf(Version) \cap InFolder(r) \subseteq Allowed
      BY <1>1, <2>2 DEF RunInv, EntriesInv, FilesOf, InFolder
    <3>2. seen' \subseteq File BY <1>1, <2>2, LooksAtFiles
    <3> QED BY <2>2, <2>3, <2>4, <3>1, <3>2, CallKeepsData DEF DataInv, Typed
  <2>6. run' \in Run
    <3>1. InFolder(r) \subseteq File BY DEF InFolder
    <3> QED BY <2>1, <2>2, <3>1 DEF Run
  <2>7. run.at \in Late /\ run'.at \in Late BY <1>1, <2>1, <2>2 DEF Late, Run
  <2>8. ChosenInv' /\ IdleInv' /\ FilesInv' /\ NativeInv'
    BY <2>1, <2>2, <2>3, <2>6, <2>7, LateStages DEF Run
  <2>9. EntriesInv'
    <3>1. /\ Allowed' = Allowed /\ Unmonitors' = Unmonitors
          /\ \A v \in Version : FileOf(v)' = FileOf(v)
      BY <2>3 DEF Allowed, Unmonitors, FilesOf, FileOf
    <3>2. /\ run'.at = "entries" /\ run'.todo \subseteq run.todo
          /\ run'.done \subseteq run.done \cup {r} /\ (outcome # "done" => run'.done = run.done)
          /\ run'.byEntry = run.byEntry /\ run'.cleaned = run.cleaned
      BY <1>1, <2>1, <2>2 DEF Run
    <3>3. FilesOf(run.cleaned)' = FilesOf(run.cleaned) BY <2>3, <3>2 DEF FilesOf, FileOf
    <3>4. run.done \subseteq Radarr BY <2>2 DEF Run
    <3>5. \A s \in run'.done : entry'[s] = "deleted"
      BY <1>1, <2>2, <2>4, <3>2, <3>4 DEF RunInv, EntriesInv
    <3>6. run'.todo \cup run'.done # {} => run'.byEntry # {}
      BY <1>1, <2>2, <3>2 DEF RunInv, EntriesInv
    <3>7. FilesOf(run.cleaned)' \cap disk' = {}
      BY <2>2, <2>3, <3>3 DEF RunInv, EntriesInv
    <3>8. \A s \in run'.todo, v \in Version : given'.home[FileOf(v)'] = s => FileOf(v)' \in Allowed'
      BY <1>1, <2>2, <2>3, <3>1, <3>2 DEF RunInv, EntriesInv
    <3> QED BY <3>2, <3>5, <3>6, <3>7, <3>8 DEF EntriesInv
  <2>10. WholeInv' BY <1>1, <2>1, <2>2 DEF Run, WholeInv
  <2>11. CountInv'
    <3>1. Pending' \subseteq Pending BY <1>1, <2>1, <2>2 DEF Run, Pending
    <3>2. run'.ids = run.ids /\ run'.count = run.count BY <2>1, <2>2 DEF Run
    <3> QED BY <2>2, <2>3, <3>1, <3>2, CountStays
  <2> QED BY <2>5, <2>8, <2>9, <2>10, <2>11 DEF Inv, RunInv
<1> QED BY <1>2, <1>3

\* What a commit for the entries' candidates adds to the count.
LEMMA EntriesCounted ==
  ASSUME DataInv, RunInv, CountInv, run.at \in {"entries", "cleanup"}, run'.at = "fallback",
         run.done # {}, run'.done = run.done, run'.ids = run.ids, run'.count = run.count + 1,
         run'.native = run.native, run'.picked = run.picked,
         run'.byEntry = run.byEntry,
         cands' \subseteq cands \ run.byEntry
  PROVE  CountInv'
<1>1. PICK d \in run.byEntry : TRUE BY DEF RunInv, EntriesInv
<1>2. Pending = run.native \cup run.picked \cup run.byEntry
  BY DEF Pending
<1>3. Pending' = run.native \cup run.picked BY DEF Pending
<1>4. d \in run.ids /\ d \notin run.native /\ d \notin run.picked
  BY DEF RunInv, ChosenInv
<1> QED BY <1>1, <1>2, <1>3, <1>4, CountGrows DEF RunInv

LEMMA FinishDeleteHolds ==
  ASSUME Inv, FinishDelete
  PROVE  Inv'
<1>1. /\ run.at = "entries" /\ ~Unmonitors
      /\ UNCHANGED <<given, protected, disk, entry, playing, seen, asked>>
  BY DEF FinishDelete, world
<1>2. run \in Run /\ DataInv /\ RunInv /\ CountInv BY DEF Inv, RunInv, ChosenInv
<1>3. CASE /\ run.done # {}
           /\ run' = [run EXCEPT !.at = "fallback", !.count = @ + 1]
           /\ IF Whole \in run.chosen
              THEN /\ removed' = TRUE
                   /\ cands' = cands \ run.byEntry
                   /\ error' = error \cap cands' /\ deferred' = deferred \cap cands'
                   /\ rows' = rows
              ELSE RetireRows(Retired, run.byEntry)
  <2>1. \E r \in Radarr : entry[r] = "deleted"
    <3>1. PICK r \in run.done : r \in Radarr BY <1>2, <1>3 DEF Run
    <3> QED BY <1>1, <1>2, <3>1 DEF RunInv, EntriesInv
  <2>2. DataInv' /\ rows' \subseteq rows /\ cands' \subseteq cands \ run.byEntry
    <3>1. CASE Whole \in run.chosen
      <4>1. cands' = cands \ run.byEntry /\ rows' = rows /\ removed' = TRUE
            /\ error' \subseteq cands' /\ deferred' \subseteq cands'
        BY <1>3, <3>1
      <4> QED BY <1>1, <1>2, <2>1, <4>1, MovieIsRemoved
    <3>2. CASE Whole \notin run.chosen
      <4>1. RetireRows(Retired, run.byEntry) BY <1>3, <3>2
      <4>2. Versions \subseteq Version /\ Versions \subseteq asked /\ run.info \subseteq Version
            /\ FilesOf(Versions) \cap FilesOf(protected) = {} /\ Versions \subseteq run.info
            /\ rows \subseteq run.info
        BY <1>1, <1>2 DEF RunInv, ChosenInv, Versions, Run
      <4>3. Retired = Siblings(Versions, run.info) BY DEF Retired, Versions
      <4>4. /\ Retired \subseteq Version /\ FilesOf(Retired) \subseteq Allowed
            /\ FilesOf(Retired) \cap FilesOf(protected) = {}
        BY <1>2, <4>2, <4>3, SelectionMayGo
      <4>5. \A v \in Retired, w \in rows : FileOf(v) = FileOf(w) => w \in Retired
        BY <4>2, <4>3, SiblingsClosed
      <4>6. entry' = entry /\ entry' \in [Radarr -> {"monitored", "unmonitored", "deleted"}]
        BY <1>1, <1>2 DEF DataInv, Typed
      <4>7. DataInv'
        BY <1>1, <1>2, <2>1, <4>1, <4>4, <4>5, <4>6, RowsRetire
      <4> QED BY <4>1, <4>7 DEF RetireRows
    <3> QED BY <3>1, <3>2
  <2>3. run' \in Run
    <3>1. run.count + 1 \in Nat BY <1>2 DEF Run
    <3> QED BY <1>2, <1>3, <3>1 DEF Run, Stages
  <2>4. run.at \in Late /\ run'.at \in Late BY <1>1, <1>2, <1>3 DEF Late, Run
  <2>5. ChosenInv' /\ IdleInv' /\ FilesInv' /\ NativeInv'
    BY <1>1, <1>2, <1>3, <2>2, <2>3, <2>4, LateStages DEF Run
  <2>6. EntriesInv' BY <1>1, <1>2, <1>3, EntriesStay DEF RunInv, Run
  <2>7. WholeInv' BY <1>2, <1>3 DEF Run, WholeInv
  <2>8. CountInv' BY <1>1, <1>2, <1>3, <2>2, EntriesCounted DEF Run
  <2> QED BY <2>2, <2>5, <2>6, <2>7, <2>8 DEF Inv, RunInv
<1>4. CASE /\ run' = [run EXCEPT !.at = "fallback"]
           /\ UNCHANGED <<rows, removed, cands, error, deferred>>
  <2>1. DataInv' BY <1>1, <1>2, <1>4, CallKeepsData DEF DataInv, Typed
  <2>2. run' \in Run BY <1>2, <1>4 DEF Run, Stages
  <2>3. run.at \in Late /\ run'.at \in Late BY <1>1, <1>2, <1>4 DEF Late, Run
  <2>4. ChosenInv' /\ IdleInv' /\ FilesInv' /\ NativeInv'
    BY <1>1, <1>2, <1>4, <2>2, <2>3, LateStages DEF Run
  <2>5. EntriesInv' BY <1>1, <1>2, <1>4, EntriesStay DEF RunInv, Run
  <2>6. WholeInv' BY <1>2, <1>4 DEF Run, WholeInv
  <2>7. CountInv'
    <3>1. Pending' \subseteq Pending BY <1>1, <1>2, <1>4 DEF Run, Pending
    <3>2. run'.ids = run.ids /\ run'.count = run.count BY <1>2, <1>4 DEF Run
    <3> QED BY <1>2, <1>4, <3>1, <3>2, CountStays
  <2> QED BY <2>1, <2>4, <2>5, <2>6, <2>7 DEF Inv, RunInv
<1> QED BY <1>3, <1>4 DEF FinishDelete, marks

(***************************************************************************)
(* The unmonitor route.                                                    *)
(***************************************************************************)
LEMMA UnmonitorMoviesHolds ==
  ASSUME Inv, NEW r \in Radarr, UnmonitorMovies(r)
  PROVE  Inv'
<1>1. run.at = "entries" /\ Unmonitors /\ r \in run.todo BY DEF UnmonitorMovies
<1>2. run \in Run /\ DataInv /\ RunInv /\ CountInv BY DEF Inv, RunInv, ChosenInv
<1>3. PICK worked \in BOOLEAN :
        /\ entry' = IF worked /\ entry[r] # "deleted"
                    THEN [entry EXCEPT ![r] = "unmonitored"] ELSE entry
        /\ run' = [run EXCEPT !.todo = @ \ {r}, !.done = IF worked THEN @ \cup {r} ELSE @]
        /\ error' = IF worked THEN error ELSE Marked(run.byEntry)
  BY DEF UnmonitorMovies
<1>4. /\ UNCHANGED <<given, rows, removed, cands, protected, disk, deferred, playing,
                     seen, asked>>
      /\ error' \subseteq cands
  BY <1>2, <1>3 DEF UnmonitorMovies, db, Marked, DataInv, Typed
<1>5. /\ entry' \in [Radarr -> {"monitored", "unmonitored", "deleted"}]
      /\ \A s \in Radarr : entry[s] = "deleted" => entry'[s] = "deleted"
  <2>1. entry \in [Radarr -> {"monitored", "unmonitored", "deleted"}]
    BY <1>2 DEF DataInv, Typed
  <2> QED BY <1>3, <2>1
<1>6. DataInv' BY <1>2, <1>4, <1>5, CallKeepsData DEF DataInv, Typed
<1>7. run' \in Run BY <1>2, <1>3 DEF Run
<1>8. run.at \in Late /\ run'.at \in Late BY <1>1, <1>2, <1>3 DEF Late, Run
<1>9. ChosenInv' /\ IdleInv' /\ FilesInv' /\ NativeInv'
  BY <1>2, <1>3, <1>4, <1>7, <1>8, LateStages DEF Run
<1>10. EntriesInv'
  <2>1. Unmonitors' BY <1>1, <1>4 DEF Unmonitors
  <2>2. /\ run'.at = "entries" /\ run'.byEntry = run.byEntry /\ run'.cleaned = run.cleaned
    BY <1>1, <1>2, <1>3 DEF Run
  <2>3. run'.byEntry # {} BY <1>1, <1>2, <2>2 DEF RunInv, EntriesInv
  <2>4. FilesOf(run.cleaned)' \cap disk' = {}
    BY <1>2, <1>4, <2>2 DEF RunInv, EntriesInv, FilesOf, FileOf
  <2> QED BY <2>1, <2>2, <2>3, <2>4 DEF EntriesInv
<1>11. WholeInv' BY <1>1, <1>2, <1>3 DEF Run, WholeInv
<1>12. CountInv'
  <2>1. Pending' \subseteq Pending BY <1>1, <1>2, <1>3 DEF Run, Pending
  <2>2. run'.ids = run.ids /\ run'.count = run.count BY <1>2, <1>3 DEF Run
  <2> QED BY <1>2, <1>4, <2>1, <2>2, CountStays
<1> QED BY <1>6, <1>9, <1>10, <1>11, <1>12 DEF Inv, RunInv

LEMMA UnmonitoredHolds ==
  ASSUME Inv, Unmonitored
  PROVE  Inv'
<1>1. /\ run.at = "entries" /\ Unmonitors
      /\ UNCHANGED <<given, rows, removed, protected, disk, entry, playing, seen, asked>>
  BY DEF Unmonitored, world
<1>2. run \in Run /\ DataInv /\ RunInv /\ CountInv BY DEF Inv, RunInv, ChosenInv
<1>3. CASE /\ run.done # {}
           /\ cands' = cands \ run.byEntry
           /\ error' = error \cap cands' /\ deferred' = deferred \cap cands'
           /\ run' = [run EXCEPT !.at = "fallback", !.count = @ + 1]
  <2>1. DataInv' BY <1>1, <1>2, <1>3, CallKeepsData DEF DataInv, Typed
  <2>2. run' \in Run
    <3>1. run.count + 1 \in Nat BY <1>2 DEF Run
    <3> QED BY <1>2, <1>3, <3>1 DEF Run, Stages
  <2>3. run.at \in Late /\ run'.at \in Late BY <1>1, <1>2, <1>3 DEF Late, Run
  <2>4. ChosenInv' /\ IdleInv' /\ FilesInv' /\ NativeInv'
    BY <1>1, <1>2, <1>3, <2>2, <2>3, LateStages DEF Run
  <2>5. EntriesInv' BY <1>1, <1>2, <1>3, EntriesStay DEF RunInv, Run
  <2>6. WholeInv' BY <1>2, <1>3 DEF Run, WholeInv
  <2>7. CountInv' BY <1>1, <1>2, <1>3, EntriesCounted DEF Run
  <2> QED BY <2>1, <2>4, <2>5, <2>6, <2>7 DEF Inv, RunInv
<1>4. CASE /\ run' = [run EXCEPT !.at = IF run.done = {} THEN "fallback" ELSE "cleanup",
                                 !.calls = Targets]
           /\ UNCHANGED <<cands, error, deferred>>
  <2>1. DataInv' BY <1>1, <1>2, <1>4, CallKeepsData DEF DataInv, Typed
  <2>2. Targets \subseteq Version BY <1>2 DEF Targets, DataInv, Typed
  <2>3. run' \in Run BY <1>2, <1>4, <2>2 DEF Run, Stages
  <2>4. run.at \in Late /\ run'.at \in Late BY <1>1, <1>2, <1>4 DEF Late, Run
  <2>5. ChosenInv' /\ IdleInv' /\ FilesInv' /\ NativeInv'
    BY <1>1, <1>2, <1>4, <2>3, <2>4, LateStages DEF Run
  <2>6. EntriesInv'
    <3>1. /\ run'.done = run.done /\ run'.todo = run.todo /\ run'.byEntry = run.byEntry
          /\ run'.cleaned = run.cleaned /\ run'.calls = Targets /\ run'.chosen = run.chosen
          /\ (run'.at = "cleanup" => run.done # {})
      BY <1>2, <1>4 DEF Run
    <3>2. Unmonitors' /\ Targets' = Targets BY <1>1, <3>1 DEF Unmonitors, Targets
    <3>3. FilesOf(run.cleaned)' \cap disk' = {}
      BY <1>1, <1>2, <3>1 DEF RunInv, EntriesInv, FilesOf, FileOf
    <3> QED BY <1>2, <3>1, <3>2, <3>3 DEF RunInv, EntriesInv
  <2>7. WholeInv' BY <1>2, <1>4 DEF Run, WholeInv
  <2>8. CountInv'
    <3>1. Pending' \subseteq Pending BY <1>1, <1>2, <1>4 DEF Run, Pending
    <3>2. run'.ids = run.ids /\ run'.count = run.count BY <1>2, <1>4 DEF Run
    <3> QED BY <1>2, <1>4, <3>1, <3>2, CountStays
  <2> QED BY <2>1, <2>5, <2>6, <2>7, <2>8 DEF Inv, RunInv
<1> QED BY <1>3, <1>4 DEF Unmonitored, marks

(***************************************************************************)
(* A step of the cleanup: files go that may, and what it has cleaned has   *)
(* no file left.                                                           *)
(***************************************************************************)
LEMMA CleanupStep ==
  ASSUME Inv, run.at = "cleanup", run'.at \in {"cleanup", "fallback"},
         UNCHANGED <<given, rows, removed, cands, protected, deferred, entry, playing, asked>>,
         seen' \subseteq File, error' \subseteq cands,
         disk' \subseteq disk,
         FilesOf(Version) \cap (disk \ disk') \subseteq Allowed,
         run' \in Run, run'.ids = run.ids, run'.chosen = run.chosen, run'.info = run.info,
         run'.covered = run.covered, run'.byFile = run.byFile, run'.byEntry = run.byEntry,
         run'.native = run.native, run'.picked = run.picked, run'.files = run.files,
         run'.todo = run.todo, run'.done = run.done, run'.count = run.count,
         run'.calls \subseteq run.calls,
         FilesOf(run'.cleaned) \cap disk' = {}
  PROVE  Inv'
<1>1. run \in Run /\ DataInv /\ RunInv /\ CountInv BY DEF Inv, RunInv, ChosenInv
<1>2. DataInv' BY <1>1, CallKeepsData DEF DataInv, Typed
<1>3. run'.at \in Late /\ run.at \in Late BY DEF Late
<1>4. ChosenInv' /\ IdleInv' /\ FilesInv' /\ NativeInv'
  BY <1>1, <1>3, LateStages
<1>5. EntriesInv'
  <2>1. Unmonitors' /\ Targets' = Targets
    BY <1>1 DEF RunInv, EntriesInv, Unmonitors, Targets
  <2>2. FilesOf(run.cleaned)' \cap disk' = {} BY DEF FilesOf, FileOf
  <2> QED BY <1>1, <2>1, <2>2 DEF RunInv, EntriesInv
<1>6. WholeInv' BY DEF WholeInv
<1>7. CountInv'
  <2>1. run.done # {} BY <1>1 DEF RunInv, EntriesInv
  <2>2. Pending' \subseteq Pending BY <2>1 DEF Pending
  <2> QED BY <1>1, <2>2, CountStays
<1> QED BY <1>2, <1>4, <1>5, <1>6, <1>7 DEF Inv, RunInv

\* The versions to clean up were asked for; none of them is protected.
LEMMA TargetsMayGo ==
  ASSUME Inv, Whole \notin run.chosen
  PROVE  /\ Targets \subseteq asked
         /\ FilesOf(Targets) \cap FilesOf(protected) = {}
         /\ Targets \subseteq run.chosen
<1>1. Targets \subseteq Versions BY DEF Targets, Versions, Inv, DataInv, Typed
<1>2. FilesOf(Versions) \cap FilesOf(protected) = {} BY DEF Inv, RunInv, ChosenInv
<1>3. Versions \subseteq asked /\ Versions \subseteq run.chosen
  BY DEF Inv, RunInv, ChosenInv, Versions
<1> QED BY <1>1, <1>2, <1>3 DEF FilesOf

LEMMA WholeMayGo ==
  ASSUME Inv, Whole \in run.chosen
  PROVE  Allowed = File
BY DEF Inv, RunInv, ChosenInv, Allowed

LEMMA CleanUpHolds ==
  ASSUME Inv, NEW v \in Version, CleanUp(v)
  PROVE  Inv'
<1>1. run.at = "cleanup" /\ v \in run.calls BY DEF CleanUp
<1>2. run \in Run /\ DataInv /\ RunInv /\ CountInv BY DEF Inv, RunInv, ChosenInv
<1>3. run.target \subseteq File /\ run.cleaned \subseteq Version
      /\ FilesOf(run.cleaned) \cap disk = {} /\ v \in Targets
  BY <1>1, <1>2 DEF Run, RunInv, EntriesInv
<1>4. CASE given.local /\ FileOf(v) \in disk
  <2> DEFINE files == SameStem(FileOf(v))
  <2>1. Look BY <1>4 DEF CleanUp
  <2>2. CASE Defer BY <2>1, <2>2, DeferHolds
  <2>3. CASE ~Defer
    <3>1. PICK worked \in BOOLEAN :
            /\ Removes(IF worked THEN "done" ELSE "failed", files)
            /\ run' = [run EXCEPT !.target = run.target \cup files, !.calls = @ \ {v},
                         !.cleaned = IF worked THEN @ \cup {v} ELSE @]
            /\ UNCHANGED <<given, db, marks, entry, playing, asked, left>>
      BY <1>4, <2>3 DEF CleanUp
    <3>2. files \subseteq File /\ FileOf(v) \in files
      BY DEF SameStem, FileOf, Inv, DataInv, GivenInv
    <3>3. FilesOf(Version) \cap files \subseteq Allowed
      <4>1. CASE Whole \in run.chosen BY <3>2, <4>1, WholeMayGo
      <4>2. CASE Whole \notin run.chosen
        <5>1. v \in asked /\ FileOf(v) \notin FilesOf(protected)
          BY <1>3, <4>2, TargetsMayGo DEF FilesOf
        <5>2. \A f \in files : f \in File /\ given.stem[FileOf(v)] = given.stem[f]
          BY DEF SameStem
        <5> QED BY <5>1, <5>2 DEF Allowed
      <4> QED BY <4>1, <4>2
    <3> HIDE DEF files
    <3>4. disk' \subseteq disk /\ disk \ disk' \subseteq files
          /\ (worked => disk' = disk \ files)
      BY <3>1 DEF Removes
    <3>5. seen' \subseteq File BY <1>2, <2>1, LooksAtFiles
    <3> DEFINE cleaned == IF worked THEN run.cleaned \cup {v} ELSE run.cleaned
    <3>6. cleaned \subseteq Version /\ FilesOf(cleaned) \cap disk' = {}
      BY <1>3, <3>2, <3>4 DEF FilesOf
    <3>7. UNCHANGED <<given, rows, removed, cands, protected, error, deferred, entry,
                      playing, asked>>
      BY <3>1 DEF db, marks
    <3>8. error' \subseteq cands BY <1>2, <3>7 DEF DataInv, Typed
    <3>9. run' = [run EXCEPT !.target = run.target \cup files, !.calls = run.calls \ {v},
                             !.cleaned = cleaned]
      BY <3>1
    <3>10. run.target \cup files \subseteq File /\ run.calls \subseteq Version
      BY <1>2, <1>3, <3>2 DEF Run
    <3>11. FilesOf(Version) \cap (disk \ disk') \subseteq Allowed BY <3>3, <3>4
    <3> HIDE DEF cleaned
    <3>12. run' \in Run BY <1>2, <3>6, <3>9, <3>10 DEF Run
    <3>13. run'.cleaned = cleaned /\ run'.at = run.at BY <1>2, <3>9 DEF Run
    <3> QED BY <1>1, <1>2, <3>4, <3>5, <3>6, <3>7, <3>8, <3>9, <3>11, <3>12, <3>13,
               CleanupStep DEF Run
  <2> QED BY <2>2, <2>3
<1>5. CASE ~(given.local /\ FileOf(v) \in disk)
  <2>1. /\ run' = [run EXCEPT !.calls = @ \ {v}]
        /\ UNCHANGED <<given, rows, removed, cands, protected, error, deferred, disk, entry,
                       playing, seen, asked>>
    BY <1>5 DEF CleanUp, db, marks, world
  <2>2. run' \in Run BY <1>2, <2>1 DEF Run
  <2>3. error' \subseteq cands /\ seen' \subseteq File BY <1>2, <2>1 DEF DataInv, Typed
  <2> QED BY <1>1, <1>2, <1>3, <2>1, <2>2, <2>3, CleanupStep DEF Run
<1> QED BY <1>4, <1>5

\* What the media server deletes with an item no kept version shares may go.
LEMMA ItemMayGo ==
  ASSUME Inv, NEW i, ~SharesItem(i)
  PROVE  FilesOf(OnItem(i)) \subseteq Allowed
<1>1. FilesOf(OnItem(i)) \subseteq File
  BY DEF FilesOf, FileOf, OnItem, Inv, DataInv, GivenInv
<1>2. CASE Whole \in run.chosen BY <1>1, <1>2, WholeMayGo
<1>3. CASE Whole \notin run.chosen
  <2>1. OnItem(i) \cap rows \subseteq run.chosen BY <1>3 DEF SharesItem
  <2>2. /\ Versions \subseteq Version /\ Versions \subseteq asked
        /\ FilesOf(Versions) \cap FilesOf(protected) = {}
    BY DEF Inv, RunInv, ChosenInv, Versions
  <2>3. ASSUME NEW x \in OnItem(i) PROVE FileOf(x) \in Allowed
    <3>1. x \in Version BY DEF OnItem
    <3>2. CASE x \in rows
      <4>1. x \in Versions BY <2>1, <3>1, <3>2 DEF Versions
      <4>2. FileOf(x) \in File BY <1>1 DEF FilesOf
      <4> QED BY <2>2, <4>1, <4>2 DEF Allowed, FilesOf
    <3>3. CASE x \notin rows
      BY <3>1, <3>3 DEF Inv, DataInv, GoneInv, FilesOf
    <3> QED BY <3>2, <3>3
  <2> QED BY <2>3 DEF FilesOf
<1> QED BY <1>2, <1>3

LEMMA ReconcileItemHolds ==
  ASSUME Inv, NEW i \in Item, ReconcileItem(i)
  PROVE  Inv'
<1> DEFINE files == FilesOf(OnItem(i))
<1>1. Look /\ run.at = "cleanup" /\ ~SharesItem(i) BY DEF ReconcileItem
<1>2. CASE Defer BY <1>1, <1>2, DeferHolds
<1>3. CASE ~Defer
  <2>1. PICK outcome \in Outcome :
          /\ Removes(outcome, files)
          /\ run' = IF outcome = "done"
                    THEN [run EXCEPT !.target = run.target \cup files,
                                     !.cleaned = @ \cup (OnItem(i) \cap Targets)]
                    ELSE [run EXCEPT !.at = "fallback"]
          /\ error' = IF outcome = "done" THEN error ELSE Marked(run.byEntry)
          /\ UNCHANGED <<given, db, deferred, entry, playing, asked, left>>
    BY <1>3 DEF ReconcileItem
  <2>2. run \in Run /\ DataInv /\ RunInv /\ CountInv BY DEF Inv, RunInv, ChosenInv
  <2>3. files \subseteq Allowed /\ files \subseteq File
    BY <1>1, ItemMayGo DEF Allowed
  <2>4. FilesOf(OnItem(i) \cap Targets) \subseteq files BY DEF FilesOf
  <2> HIDE DEF files
  <2>5. /\ UNCHANGED <<given, rows, removed, cands, protected, deferred, entry, playing, asked>>
        /\ disk' \subseteq disk /\ disk \ disk' \subseteq files
        /\ (outcome = "done" => disk' = disk \ files)
        /\ error' \subseteq cands
    BY <2>1, <2>2 DEF Removes, db, Marked, DataInv, Typed
  <2>6. seen' \subseteq File BY <1>1, <2>2, LooksAtFiles
  <2>7. FilesOf(run.cleaned) \cap disk = {} /\ Targets \subseteq Version
        /\ run.cleaned \subseteq Version /\ run.target \subseteq File
    BY <2>2 DEF RunInv, EntriesInv, Targets, DataInv, Typed, Run
  <2>8. FilesOf(Version) \cap (disk \ disk') \subseteq Allowed BY <2>3, <2>5
  <2>9. CASE outcome = "done"
    <3>1. run' = [run EXCEPT !.target = run.target \cup files,
                             !.cleaned = @ \cup (OnItem(i) \cap Targets)]
      BY <2>1, <2>9
    <3>2. run' \in Run BY <2>2, <2>3, <2>7, <3>1 DEF Run
    <3>3. FilesOf(run'.cleaned) \cap disk' = {}
      <4>1. run'.cleaned = run.cleaned \cup (OnItem(i) \cap Targets) BY <2>2, <3>1 DEF Run
      <4>2. FilesOf(run'.cleaned) \subseteq FilesOf(run.cleaned) \cup FilesOf(OnItem(i) \cap Targets)
        BY <4>1 DEF FilesOf
      <4> QED BY <2>4, <2>5, <2>7, <2>9, <4>2
    <3> QED BY <1>1, <2>2, <2>5, <2>6, <2>8, <3>1, <3>2, <3>3, CleanupStep DEF Run
  <2>10. CASE outcome # "done"
    <3>1. run' = [run EXCEPT !.at = "fallback"] BY <2>1, <2>10
    <3>2. run' \in Run BY <2>2, <3>1 DEF Run, Stages
    <3>3. FilesOf(run'.cleaned) \cap disk' = {}
      <4>1. run'.cleaned = run.cleaned BY <2>2, <3>1 DEF Run
      <4> QED BY <2>5, <2>7, <4>1
    <3> QED BY <1>1, <2>2, <2>5, <2>6, <2>8, <3>1, <3>2, <3>3, CleanupStep DEF Run
  <2> QED BY <2>9, <2>10
<1> QED BY <1>2, <1>3

LEMMA RemovalNotConfirmedHolds ==
  ASSUME Inv, RemovalNotConfirmed
  PROVE  Inv'
<1>1. run \in Run /\ DataInv /\ RunInv /\ CountInv BY DEF Inv, RunInv, ChosenInv
<1>2. /\ run.at = "cleanup" /\ run' = [run EXCEPT !.at = "fallback"]
      /\ UNCHANGED <<given, rows, removed, cands, protected, deferred, disk, entry, playing,
                     seen, asked>>
      /\ error' \subseteq cands
  BY <1>1 DEF RemovalNotConfirmed, db, world, Marked, DataInv, Typed
<1>3. run' \in Run BY <1>1, <1>2 DEF Run, Stages
<1>4. FilesOf(run.cleaned) \cap disk = {} /\ run'.cleaned = run.cleaned
  BY <1>1, <1>2 DEF RunInv, EntriesInv, Run
<1>5. seen \subseteq File BY <1>1 DEF DataInv, Typed
<1> QED BY <1>1, <1>2, <1>3, <1>4, <1>5, CleanupStep DEF Run

LEMMA FinishUnmonitorHolds ==
  ASSUME Inv, FinishUnmonitor
  PROVE  Inv'
<1>1. /\ run.at = "cleanup" /\ Unconfirmed = {}
      /\ run' = [run EXCEPT !.at = "fallback", !.count = @ + 1]
      /\ UNCHANGED <<given, protected, disk, entry, playing, seen, asked>>
  BY DEF FinishUnmonitor, world
<1>2. run \in Run /\ DataInv /\ RunInv /\ CountInv BY DEF Inv, RunInv, ChosenInv
<1>3. Unmonitors /\ run.done # {} BY <1>1, <1>2 DEF RunInv, EntriesInv
<1>4. FilesOf(Targets) \cap disk = {}
  <2>1. Targets \subseteq Version BY <1>2 DEF Targets, DataInv, Typed
  <2>2. ASSUME NEW v \in Targets PROVE v \in run.cleaned
    <3>1. given.item[v] \in Item /\ v \in OnItem(given.item[v])
      BY <1>2, <2>1 DEF DataInv, GivenInv, OnItem
    <3> QED BY <1>1, <3>1 DEF Unconfirmed
  <2>3. FilesOf(run.cleaned) \cap disk = {} BY <1>2 DEF RunInv, EntriesInv
  <2> QED BY <2>2, <2>3 DEF FilesOf
<1>5. DataInv' /\ rows' \subseteq rows /\ cands' \subseteq cands \ run.byEntry
  <2>1. CASE Whole \in run.chosen
    <3>1. cands' = cands \ run.byEntry /\ rows' = rows /\ removed' = TRUE
          /\ error' \subseteq cands' /\ deferred' \subseteq cands'
      BY <2>1 DEF FinishUnmonitor
    <3>2. FilesOf(rows) \cap disk = {} BY <1>4, <2>1 DEF Targets
    <3> QED BY <1>1, <1>2, <3>1, <3>2, MovieIsRemoved
  <2>2. CASE Whole \notin run.chosen
    <3>1. RetireRows(Versions, run.byEntry) BY <2>2 DEF FinishUnmonitor, Versions
    <3>2. Versions \subseteq Version /\ Versions \subseteq asked
          /\ FilesOf(Versions) \cap FilesOf(protected) = {}
      BY <1>2 DEF RunInv, ChosenInv, Versions
    <3>3. FilesOf(Versions) \subseteq Allowed
      BY <1>2, <3>2 DEF Allowed, FilesOf, FileOf, DataInv, GivenInv
    <3>4. FilesOf(Versions \cap rows) \cap disk = {}
      BY <1>4, <2>2 DEF Targets, Versions, FilesOf
    <3>5. entry' = entry /\ entry' \in [Radarr -> {"monitored", "unmonitored", "deleted"}]
      BY <1>1, <1>2 DEF DataInv, Typed
    <3>6. DataInv' BY <1>1, <1>2, <1>3, <3>1, <3>2, <3>3, <3>4, <3>5, RowsRetire
    <3> QED BY <3>1, <3>6 DEF RetireRows
  <2> QED BY <2>1, <2>2
<1>6. run' \in Run
  <2>1. run.count + 1 \in Nat BY <1>2 DEF Run
  <2> QED BY <1>1, <1>2, <2>1 DEF Run, Stages
<1>7. run.at \in Late /\ run'.at \in Late BY <1>1, <1>2 DEF Late, Run
<1>8. ChosenInv' /\ IdleInv' /\ FilesInv' /\ NativeInv'
  BY <1>1, <1>2, <1>5, <1>6, <1>7, LateStages DEF Run
<1>9. EntriesInv' BY <1>1, <1>2, EntriesStay DEF RunInv, Run
<1>10. WholeInv' BY <1>1, <1>2 DEF Run, WholeInv
<1>11. CountInv' BY <1>1, <1>2, <1>3, <1>5, EntriesCounted DEF Run
<1> QED BY <1>5, <1>8, <1>9, <1>10, <1>11 DEF Inv, RunInv

(***************************************************************************)
(* The whole movie.                                                        *)
(***************************************************************************)
LEMMA FallbackHolds ==
  ASSUME Inv, Fallback
  PROVE  Inv'
<1>1. run \in Run /\ DataInv /\ RunInv /\ CountInv BY DEF Inv, RunInv, ChosenInv
<1>2. /\ run.at = "fallback"
      /\ UNCHANGED <<given, rows, removed, cands, protected, deferred, disk, entry, playing,
                     seen, asked>>
      /\ error' \subseteq cands
  BY <1>1 DEF Fallback, db, world, Marked, DataInv, Typed
<1>3. PICK at \in {"movie", "done"} :
        /\ run' = [run EXCEPT !.at = at, !.calls = rows]
        /\ (at = "movie" => Whole \in run.chosen /\ run.done = {})
  <2>1. \/ run' = [run EXCEPT !.at = "movie", !.calls = rows]
           /\ Whole \in run.chosen /\ run.done = {}
        \/ run' = [run EXCEPT !.at = "done", !.calls = rows]
    BY DEF Fallback
  <2> QED BY <2>1
<1>4. DataInv' BY <1>1, <1>2, CallKeepsData DEF DataInv, Typed
<1>5. run' \in Run
  <2>1. rows \subseteq Version BY <1>1 DEF DataInv, Typed
  <2> QED BY <1>1, <1>3, <2>1 DEF Run, Stages
<1>6. run.at \in Late /\ run'.at \in Late BY <1>1, <1>2, <1>3 DEF Late, Run
<1>7. ChosenInv' /\ IdleInv' /\ FilesInv' /\ NativeInv'
  BY <1>1, <1>2, <1>3, <1>5, <1>6, LateStages DEF Run
<1>8. EntriesInv' BY <1>1, <1>2, <1>3, EntriesStay DEF RunInv, Run
<1>9. WholeInv'
  <2>1. run'.calls = rows /\ run'.at = at /\ run'.chosen = run.chosen /\ run'.done = run.done
    BY <1>1, <1>3 DEF Run
  <2>2. FilesOf(rows \ run.calls)' = {} BY <1>2, <2>1 DEF FilesOf
  <2> QED BY <1>3, <2>1, <2>2 DEF WholeInv
<1>10. CountInv'
  <2>1. Pending' \subseteq Pending BY <1>1, <1>2, <1>3 DEF Run, Pending
  <2>2. run'.ids = run.ids /\ run'.count = run.count BY <1>1, <1>3 DEF Run
  <2> QED BY <1>1, <1>2, <2>1, <2>2, CountStays
<1> QED BY <1>4, <1>7, <1>8, <1>9, <1>10 DEF Inv, RunInv

LEMMA DeleteItemHolds ==
  ASSUME Inv, NEW i \in Item, DeleteItem(i)
  PROVE  Inv'
<1> DEFINE files == FilesOf(OnItem(i))
<1>1. Look /\ run.at = "movie" BY DEF DeleteItem
<1>2. CASE Defer BY <1>1, <1>2, DeferHolds
<1>3. CASE ~Defer
  <2>1. PICK outcome \in Outcome :
          /\ Removes(outcome, files)
          /\ run' = [run EXCEPT !.target = run.target \cup files, !.calls = @ \ OnItem(i),
                       !.at = IF outcome = "done" THEN @ ELSE "done"]
          /\ error' = IF outcome = "done" THEN error ELSE Marked({Whole})
          /\ UNCHANGED <<given, db, deferred, entry, playing, asked, left>>
    BY <1>3 DEF DeleteItem
  <2>2. run \in Run /\ DataInv /\ RunInv /\ CountInv BY DEF Inv, RunInv, ChosenInv
  <2>3. files \subseteq File
    BY DEF FilesOf, FileOf, OnItem, Inv, DataInv, GivenInv
  <2>4. Whole \in run.chosen /\ run.done = {} /\ FilesOf(rows \ run.calls) \cap disk = {}
    BY <1>1, <2>2 DEF RunInv, WholeInv
  <2>5. /\ UNCHANGED <<given, rows, removed, cands, protected, deferred, entry, playing, asked>>
        /\ disk' \subseteq disk /\ disk \ disk' \subseteq files
        /\ (outcome = "done" => disk' = disk \ files)
        /\ error' \subseteq cands
    <3> HIDE DEF files
    <3> QED BY <2>1, <2>2 DEF Removes, db, Marked, DataInv, Typed
  <2>6. DataInv'
    <3>1. seen' \subseteq File BY <1>1, <2>2, LooksAtFiles
    <3>2. FilesOf(Version) \cap (disk \ disk') \subseteq Allowed
      BY <2>3, <2>4, <2>5, WholeMayGo
    <3> HIDE DEF files
    <3> QED BY <2>2, <2>5, <3>1, <3>2, CallKeepsData DEF DataInv, Typed
  <2>7. run' \in Run
    <3>1. OnItem(i) \subseteq Version BY DEF OnItem
    <3> HIDE DEF files
    <3> QED BY <1>1, <2>1, <2>2, <2>3, <3>1 DEF Run, Stages
  <2>8. run.at \in Late /\ run'.at \in Late BY <1>1, <2>1, <2>2 DEF Late, Run
  <2>9. ChosenInv' /\ IdleInv' /\ FilesInv' /\ NativeInv'
    BY <2>1, <2>2, <2>5, <2>7, <2>8, LateStages DEF Run
  <2>10. EntriesInv' BY <1>1, <2>1, <2>2, <2>5, EntriesStay DEF RunInv, Run
  <2>11. WholeInv'
    <3>1. run'.calls = run.calls \ OnItem(i) /\ run'.chosen = run.chosen /\ run'.done = run.done
          /\ (outcome # "done" => run'.at = "done")
      BY <2>1, <2>2 DEF Run
    <3>2. outcome = "done" => FilesOf(rows \ run.calls)' \cap disk' = {}
      BY <2>4, <2>5, <3>1 DEF FilesOf, FileOf
    <3> QED BY <2>4, <3>1, <3>2 DEF WholeInv
  <2>12. CountInv'
    <3>1. Pending' \subseteq Pending BY <1>1, <2>1, <2>2 DEF Run, Pending
    <3>2. run'.ids = run.ids /\ run'.count = run.count BY <2>1, <2>2 DEF Run
    <3> QED BY <2>2, <2>5, <3>1, <3>2, CountStays
  <2> QED BY <2>6, <2>9, <2>10, <2>11, <2>12 DEF Inv, RunInv
<1> QED BY <1>2, <1>3

LEMMA FinishMovieHolds ==
  ASSUME Inv, FinishMovie
  PROVE  Inv'
<1>1. /\ run.at = "movie" /\ run.calls = {} /\ removed' = TRUE
      /\ cands' = cands \ {Whole} /\ error' \subseteq cands' /\ deferred' \subseteq cands'
      /\ run' = [run EXCEPT !.at = "done", !.count = @ + 1]
      /\ UNCHANGED <<given, rows, protected, disk, entry, playing, seen, asked>>
  BY DEF FinishMovie, world
<1>2. run \in Run /\ DataInv /\ RunInv /\ CountInv BY DEF Inv, RunInv, ChosenInv
<1>3. Whole \in run.chosen /\ run.done = {} /\ FilesOf(rows) \cap disk = {}
  <2>1. rows \ run.calls = rows BY <1>1
  <2> QED BY <1>1, <1>2, <2>1 DEF RunInv, WholeInv
<1>4. DataInv' BY <1>1, <1>2, <1>3, MovieIsRemoved
<1>5. run' \in Run
  <2>1. run.count + 1 \in Nat BY <1>2 DEF Run
  <2> QED BY <1>1, <1>2, <2>1 DEF Run, Stages
<1>6. run.at \in Late /\ run'.at \in Late BY <1>1, <1>2 DEF Late, Run
<1>7. ChosenInv' /\ IdleInv' /\ FilesInv' /\ NativeInv'
  BY <1>1, <1>2, <1>5, <1>6, LateStages DEF Run
<1>8. EntriesInv' BY <1>1, <1>2, EntriesStay DEF RunInv, Run
<1>9. WholeInv' BY <1>1, <1>2 DEF Run, WholeInv
<1>10. CountInv'
  <2>1. Whole \in run.ids /\ Whole \in run.byEntry /\ Whole \notin run.native
        /\ Whole \notin run.picked
    BY <1>2, <1>3 DEF RunInv, ChosenInv
  <2>2. Pending = run.native \cup run.picked \cup run.byEntry
    BY <1>1, <1>3 DEF Pending
  <2>3. Pending' = run.native \cup run.picked BY <1>1, <1>2 DEF Pending, Run
  <2>4. run'.ids = run.ids /\ run'.count = run.count + 1 BY <1>1, <1>2 DEF Run
  <2>5. Whole \notin cands' /\ cands' \subseteq cands BY <1>1
  <2> QED BY <1>2, <2>1, <2>2, <2>3, <2>4, <2>5, CountGrows DEF RunInv
<1> QED BY <1>4, <1>7, <1>8, <1>9, <1>10 DEF Inv, RunInv

-----------------------------------------------------------------------------
(***************************************************************************)
(* The invariant.                                                          *)
(***************************************************************************)
LEMMA InitHolds ==
  ASSUME Init
  PROVE  Inv
<1>1. GivenInv
  <2>1. PICK l \in Layouts, a \in Action, fallback \in BOOLEAN :
          given = [f \in DOMAIN l \cup {"action", "fallback"} |->
                     IF f = "action" THEN a ELSE IF f = "fallback" THEN fallback ELSE l[f]]
    BY DEF Init
  <2>2. /\ l.file \in [Version -> File] /\ l.item \in [Version -> Item]
        /\ l.stem \in [File -> File] /\ l.refs \subseteq Radarr /\ l.server \in {"plex", "emby"}
        /\ {"file", "item", "stem", "refs", "server"} \subseteq DOMAIN l
    BY LayoutAssumption
  <2>3. /\ given.file = l.file /\ given.item = l.item /\ given.stem = l.stem
        /\ given.refs = l.refs /\ given.server = l.server /\ given.action = a
    BY <2>1, <2>2
  <2> QED BY <2>2, <2>3 DEF GivenInv
<1>2. Typed
  BY DEF Init, Typed
<1>3. ProtectedInv BY DEF Init, ProtectedInv
<1>4. GoneInv
  <2>1. FilesOf(Version) \subseteq File BY <1>1 DEF FilesOf, FileOf, GivenInv
  <2>2. Version \ rows = {} BY DEF Init
  <2> QED BY <2>1, <2>2 DEF Init, GoneInv, FilesOf
<1>5. RowsGoWithTheirFiles BY DEF Init, RowsGoWithTheirFiles, TwinsGoTogether
<1>6. run = Idle BY DEF Init
<1>7. ChosenInv
  <2>1. run \in Run /\ run.ids = {} /\ run.chosen = {} /\ run.covered = {} /\ run.byFile = {}
        /\ run.native = {} /\ run.picked = {} /\ run.byEntry = {} /\ run.at = "idle"
        /\ run.info = {}
    BY <1>6 DEF Idle, Run, Stages
  <2>2. Versions = {} BY <2>1 DEF Versions
  <2>3. FilesOf(Versions) = {} /\ Siblings(Versions, run.info) = {}
    BY <2>1, <2>2 DEF FilesOf, Siblings
  <2> QED BY <2>1, <2>2, <2>3 DEF ChosenInv
<1>8. FilesInv /\ NativeInv /\ WholeInv /\ IdleInv
  BY <1>6 DEF Idle, FilesInv, NativeInv, WholeInv, IdleInv
<1>9. EntriesInv BY <1>6 DEF Idle, EntriesInv, FilesOf
<1>10. CountInv
  <2>1. run.count <= Cardinality({}) BY <1>6, FS_EmptySet DEF Idle
  <2> QED BY <2>1 DEF CountInv
<1> QED BY <1>1, <1>2, <1>3, <1>4, <1>5, <1>7, <1>8, <1>9, <1>10 DEF Inv, DataInv, RunInv

LEMMA StepHolds ==
  ASSUME Inv, [Next]_vars
  PROVE  Inv'
<1>1. CASE UNCHANGED vars
  <2>1. playing' \subseteq File BY <1>1 DEF vars, Inv, DataInv, Typed
  <2> QED BY <1>1, <2>1, StutterHolds DEF vars
<1>2. CASE \E ids \in (SUBSET cands) \ {{}} : Attempt(ids)
  BY <1>2, AttemptHolds
<1>3. CASE Play BY <1>3, PlayHolds
<1>4. CASE Die \/ Diagnose BY <1>4, EndHolds
<1>5. CASE Route BY <1>5, RouteHolds
<1>6. CASE FinishFiles BY <1>6, FinishFilesHolds
<1>7. CASE FinishVersion BY <1>7, FinishVersionHolds
<1>8. CASE FinishNative BY <1>8, FinishNativeHolds
<1>9. CASE \E r \in Radarr : DeleteMovieFiles(r) \/ DeleteMovies(r) \/ UnmonitorMovies(r)
  BY <1>9, DeleteMovieFilesHolds, DeleteMoviesHolds, UnmonitorMoviesHolds
<1>10. CASE \E v \in Version :
              SkipVersion(v) \/ PickVersion(v) \/ DeleteMovieVersion(v) \/ CleanUp(v)
  BY <1>10, NativeStepHolds, DeleteMovieVersionHolds, CleanUpHolds
<1>11. CASE \E i \in Item : ReconcileItem(i) \/ DeleteItem(i)
  BY <1>11, ReconcileItemHolds, DeleteItemHolds
<1>12. CASE FinishDelete BY <1>12, FinishDeleteHolds
<1>13. CASE Unmonitored BY <1>13, UnmonitoredHolds
<1>14. CASE RemovalNotConfirmed BY <1>14, RemovalNotConfirmedHolds
<1>15. CASE FinishUnmonitor BY <1>15, FinishUnmonitorHolds
<1>16. CASE Fallback BY <1>16, FallbackHolds
<1>17. CASE FinishMovie BY <1>17, FinishMovieHolds
<1> QED BY <1>1, <1>2, <1>3, <1>4, <1>5, <1>6, <1>7, <1>8, <1>9, <1>10, <1>11, <1>12,
           <1>13, <1>14, <1>15, <1>16, <1>17 DEF Next, Step

\* The invariant holds of every state of the program.
THEOREM InvariantHolds == Spec => []Inv
BY InitHolds, StepHolds, PTL DEF Spec

\* What a run has counted is some of its candidates.
LEMMA CountBound ==
  ASSUME Inv
  PROVE  /\ IsFiniteSet(run.ids) /\ run.count \in Nat
         /\ run.count <= Cardinality(run.ids)
         /\ run.count = Cardinality(run.ids) => run.ids \cap cands = {}
         /\ Cardinality(run.ids) <= Cardinality(Version) + 1
<1>1. run \in Run /\ run.count \in Nat /\ run.ids \subseteq Version \cup {Whole}
  BY DEF Inv, RunInv, ChosenInv, Run
<1>2. /\ IsFiniteSet(Version \cup {Whole})
      /\ Cardinality(Version \cup {Whole}) = Cardinality(Version) + 1
  BY BoundAssumption, FS_AddElement
<1>3. IsFiniteSet(run.ids) /\ Cardinality(run.ids) <= Cardinality(Version) + 1
  BY <1>1, <1>2, FS_Subset
<1>4. PICK P \in SUBSET run.ids : run.count <= Cardinality(P) /\ P \cap cands = {}
  BY DEF Inv, CountInv
<1>5. IsFiniteSet(P) /\ Cardinality(P) <= Cardinality(run.ids)
      /\ (Cardinality(P) = Cardinality(run.ids) => P = run.ids)
  BY <1>3, <1>4, FS_Subset
<1>6. Cardinality(P) \in Nat /\ Cardinality(run.ids) \in Nat
  BY <1>3, <1>5, FS_CardinalityType
<1>7. run.count <= Cardinality(run.ids) BY <1>1, <1>4, <1>5, <1>6
<1>8. run.count = Cardinality(run.ids) => run.ids \cap cands = {}
  BY <1>1, <1>4, <1>5, <1>6
<1> QED BY <1>1, <1>3, <1>7, <1>8

\* Types, with marks only on candidates, candidates only for rows that exist,
\* and a count no higher than the candidates of the movie.
THEOREM TypeCorrect == Spec => []TypeOK
<1>1. Inv => TypeOK
  <2> SUFFICES ASSUME Inv PROVE TypeOK
    OBVIOUS
  <2>1. run.count \in 0..Cardinality(Version) + 1
    <3>1. Cardinality(Version) \in Nat BY BoundAssumption, FS_CardinalityType
    <3>2. Cardinality(run.ids) \in Nat BY CountBound, FS_CardinalityType
    <3> QED BY <3>1, <3>2, CountBound
  <2> QED BY <2>1 DEF Inv, DataInv, Typed, RunInv, ChosenInv, TypeOK
<1> QED BY <1>1, InvariantHolds, PTL

\* Whatever routes a group takes and whatever fails on them, no file goes that
\* nobody asked to delete, nor one protected through its twin.
THEOREM OnlyAskedGo == Spec => []OnlyAskedFilesGo
<1>1. Inv => OnlyAskedFilesGo
  <2> SUFFICES ASSUME Inv, TwinsAlone, NEW v \in Version, FileOf(v) \notin disk
               PROVE  \/ Whole \in asked
                      \/ \E c \in asked : given.stem[FileOf(c)] = given.stem[FileOf(v)]
                                          /\ FileOf(c) \notin FilesOf(protected)
    BY DEF OnlyAskedFilesGo
  <2>1. FileOf(v) \in FilesOf(Version) \ disk BY DEF FilesOf
  <2>2. FileOf(v) \in Allowed BY <2>1 DEF Inv, DataInv, GoneInv
  <2> QED BY <2>2 DEF Allowed
<1> QED BY <1>1, InvariantHolds, PTL

\* The rows of one file go together, and a row or the movie only when the files
\* are gone, unless Radarr was trusted with a whole entry.
THEOREM RowsFollowFiles == Spec => []RowsGoWithTheirFiles
<1>1. Inv => RowsGoWithTheirFiles BY DEF Inv, DataInv
<1> QED BY <1>1, InvariantHolds, PTL

\* An attempt that comes to its end leaves no candidate without a word: the
\* count says that all were deleted only when none is left.
THEOREM EveryoneIsAnswered == Spec => EveryCandidateIsAnswered
<1>1. Inv => (Diagnose => run.ids \cap cands' \subseteq error')
  <2> SUFFICES ASSUME Inv, Diagnose PROVE run.ids \cap cands' \subseteq error'
    OBVIOUS
  <2>1. cands' = cands /\ error' = IF SomeFailed THEN Marked(run.ids) ELSE error
    BY DEF Diagnose, db
  <2>2. CASE SomeFailed BY <2>1, <2>2 DEF Marked
  <2>3. CASE ~SomeFailed
    <3>1. Cardinality(run.ids) \in Nat BY CountBound, FS_CardinalityType
    <3>2. run.count = Cardinality(run.ids) BY <2>3, <3>1, CountBound DEF SomeFailed
    <3> QED BY <2>1, <3>2, CountBound
  <2> QED BY <2>2, <2>3
<1>2. Inv /\ [Next]_vars => [Diagnose => run.ids \cap cands' \subseteq error']_vars
  BY <1>1
<1> QED BY <1>2, InvariantHolds, PTL DEF Spec, EveryCandidateIsAnswered

-----------------------------------------------------------------------------
(***************************************************************************)
(* The players.  Each call that removes files looks before, at no less     *)
(* than what it removes.                                                   *)
(***************************************************************************)
\* No step removes a file that the guard's last snapshot shows in a player,
\* whatever a route removes beside what its candidates name.
THEOREM PlayersAreSpared == Spec => PlayingFileIsKept
<1> DEFINE Spared == Guarded => (disk \ disk') \cap seen' = {}
<1>1. [Next]_vars => Spared
  <2> SUFFICES ASSUME [Next]_vars PROVE Spared
    OBVIOUS
  <2>1. ASSUME UNCHANGED disk PROVE Spared
    BY <2>1
  <2>2. ASSUME NEW outcome, NEW files, NEW target,
               Removes(outcome, files), files \subseteq target, ~Blocked(target)
        PROVE  Spared
    BY <2>2 DEF Removes, Blocked
  <2>3. ASSUME Defer PROVE Spared
    BY <2>1, <2>3 DEF Defer, world
  <2>4. ASSUME NEW r \in Radarr, DeleteMovieFiles(r) PROVE Spared
    <3> DEFINE files == {f \in run.files : given.home[f] = r}
    <3>1. \/ Defer
          \/ ~Blocked(run.target \cup files) /\ \E outcome \in Outcome : Removes(outcome, files)
      BY <2>4 DEF DeleteMovieFiles
    <3> HIDE DEF files
    <3> QED BY <3>1, <2>2, <2>3
  <2>5. ASSUME NEW r \in Radarr, DeleteMovies(r) PROVE Spared
    <3>1. \/ Defer
          \/ /\ ~Blocked(run.target \cup InFolder(r))
             /\ \E outcome \in Outcome : Removes(outcome, InFolder(r))
      BY <2>5 DEF DeleteMovies, RemovalScope
    <3> QED BY <3>1, <2>2, <2>3
  <2>6. ASSUME NEW w \in Version, DeleteMovieVersion(w) PROVE Spared
    <3>1. \/ Defer
          \/ /\ ~Blocked(run.target \cup DeletedWith(w))
             /\ \E outcome \in Outcome : Removes(outcome, DeletedWith(w))
      BY <2>6 DEF DeleteMovieVersion
    <3> QED BY <3>1, <2>2, <2>3
  <2>7. ASSUME NEW v \in Version, CleanUp(v) PROVE Spared
    <3>1. \/ Defer
          \/ /\ ~Blocked(run.target \cup SameStem(FileOf(v)))
             /\ \E outcome \in Outcome : Removes(outcome, SameStem(FileOf(v)))
          \/ UNCHANGED disk
      BY <2>7 DEF CleanUp, Outcome, world
    <3> QED BY <3>1, <2>1, <2>2, <2>3
  <2>8. ASSUME NEW i \in Item, ReconcileItem(i) \/ DeleteItem(i) PROVE Spared
    <3>1. \/ Defer
          \/ /\ ~Blocked(run.target \cup FilesOf(OnItem(i)))
             /\ \E outcome \in Outcome : Removes(outcome, FilesOf(OnItem(i)))
      BY <2>8 DEF ReconcileItem, DeleteItem
    <3> QED BY <3>1, <2>2, <2>3
  <2>9. \/ UNCHANGED disk
        \/ \E r \in Radarr : DeleteMovieFiles(r) \/ DeleteMovies(r)
        \/ \E v \in Version : DeleteMovieVersion(v) \/ CleanUp(v)
        \/ \E i \in Item : ReconcileItem(i) \/ DeleteItem(i)
    BY DEF Next, Step, vars, world, Attempt, Play, Die, Route, FinishFiles,
       FinishVersion, FinishNative, UnmonitorMovies, SkipVersion, PickVersion,
       FinishDelete, Unmonitored, RemovalNotConfirmed, FinishUnmonitor, Fallback,
       FinishMovie, Diagnose
  <2> QED BY <2>1, <2>4, <2>5, <2>6, <2>7, <2>8, <2>9
<1> QED BY <1>1, PTL DEF Spec, PlayingFileIsKept
=============================================================================
