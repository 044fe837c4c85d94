-------------------------- MODULE DuplicateDeletion --------------------------
(***************************************************************************)
(* The removal of redundant files of one movie or episode, from the        *)
(* version ids a user picks on the Duplicates page (services/duplicates.py,*)
(* api/routes/duplicates.py) to the last commit of the job                 *)
(* (jobs/duplicate_file_ops.py).  Nothing about a group of duplicates is   *)
(* stored: the route plans the removal from the version rows, queues the   *)
(* ids, and the job plans it again.  Between the two the library is synced,*)
(* files are replaced by upgrades, protections come and go, and other jobs *)
(* remove files of the same group.                                         *)
(*                                                                         *)
(* No sync runs during a job: both hold the service-runtime resource (see  *)
(* JobPolicy).  One job stands for one group of it.  Ranking, sizes,       *)
(* history, events, candidates and requests are left out; so are upgrade   *)
(* leftovers, which ride the same job.                                     *)
(***************************************************************************)
EXTENDS Integers, FiniteSets

CONSTANTS
  File,
  Row,        \* ids of movie_versions or episode_versions
  Arr,        \* Radarr or Sonarr configurations that know the title
  None,
  Layouts,    \* what the title looks like, see LayoutAssumption
  MaxEvents   \* bound on picks, syncs, imports and protections

ASSUME LayoutAssumption ==
  \A l \in Layouts :
    /\ l.kind \in {"movie", "episode"}
    /\ l.server \in {"plex", "emby"}        \* Jellyfin deletes as Emby does
    /\ l.places \subseteq File \X {1, 2}    \* libraries a file is indexed in
    /\ l.rank \in [File -> Nat]             \* the server reports in this order
    /\ l.start \subseteq File /\ l.start # {}  \* files there are at first,
    /\ l.rows \in [Row -> l.places \cup {None}] \* and their rows
    /\ l.item \in [File -> File]            \* files of one item: one value
    /\ l.stem \in [File -> File]            \* one folder and stem: one value
    /\ l.odd \subseteq File                 \* several episodes, no path or size
    /\ l.folder \in [Arr -> SUBSET File]
    /\ l.up \subseteq Arr                   \* linked, and its client loaded
    /\ l.mapped \in BOOLEAN                 \* paths can be compared
    /\ l.local \in BOOLEAN                  \* this program sees the files
    /\ l.fallback \in BOOLEAN               \* the media server may delete
ASSUME RowAssumption == Row \subseteq Nat /\ None \notin File \cup (File \X {1, 2})
ASSUME BoundAssumption == MaxEvents \in Nat

VARIABLES
  given,      \* the layout of the behaviour
  disk,       \* the files that exist
  rows,       \* what each version row describes: a file in a library
  tracked,    \* the file each Arr holds for the title
  protected,  \* protected rows; Row when the title is
  path,       \* Episode.path
  queue,      \* jobs that wait: the version ids picked
  run,        \* the job under way
  misled,     \* history: a run counted on a file that was not there
  left        \* what remains of MaxEvents

world == <<disk, tracked>>
db == <<rows, protected, path>>
vars == <<given, disk, rows, tracked, protected, path, queue, run, misled, left>>

Idle == [at |-> "idle", todo |-> {}, kept |-> {}, now |-> None,
         told |-> [r \in Arr |-> None], arrs |-> {}, calls |-> {}, routed |-> {}]

-----------------------------------------------------------------------------
(***************************************************************************)
(* The group (collapse_twins, build_group): rows with one path are one     *)
(* file, which is protected when one of them is.                           *)
(***************************************************************************)
Used == {r \in Row : rows[r] # None}
RowsOf(f) == {r \in Used : rows[r][1] = f}
FilesOf(ids) == {rows[r][1] : r \in ids \cap Used}
GroupFiles == FilesOf(Used)

ProtectedFile(f) == RowsOf(f) \cap protected # {}

\* _manual_reason: Jellyfin and Emby delete whole items.
\* A seeded fault: items are not compared.
ManualIfOdd == GroupFiles \cap given.odd # {}

ManualReason ==
  \/ GroupFiles \cap given.odd # {}
  \/ /\ given.server # "plex"
     /\ \E f, g \in GroupFiles : f # g /\ given.item[f] = given.item[g]

\* plan_duplicate_delete.
\* A seeded fault: rows are counted, not files.
PlanByRows(ids) ==
  /\ Cardinality(GroupFiles) > 1 /\ ~ManualReason
  /\ ids # {} /\ ids \subseteq Used
  /\ ids # Used
  /\ \A f \in FilesOf(ids) : ~ProtectedFile(f)

Plannable(ids) ==
  /\ Cardinality(GroupFiles) > 1 /\ ~ManualReason
  /\ ids # {} /\ ids \subseteq Used
  /\ FilesOf(ids) # GroupFiles
  /\ \A f \in FilesOf(ids) : ~ProtectedFile(f)

-----------------------------------------------------------------------------
Init ==
  /\ given \in Layouts
  /\ disk = given.start
  /\ rows = given.rows
  /\ tracked \in [Arr -> File \cup {None}]
  /\ \A r \in Arr : IF given.folder[r] \cap disk = {} THEN tracked[r] = None
                    ELSE tracked[r] \in given.folder[r] \cap disk
  /\ protected = {}
  /\ path \in GroupFiles
  /\ queue = {} /\ run = Idle
  /\ misled = FALSE
  /\ left = MaxEvents

Event == left > 0 /\ left' = left - 1

(***************************************************************************)
(* The surroundings.                                                       *)
(***************************************************************************)
\* delete_duplicates.
Pick(ids) ==
  /\ Event /\ Plannable(ids)
  /\ queue' = queue \cup {ids}
  /\ UNCHANGED <<given, world, db, run, misled>>

\* A movie's versions one by one or all; of a series only all.
Protect ==
  /\ Event
  /\ protected' \in {{}, Row} \cup
       (IF given.kind = "movie" THEN {protected \cup {r} : r \in Used} ELSE {})
  /\ UNCHANGED <<given, world, rows, path, queue, run, misled>>

\* An upgrade replaces the file the Arr holds.
Import(r, f) ==
  /\ Event
  /\ f \in given.folder[r] \ disk
  /\ disk' = (disk \ {tracked[r]}) \cup {f}
  /\ tracked' = [tracked EXCEPT ![r] = f]
  /\ misled' = (misled \/ tracked[r] \in run.kept)
  /\ UNCHANGED <<given, db, queue, run>>

\* An Arr without the file it held takes another one of its folder.
Rescanned(r) ==
  IF tracked[r] \in disk THEN {tracked[r]}
  ELSE IF given.folder[r] \cap disk = {} THEN {None} ELSE given.folder[r] \cap disk

ArrScan(r) ==
  /\ Event
  /\ tracked[r] \notin disk
  /\ \E f \in Rescanned(r) : tracked' = [tracked EXCEPT ![r] = f]
  /\ UNCHANGED <<given, disk, db, queue, run, misled>>

(***************************************************************************)
(* A sync adds rows for what the server reports, then drops the rows of    *)
(* what it does not.  The rows of an episode in a supplemental library are *)
(* dropped with these and made anew.  SQLite numbers new rows from above   *)
(* the largest id there is, used before or not; the rows of other titles,  *)
(* which only make a picked id vanish, are left out.                       *)
(***************************************************************************)
Reported == {p \in given.places : p[1] \in disk}
Authoritative == {p \in Reported : given.kind = "movie" \/ p[2] = 1}
Survivors == {r \in Used : rows[r] \in Authoritative}

NewIds(n, ids) ==
  {top + 1..top + n : top \in {t \in ids \cup {0} : \A i \in ids : i <= t}}

Numbered(places, ids) ==
  UNION {{m \in [new -> places] :
            /\ new \subseteq Row /\ places = {m[i] : i \in new}
            /\ \A i, j \in new : i < j => given.rank[m[i][1]] <= given.rank[m[j][1]]}
         : new \in NewIds(Cardinality(places), ids)}

Sync ==
  /\ Event /\ run.at = "idle"
  /\ \E main \in Numbered(Authoritative \ {rows[r] : r \in Survivors}, Used) :
       \E more \in Numbered(Reported \ Authoritative, Survivors \cup DOMAIN main) :
         rows' = [r \in Row |-> IF r \in DOMAIN main THEN main[r]
                                ELSE IF r \in DOMAIN more THEN more[r]
                                ELSE IF r \in Survivors THEN rows[r] ELSE None]
  /\ protected' = IF protected = Row THEN Row ELSE protected \cap Survivors
  /\ LET files == {p[1] : p \in Reported}
     IN path' \in IF files = {} THEN {path} ELSE files
  /\ UNCHANGED <<given, world, queue, run, misled>>

-----------------------------------------------------------------------------
(***************************************************************************)
(* The job.  It plans again, twice in a row with a look at the players     *)
(* between; what cannot be planned or may not be touched now is dropped.   *)
(***************************************************************************)
Start(ids) ==
  /\ run.at = "idle" /\ ids \in queue
  /\ queue' = queue \ {ids}
  /\ LET kept == GroupFiles \ FilesOf(ids)
     IN \/ /\ Plannable(ids)
           /\ run' = [Idle EXCEPT !.at = "next", !.todo = FilesOf(ids), !.kept = kept]
           /\ misled' = (misled \/ ~(kept \subseteq disk))
        \/ UNCHANGED <<run, misled>>
  /\ UNCHANGED <<given, world, db, left>>

\* A player defers the rest, a call fails, or the process dies: what is done
\* stays done, and the row of a file that is gone may stay.
Abandon ==
  /\ run.at # "idle"
  /\ run' = Idle
  /\ UNCHANGED <<given, world, db, queue, misled, left>>

\* Arrs that track this file, by path.
Tracking(f) == {r \in given.up : given.mapped /\ tracked[r] = f}

\* A seeded fault: any file of the group in the folder will do.
AnyInFolder(r) == GroupFiles \cap given.folder[r] # {}

KeptInArrFolder(r) == run.kept \cap given.folder[r] # {}

\* Every instance is checked before any deletes; one that holds the file and
\* would be left without one fails the group, as Abandon.
Route(f) ==
  /\ run.at = "next" /\ f \in run.todo
  /\ \A r \in Tracking(f) : KeptInArrFolder(r)
  /\ Tracking(f) # {} \/ given.fallback
  /\ run' = [run EXCEPT !.at = IF Tracking(f) # {} THEN "arr" ELSE "server",
               !.now = f, !.todo = @ \ {f}, !.told = tracked,
               !.arrs = Tracking(f), !.routed = Tracking(f), !.calls = RowsOf(f)]
  /\ UNCHANGED <<given, world, db, queue, misled, left>>

(***************************************************************************)
(* A call may work, fail, or work and fail to say so.  A failure ends the  *)
(* run.  A media server may also answer before the file is gone.           *)
(***************************************************************************)
DeleteFileInArr(r) ==
  /\ run.at = "arr" /\ r \in run.arrs
  /\ disk' = disk \ {run.now}
  /\ tracked' = [tracked EXCEPT ![r] = IF @ = run.now THEN None ELSE @]
  /\ run' \in {[run EXCEPT !.arrs = @ \ {r},
                           !.at = IF @ # "arr" \/ run.arrs # {r} THEN @ ELSE "commit"],
               Idle}
  /\ UNCHANGED <<given, db, queue, misled, left>>

\* Plex removes the file of one version, Jellyfin and Emby the item.
DeletedWith(f) ==
  IF given.server = "plex" THEN {f} ELSE {g \in File : given.item[g] = given.item[f]}

DeleteVersion(r) ==
  /\ run.at = "server" /\ r \in run.calls
  /\ disk' \in {disk, disk \ DeletedWith(run.now)}
  /\ run' \in {[run EXCEPT !.calls = @ \ {r},
                           !.at = IF run.calls = {r} THEN "sidecars" ELSE @],
               Idle}
  /\ UNCHANGED <<given, tracked, db, queue, misled, left>>

SameStem(f) == {g \in File : given.stem[g] = given.stem[f]}

\* A kept file is looked for where it exists.
\* A seeded fault: the stems of kept files are not compared.
NeverShared(f) == FALSE

StemIsShared(f) == SameStem(f) \cap run.kept \cap disk # {}

\* _cleanup_sidecars: only what still resolves to an existing file.
CleanupSidecars ==
  /\ run.at = "sidecars"
  /\ disk' \in IF given.local /\ run.now \in disk /\ ~StemIsShared(run.now)
               THEN {disk \ SameStem(run.now), disk} ELSE {disk}
  /\ run' = [run EXCEPT !.at = "commit"]
  /\ UNCHANGED <<given, tracked, db, queue, misled, left>>

\* A seeded fault: the episode goes on naming the file.
PathUnchanged(f) == {path}

PathAfter(f) == IF given.kind = "episode" /\ path = f THEN run.kept ELSE {path}

Commit ==
  /\ run.at = "commit"
  /\ rows' = [r \in Row |-> IF r \in RowsOf(run.now) THEN None ELSE rows[r]]
  /\ protected' = IF protected = Row THEN Row ELSE protected \ RowsOf(run.now)
  /\ path' \in PathAfter(run.now)
  /\ run' = [run EXCEPT !.at = "rescan"]
  /\ UNCHANGED <<given, world, queue, misled, left>>

\* _best_effort_radarr_rescan, _best_effort_sonarr_refresh; the next file.
Rescan ==
  /\ run.at = "rescan"
  /\ \E heard \in SUBSET run.routed :
       tracked' \in {t \in [Arr -> File \cup {None}] :
                       \A r \in Arr : t[r] \in IF r \in heard THEN Rescanned(r)
                                               ELSE {tracked[r]}}
  /\ run' = IF run.todo = {} THEN Idle
            ELSE [Idle EXCEPT !.at = "next", !.todo = run.todo, !.kept = run.kept]
  /\ UNCHANGED <<given, disk, db, queue, misled, left>>

-----------------------------------------------------------------------------
Work ==
  \/ \E r \in Arr : DeleteFileInArr(r)
  \/ \E r \in Row : DeleteVersion(r)
  \/ \E f \in File : Route(f)
  \/ CleanupSidecars \/ Commit \/ Rescan \/ Abandon

Surroundings ==
  \/ \E ids \in SUBSET Row : Pick(ids)
  \/ Protect
  \/ \E r \in Arr : ArrScan(r)
  \/ \E r \in Arr, f \in File : Import(r, f)
  \/ Sync

Next == Work \/ Surroundings \/ \E ids \in queue : Start(ids)

Spec == Init /\ [][Next]_vars

TypeOK ==
  /\ given \in Layouts /\ disk \subseteq File
  /\ rows \in [Row -> given.places \cup {None}]
  /\ tracked \in [Arr -> File \cup {None}]
  /\ protected \subseteq Row /\ path \in File
  /\ queue \subseteq SUBSET Row
  /\ run \in [at : {"idle", "next", "arr", "server", "sidecars", "commit", "rescan"},
               todo : SUBSET File, kept : SUBSET File, now : File \cup {None},
               told : [Arr -> File \cup {None}], arrs : SUBSET given.up,
               calls : SUBSET Row, routed : SUBSET given.up]
  /\ misled \in BOOLEAN /\ left \in 0..MaxEvents

(***************************************************************************)
(* No step of a run removes a file its plan keeps, nor one of the group    *)
(* that holds several episodes: not through an item that holds it too, not *)
(* as a sidecar of its neighbour.  What is protected when the plan is made *)
(* is kept.                                                                *)
(***************************************************************************)
KeptFilesSurvive ==
  [][Work => (run.kept \cup (given.odd \cap GroupFiles)) \cap (disk \ disk') = {}]_vars

(***************************************************************************)
(* docs/usage/duplicates.md: "every group always keeps at least one file", *)
(* whatever several jobs pick of it, as long as each run's kept files were *)
(* there.                                                                  *)
(***************************************************************************)
AFileIsKept == ~misled => disk # {}

(***************************************************************************)
(* An Arr that tracks the file being removed, and said so, has another one *)
(* in its folder afterwards, so that it does not download the title again  *)
(* - as long as each run's kept files were there.  (A sidecar cleanup that *)
(* takes another picked file of the same stem escapes the check.)          *)
(***************************************************************************)
ArrIsLeftAFile ==
  [][Work /\ given.mapped /\ ~misled =>
       \A r \in given.up :
         /\ run.told[r] = run.now /\ tracked[r] = run.now
         /\ run.now \in disk \ disk'
         => given.folder[r] \cap disk' # {}]_vars

(***************************************************************************)
(* The path of an episode names a file one of its rows describes, whatever *)
(* files of the group go, as long as any row is left.                      *)
(***************************************************************************)
EpisodeNamesAVersion ==
  given.kind = "episode" /\ GroupFiles # {} => path \in GroupFiles
=============================================================================
