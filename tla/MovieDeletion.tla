---------------------------- MODULE MovieDeletion ----------------------------
(***************************************************************************)
(* The deletion of one movie's candidates (tasks/cleanup.py), from the     *)
(* first look at the players to the last commit.  A group of candidates,   *)
(* each for one version or for the whole movie, is spread over four routes *)
(* - single files through Radarr, versions through the media server, whole *)
(* entries through every Radarr that knows the movie, and the media server *)
(* again as a last resort - that run one after another.  Each call to a    *)
(* service may succeed, fail, or work and fail to say so; each is preceded *)
(* by another look at the players, and the process may die between any two.*)
(*                                                                         *)
(* A file indexed in two libraries has a version row, and an item of the   *)
(* media server, in each; a multi-version item holds several files.  Sizes,*)
(* history, tags, rescans, request services and list exclusions are left   *)
(* out; rules select no particular Radarr.                                 *)
(***************************************************************************)
EXTENDS Integers, FiniteSets

CONSTANTS
  Version,    \* rows of movie_versions at the start
  File,
  Item,       \* the media server's items
  Radarr,     \* configurations of Radarr
  Nowhere,    \* the folder of a file no Radarr manages
  Whole,      \* the target of a candidate for the whole movie
  Layouts,    \* what the movie looks like, see LayoutAssumption
  MaxEvents   \* bound on attempts, and sessions started or stopped

ASSUME LayoutAssumption ==
  Layouts \subseteq
    [file : [Version -> File],
     item : [Version -> Item],
     home : [File -> Radarr \cup {Nowhere}],  \* the folder it lies in
     stem : [File -> File],     \* files of one folder and stem have one value
     mapped : BOOLEAN,          \* paths of the servers can be compared
     local : BOOLEAN,           \* this program sees the files itself
     server : {"plex", "emby"},
     refs : SUBSET Radarr,      \* synced links of the movie
     up : SUBSET Radarr]        \* clients that are loaded
ASSUME BoundAssumption ==
  MaxEvents \in Nat /\ Whole \notin Version /\ IsFiniteSet(Version)

Action == {"delete", "unmonitor", "unmonitor_only", "remove_if_empty"}

VARIABLES
  given,      \* layout, Arr action and media-server fallback of the behaviour
  disk,       \* the files that exist
  rows,       \* version rows that exist
  removed,    \* Movie.removed_at is set
  entry,      \* Radarr's entries
  cands,      \* reclaim_candidates of the movie, by target
  protected,  \* versions with a protection of their own
  error,      \* candidates with last_delete_error
  deferred,   \* candidates with playback_deferral
  playing,    \* files in a player now
  seen,       \* and in the guard's last snapshot
  run,        \* the attempt under way
  asked,      \* history: the targets any attempt was for
  left        \* what remains of MaxEvents

db == <<rows, removed, cands, protected>>
marks == <<error, deferred>>
world == <<disk, entry>>
vars == <<given, disk, rows, removed, entry, cands, protected, error, deferred,
          playing, seen, run, asked, left>>

FileOf(v) == given.file[v]
FilesOf(S) == {FileOf(v) : v \in S}
InFolder(r) == {f \in File : given.home[f] = r}
OnItem(i) == {v \in Version : given.item[v] = i}
SameStem(f) == {g \in File : given.stem[g] = given.stem[f]}
Active == given.refs \cap given.up
Unmonitors == given.action \in {"unmonitor", "unmonitor_only"}

Idle == [at |-> "idle", ids |-> {}, chosen |-> {}, info |-> {}, loaded |-> {}, target |-> {},
         files |-> {}, covered |-> {}, byFile |-> {}, native |-> {},
         picked |-> {}, calls |-> {}, entries |-> {}, todo |-> {}, done |-> {},
         byEntry |-> {}, cleaned |-> {}, count |-> 0]

TypeOK ==
  /\ disk \subseteq File /\ rows \subseteq Version /\ removed \in BOOLEAN
  /\ entry \in [Radarr -> {"monitored", "unmonitored", "deleted"}]
  /\ cands \subseteq rows \cup {Whole}
  /\ error \subseteq cands /\ deferred \subseteq cands
  /\ seen \subseteq File /\ playing \subseteq File
  /\ run.ids \subseteq asked /\ run.count \in 0..Cardinality(Version) + 1

Init ==
  /\ \E l \in Layouts, a \in Action, fallback \in BOOLEAN :
       given = [f \in DOMAIN l \cup {"action", "fallback"} |->
                  IF f = "action" THEN a ELSE IF f = "fallback" THEN fallback ELSE l[f]]
  /\ disk = File /\ rows = Version /\ removed = FALSE
  /\ entry = [r \in Radarr |-> "monitored"]
  /\ protected \in {{}} \cup {{v} : v \in Version}
  /\ cands \in (SUBSET (Version \cup {Whole})) \ {{}}
  /\ cands \cap protected = {} /\ (protected # {} => Whole \notin cands)
  /\ error = {} /\ deferred = {}
  /\ playing = {} /\ seen = {}
  /\ run = Idle /\ asked = {}
  /\ left = MaxEvents

-----------------------------------------------------------------------------
(***************************************************************************)
(* The players and the guard.  A snapshot serves for 30 seconds, then a    *)
(* new one is taken; one that cannot be had defers whatever is checked, so *)
(* it reads as if every file were playing.  A group that removes no file   *)
(* by its action runs without the guard.                                   *)
(***************************************************************************)
Play ==
  /\ left > 0 /\ left' = left - 1
  /\ \E f \in File :
       playing' = IF f \in playing THEN playing \ {f} ELSE playing \cup {f}
  /\ UNCHANGED <<given, db, marks, world, seen, run, asked>>

Guarded == given.action # "unmonitor_only"

Look == seen' \in IF Guarded THEN {seen, playing, File} ELSE {seen}

Blocked(files) == Guarded /\ files \cap seen' # {}

TargetOf(c) ==
  IF c = Whole THEN FilesOf(rows)
  ELSE IF given.local THEN SameStem(FileOf(c)) ELSE {FileOf(c)}

\* PlaybackDeferred: what was done stays done, what is left is deferred.
Defer ==
  /\ deferred' = deferred \cup (run.ids \cap cands)
  /\ run' = Idle
  /\ UNCHANGED <<given, db, error, world, playing, asked, left>>

Attempt(ids) ==
  /\ run = Idle /\ left > 0 /\ left' = left - 1
  /\ Look
  /\ LET allowed == {c \in ids : ~Blocked(TargetOf(c))}
     IN /\ deferred' = (deferred \ allowed) \cup (ids \ allowed)
        /\ error' = error \ allowed
        /\ run' = IF allowed = {} THEN Idle
                  ELSE [Idle EXCEPT !.at = "routing", !.ids = allowed,
                                    !.target = UNION {TargetOf(c) : c \in allowed}]
        /\ asked' = asked \cup allowed
  /\ UNCHANGED <<given, db, world, playing>>

(***************************************************************************)
(* A call: it may fail before its effect, or after it.                     *)
(***************************************************************************)
Outcome == {"done", "failed", "unheard"}

Removes(outcome, files) == disk' = IF outcome = "failed" THEN disk ELSE disk \ files

Marked(S) == error \cup (S \cap cands)

-----------------------------------------------------------------------------
(***************************************************************************)
(* Routing (_delete_movie_candidates).                                     *)
(***************************************************************************)
Siblings(S, info) == S \cup {w \in info : \E v \in S \cap info : FileOf(w) = FileOf(v)}

\* Versions whose file is protected through its twin.
HeldBack(S) ==
  {v \in S \cap Version : v \notin protected /\ FileOf(v) \in FilesOf(protected \cap rows)}

InEntry(v, r) == given.mapped /\ given.home[FileOf(v)] = r

\* By path, or the only Radarr there is.
MatchVersion(v) ==
  LET matched == {r \in Active : InEntry(v, r)}
  IN IF matched = {} /\ Cardinality(Active) = 1 THEN Active ELSE matched

\* A seeded fault: one selected version of the entry is enough.
CoversSome(S, matched, info) ==
  matched # {} /\ \A r \in matched : \E v \in S : InEntry(v, r)

CoversFullEntry(S, matched, info) ==
  /\ S # {} /\ matched # {}
  /\ \A r \in matched :
       LET inEntry == {v \in info : InEntry(v, r)}
       IN IF inEntry = {}
          THEN Cardinality(Active) = 1 /\ Siblings(S, info) = info
          ELSE inEntry \subseteq Siblings(S, info)

Owners(f, info) == IF given.mapped THEN {v \in info : FileOf(v) = f} ELSE {}

\* Radarr's files of which every row is selected.
DeletableFiles(S, matched, info) ==
  {f \in disk : /\ given.home[f] \in matched
                /\ Owners(f, info) # {}
                /\ Owners(f, info) \subseteq Siblings(S, info)}

\* A seeded fault: files found are enough, whatever else was selected.
FoundAny(files, S, info) == files # {}

AllAccounted(files, S, info) ==
  files # {} /\ UNION {Owners(f, info) : f \in files} = Siblings(S, info)

Route ==
  /\ run.at = "routing"
  /\ LET live == IF removed THEN {} ELSE run.ids \cap cands
         chosen == live \ HeldBack(live)
         S == chosen \cap Version
         byEntry == {v \in S : \/ Unmonitors /\ MatchVersion(v) # {}
                               \/ given.action = "delete"
                                  /\ CoversFullEntry(S, MatchVersion(v), rows)}
         partial == {v \in S \ byEntry : given.action = "delete" /\ MatchVersion(v) # {}}
         plans == {DeletableFiles(S, MatchVersion(v), rows) :
                     v \in {p \in partial : \A r \in MatchVersion(p) : entry[r] # "deleted"}}
         entries == (UNION {MatchVersion(v) : v \in byEntry})
                    \cup (IF Whole \in chosen THEN Active ELSE {})
     IN \E files \in {p \in plans : AllAccounted(p, S, rows)} \cup {{}} : \* {}: not read
          run' = [run EXCEPT
            !.at = "files", !.chosen = chosen, !.info = rows,
            !.files = files, !.covered = Siblings(S, rows),
            !.byFile = IF files = {} THEN {} ELSE partial,
            !.native = S \ (byEntry \cup (IF files = {} THEN {} ELSE partial)),
            !.entries = entries, !.todo = entries,
            !.byEntry = byEntry \cup (chosen \cap {Whole})]
  /\ error' = Marked(HeldBack(IF removed THEN {} ELSE run.ids \cap cands))
  /\ UNCHANGED <<given, db, deferred, world, playing, seen, asked, left>>

\* _soft_remove_movie_if_empty and detach_movie_version_references.
\* A seeded fault: the candidates of the rows stay.
RowsOnly(gone, done) ==
  /\ rows' = rows \ gone
  /\ removed' = (removed \/ rows \subseteq gone)
  /\ cands' = cands \ done
  /\ error' = error \cap cands' /\ deferred' = deferred \cap cands'

RetireRows(gone, done) ==
  LET kept == (cands \ done) \ gone
  IN /\ rows' = rows \ gone
     /\ removed' = (removed \/ rows \subseteq gone)
     /\ cands' = IF rows \subseteq gone THEN {} ELSE kept
     /\ error' = error \cap cands'
     /\ deferred' = deferred \cap cands'

-----------------------------------------------------------------------------
(***************************************************************************)
(* Single files through Radarr (_delete_movie_version_files_via_radarr).   *)
(***************************************************************************)
DeleteMovieFiles(r) ==
  /\ run.at = "files"
  /\ LET files == {f \in run.files : given.home[f] = r}
         target == run.target \cup files
     IN /\ files # {}
        /\ Look
        /\ IF Blocked(target) THEN Defer
           ELSE \E outcome \in Outcome :
             /\ Removes(outcome, files)
             /\ run' = [run EXCEPT !.target = target,
                          !.files = IF outcome = "done" THEN @ \ files ELSE {},
                          !.at = IF outcome = "done" THEN @ ELSE "native",
                          !.loaded = rows]
             /\ error' = IF outcome = "done" THEN error ELSE Marked(run.byFile)
             /\ UNCHANGED <<given, db, deferred, entry, playing, asked, left>>

FinishFiles ==
  /\ run.at = "files" /\ run.files = {}
  /\ IF run.byFile = {} THEN UNCHANGED <<rows, removed, cands, marks>>
                        ELSE RetireRows(run.covered, run.byFile)
  /\ run' = [run EXCEPT !.at = "native", !.loaded = rows',
               !.count = IF run.byFile = {} THEN @ ELSE @ + 1]
  /\ UNCHANGED <<given, protected, world, playing, seen, asked, left>>

-----------------------------------------------------------------------------
(***************************************************************************)
(* Versions through the media server (_delete_movie_version_candidates).   *)
(* The rows are read once for all candidates; calls holds those of the     *)
(* picked one's file whose turn is still to come.                          *)
(***************************************************************************)
ItemShared(v) ==
  /\ given.server = "emby"
  /\ ~(OnItem(given.item[v]) \cap run.loaded \subseteq Siblings({v}, run.loaded))

SkipVersion(v) ==
  /\ run.at = "native" /\ v \in run.native
  /\ \/ ~given.fallback
     \/ given.action = "unmonitor_only"
     \/ v \notin run.loaded
     \/ ItemShared(v)
  /\ error' = Marked({v})
  /\ run' = [run EXCEPT !.native = @ \ {v}]
  /\ UNCHANGED <<given, db, deferred, world, playing, seen, asked, left>>

PickVersion(v) ==
  /\ run.at = "native" /\ v \in run.native
  /\ given.fallback /\ given.action # "unmonitor_only"
  /\ v \in run.loaded /\ ~ItemShared(v)
  /\ run' = [run EXCEPT !.at = "version", !.native = @ \ {v}, !.picked = {v},
                        !.calls = Siblings({v}, run.loaded)]
  /\ UNCHANGED <<given, db, marks, world, playing, seen, asked, left>>

\* Plex deletes one version of an item, Emby and Jellyfin the item.
DeletedWith(w) ==
  IF given.server = "plex" THEN {FileOf(w)} ELSE FilesOf(OnItem(given.item[w]))

DeleteMovieVersion(w) ==
  /\ run.at = "version" /\ w \in run.calls
  /\ LET target == run.target \cup DeletedWith(w)
     IN /\ Look
        /\ IF Blocked(target) THEN Defer
           ELSE \E outcome \in Outcome :
             /\ Removes(outcome, DeletedWith(w))
             /\ run' = [run EXCEPT !.target = target,
                          !.calls = IF outcome = "done" THEN @ \ {w} ELSE {},
                          !.picked = IF outcome = "done" THEN @ ELSE {},
                          !.at = IF outcome = "done" THEN @ ELSE "native"]
             /\ error' = IF outcome = "done" THEN error ELSE Marked(run.picked)
             /\ UNCHANGED <<given, db, deferred, entry, playing, asked, left>>

\* An entry that is left without versions goes too, where Radarr is reached.
FinishVersion ==
  /\ run.at = "version" /\ run.calls = {}
  /\ LET gone == Siblings(run.picked, run.loaded)
         last == given.action = "remove_if_empty" /\ rows \subseteq gone
     IN /\ RetireRows(gone, run.picked)
        /\ \E dropped \in SUBSET (IF last THEN Active ELSE {}) :
             entry' = [r \in Radarr |-> IF r \in dropped THEN "deleted" ELSE entry[r]]
  /\ run' = [run EXCEPT !.at = "native", !.count = @ + 1, !.picked = {}]
  /\ UNCHANGED <<given, protected, disk, playing, seen, asked, left>>

FinishNative ==
  /\ run.at = "native" /\ run.native = {}
  /\ run' = [run EXCEPT !.at = IF run.entries = {} THEN "fallback" ELSE "entries"]
  /\ UNCHANGED <<given, db, marks, world, playing, seen, asked, left>>

-----------------------------------------------------------------------------
(***************************************************************************)
(* Whole entries through Radarr: one call per configuration, then one      *)
(* commit for those that worked.                                           *)
(***************************************************************************)
\* A seeded fault: the folder is not looked up.
NoFolder(r) == {}

RemovalScope(r) == InFolder(r)

DeleteMovies(r) ==
  /\ run.at = "entries" /\ ~Unmonitors /\ r \in run.todo
  /\ Look
  /\ LET target == run.target \cup RemovalScope(r)
     IN IF Blocked(target) \/ entry[r] = "deleted" THEN Defer \* Radarr cannot name
        ELSE \E outcome \in Outcome :                         \* the folder any more
          /\ Removes(outcome, InFolder(r))
          /\ entry' = IF outcome = "failed" THEN entry ELSE [entry EXCEPT ![r] = "deleted"]
          /\ run' = [run EXCEPT !.target = target, !.todo = @ \ {r},
                       !.done = IF outcome = "done" THEN @ \cup {r} ELSE @]
          /\ error' = IF outcome = "done" THEN error ELSE Marked(run.byEntry)
          /\ UNCHANGED <<given, db, deferred, playing, asked, left>>

\* Radarr removed files, so every row naming one goes.
Retired == Siblings(run.chosen \cap Version, run.info)

FinishDelete ==
  /\ run.at = "entries" /\ ~Unmonitors /\ run.todo = {}
  /\ \/ /\ run.done # {}
        /\ IF Whole \in run.chosen
           THEN /\ removed' = TRUE
                /\ cands' = cands \ run.byEntry
                /\ error' = error \cap cands' /\ deferred' = deferred \cap cands'
                /\ rows' = rows
           ELSE RetireRows(Retired, run.byEntry)
        /\ run' = [run EXCEPT !.at = "fallback", !.count = @ + 1]
     \/ /\ run' = [run EXCEPT !.at = "fallback"]    \* nothing worked, or the
        /\ UNCHANGED <<rows, removed, cands, marks>> \* commit failed
  /\ UNCHANGED <<given, protected, world, playing, seen, asked, left>>

-----------------------------------------------------------------------------
(***************************************************************************)
(* The unmonitor route: the entries are unmonitored, then this program     *)
(* removes the files and lets the media server delete what it could not,   *)
(* all before one commit that any failure rolls back.                      *)
(***************************************************************************)
Targets == IF Whole \in run.chosen THEN rows ELSE run.chosen \cap rows

UnmonitorMovies(r) ==
  /\ run.at = "entries" /\ Unmonitors /\ r \in run.todo
  /\ \E worked \in BOOLEAN :
       /\ entry' = IF worked /\ entry[r] # "deleted"
                   THEN [entry EXCEPT ![r] = "unmonitored"] ELSE entry
       /\ run' = [run EXCEPT !.todo = @ \ {r}, !.done = IF worked THEN @ \cup {r} ELSE @]
       /\ error' = IF worked THEN error ELSE Marked(run.byEntry)
  /\ UNCHANGED <<given, db, deferred, disk, playing, seen, asked, left>>

Unmonitored ==
  /\ run.at = "entries" /\ Unmonitors /\ run.todo = {}
  /\ IF run.done # {} /\ given.action = "unmonitor_only"
     THEN /\ cands' = cands \ run.byEntry
          /\ error' = error \cap cands' /\ deferred' = deferred \cap cands'
          /\ run' = [run EXCEPT !.at = "fallback", !.count = @ + 1]
     ELSE /\ run' = [run EXCEPT !.at = IF run.done = {} THEN "fallback" ELSE "cleanup",
                                !.calls = Targets]
          /\ UNCHANGED <<cands, marks>>
  /\ UNCHANGED <<given, rows, removed, protected, world, playing, seen, asked, left>>

\* sibling_cleanup, where the file is found.
CleanUp(v) ==
  /\ run.at = "cleanup" /\ v \in run.calls
  /\ IF given.local /\ FileOf(v) \in disk
     THEN LET target == run.target \cup SameStem(FileOf(v))
          IN /\ Look
             /\ IF Blocked(target) THEN Defer
                ELSE \E worked \in BOOLEAN :
                  /\ Removes(IF worked THEN "done" ELSE "failed", SameStem(FileOf(v)))
                  /\ run' = [run EXCEPT !.target = target, !.calls = @ \ {v},
                               !.cleaned = IF worked THEN @ \cup {v} ELSE @]
                  /\ UNCHANGED <<given, db, marks, entry, playing, asked, left>>
     ELSE /\ run' = [run EXCEPT !.calls = @ \ {v}]
          /\ UNCHANGED <<given, db, marks, world, playing, seen, asked, left>>

\* A version that was kept must not go with the item.
SharesItem(i) == Whole \notin run.chosen /\ ~(OnItem(i) \cap rows \subseteq run.chosen)

Unconfirmed == {i \in Item : ~(OnItem(i) \cap Targets \subseteq run.cleaned)}

ReconcileItem(i) ==
  /\ run.at = "cleanup" /\ run.calls = {} /\ i \in Unconfirmed
  /\ given.fallback /\ ~SharesItem(i)
  /\ LET files == FilesOf(OnItem(i))
         target == run.target \cup files
     IN /\ Look
        /\ IF Blocked(target) THEN Defer
           ELSE \E outcome \in Outcome :
             /\ Removes(outcome, files)
             /\ run' = IF outcome = "done"
                       THEN [run EXCEPT !.target = target,
                                        !.cleaned = @ \cup (OnItem(i) \cap Targets)]
                       ELSE [run EXCEPT !.at = "fallback"]
             /\ error' = IF outcome = "done" THEN error ELSE Marked(run.byEntry)
             /\ UNCHANGED <<given, db, deferred, entry, playing, asked, left>>

RemovalNotConfirmed ==
  /\ run.at = "cleanup" /\ run.calls = {}
  /\ \/ \E i \in Unconfirmed : ~given.fallback \/ SharesItem(i)
     \/ Targets = {}
  /\ error' = Marked(run.byEntry)
  /\ run' = [run EXCEPT !.at = "fallback"]
  /\ UNCHANGED <<given, db, deferred, world, playing, seen, asked, left>>

FinishUnmonitor ==
  /\ run.at = "cleanup" /\ run.calls = {} /\ Unconfirmed = {} /\ Targets # {}
  /\ IF Whole \in run.chosen
     THEN /\ removed' = TRUE
          /\ cands' = cands \ run.byEntry
          /\ error' = error \cap cands' /\ deferred' = deferred \cap cands'
          /\ rows' = rows
     ELSE RetireRows(run.chosen \cap Version, run.byEntry)
  /\ run' = [run EXCEPT !.at = "fallback", !.count = @ + 1]
  /\ UNCHANGED <<given, protected, world, playing, seen, asked, left>>

-----------------------------------------------------------------------------
(***************************************************************************)
(* The whole movie through the media server (_delete_movies_via_media_     *)
(* server), when no Radarr has handled it.                                 *)
(***************************************************************************)
Fallback ==
  /\ run.at = "fallback"
  /\ LET unhandled == Whole \in run.chosen /\ run.done = {}
         refused == \/ run.entries # {} /\ given.action = "unmonitor_only"
                    \/ ~given.fallback
                    \/ rows = {}
     IN /\ run' = [run EXCEPT !.at = IF unhandled /\ ~refused THEN "movie" ELSE "done",
                              !.calls = rows]
        /\ error' = IF unhandled /\ refused THEN Marked({Whole}) ELSE error
  /\ UNCHANGED <<given, db, deferred, world, playing, seen, asked, left>>

DeleteItem(i) ==
  /\ run.at = "movie" /\ OnItem(i) \cap run.calls # {}
  /\ LET files == FilesOf(OnItem(i))
         target == run.target \cup files
     IN /\ Look
        /\ IF Blocked(target) THEN Defer
           ELSE \E outcome \in Outcome :
             /\ Removes(outcome, files)
             /\ run' = [run EXCEPT !.target = target, !.calls = @ \ OnItem(i),
                          !.at = IF outcome = "done" THEN @ ELSE "done"]
             /\ error' = IF outcome = "done" THEN error ELSE Marked({Whole})
             /\ UNCHANGED <<given, db, deferred, entry, playing, asked, left>>

FinishMovie ==
  /\ run.at = "movie" /\ run.calls = {}
  /\ removed' = TRUE
  /\ cands' = cands \ {Whole}
  /\ error' = error \cap cands' /\ deferred' = deferred \cap cands'
  /\ run' = [run EXCEPT !.at = "done", !.count = @ + 1]
  /\ UNCHANGED <<given, rows, protected, world, playing, seen, asked, left>>

\* _diagnose_unhandled_delete_failures: only when the count says some failed.
\* A seeded fault: only when nothing was deleted at all.
NoneDeleted == run.count = 0

SomeFailed == Cardinality(run.ids) > run.count

Diagnose ==
  /\ run.at = "done"
  /\ error' = IF SomeFailed THEN Marked(run.ids) ELSE error
  /\ run' = Idle
  /\ UNCHANGED <<given, db, deferred, world, playing, seen, asked, left>>

\* The process is killed, or a commit outside any handler fails.
Die ==
  /\ run # Idle
  /\ run' = Idle
  /\ UNCHANGED <<given, db, marks, world, playing, seen, asked, left>>

-----------------------------------------------------------------------------
Step ==
  \/ Route \/ FinishFiles \/ FinishVersion \/ FinishNative
  \/ \E r \in Radarr : DeleteMovieFiles(r) \/ DeleteMovies(r) \/ UnmonitorMovies(r)
  \/ \E v \in Version :
       SkipVersion(v) \/ PickVersion(v) \/ DeleteMovieVersion(v) \/ CleanUp(v)
  \/ \E i \in Item : ReconcileItem(i) \/ DeleteItem(i)
  \/ FinishDelete \/ Unmonitored \/ RemovalNotConfirmed \/ FinishUnmonitor
  \/ Fallback \/ FinishMovie \/ Diagnose

Next ==
  \/ \E ids \in (SUBSET cands) \ {{}} : Attempt(ids)
  \/ Step \/ Play \/ Die

Spec == Init /\ [][Next]_vars

-----------------------------------------------------------------------------
\* Emby deletes the twin's item whole, and the code asks about the item of the
\* selected version only: the twin has an item of its own, or the same one.
TwinsAlone ==
  given.server = "emby" =>
    \A v, w \in Version : FileOf(v) = FileOf(w) =>
      \/ given.item[v] = given.item[w]
      \/ \A x \in OnItem(given.item[w]) : FileOf(x) = FileOf(w)

(***************************************************************************)
(* Whatever routes a group takes and whatever fails on them, no file of a  *)
(* version nobody asked to delete goes, nor one protected through its twin *)
(* in another library.  Two files of one stem in one folder are one file   *)
(* to sibling_cleanup, and are left out, as is an Emby item that a twin    *)
(* shares with another version.                                            *)
(***************************************************************************)
OnlyAskedFilesGo ==
  TwinsAlone => \A v \in Version : FileOf(v) \notin disk =>
    \/ Whole \in asked
    \/ \E c \in asked : given.stem[FileOf(c)] = given.stem[FileOf(v)]
                        /\ FileOf(c) \notin FilesOf(protected)

\* The rows of one file go together: a deletion leaves no record that names a
\* file it removed with another record.
TwinsGoTogether ==
  ~Unmonitors => \A v, w \in Version : FileOf(v) = FileOf(w) => (v \in rows <=> w \in rows)

(***************************************************************************)
(* The rows of one file go together; and a row is retired, or the movie    *)
(* tombstoned, only when the files are gone - on every route that deletes  *)
(* files one by one.  Radarr's deletion of a whole entry is trusted to     *)
(* cover the selected versions.                                            *)
(***************************************************************************)
RowsGoWithTheirFiles ==
  /\ TwinsGoTogether
  /\ (\A r \in Radarr : entry[r] # "deleted") =>
       /\ \A v \in Version \ rows : FileOf(v) \notin disk
       /\ removed => disk \cap FilesOf(Version) = {}

(***************************************************************************)
(* No step removes a file that the guard's last snapshot shows in a player,*)
(* though routes remove more than the candidates name: folders, items of   *)
(* several versions, twins and files of one stem.                          *)
(***************************************************************************)
PlayingFileIsKept ==
  [][Guarded => (disk \ disk') \cap seen' = {}]_vars

(***************************************************************************)
(* An attempt that comes to its end leaves no candidate without a word: it *)
(* is gone, or carries an error, though the explanation is only asked for  *)
(* when the counts of four routes say that something failed.               *)
(***************************************************************************)
EveryCandidateIsAnswered ==
  [][Diagnose => run.ids \cap cands' \subseteq error']_vars
=============================================================================
