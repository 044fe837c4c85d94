------------------------------ MODULE MediaSync ------------------------------
(***************************************************************************)
(* The movie library and what hangs on its files (tasks/sync.py): the sync *)
(* that brings the rows of movies and movie_versions into line with the    *)
(* main server's inventory, the guard that keeps a truncated answer from   *)
(* emptying the library, and the resync after a change of the main server, *)
(* which deletes every version row and must bring candidates and deletion  *)
(* requests back to their own files, however often it fails.               *)
(*                                                                         *)
(* Sync, resync and scan exclude one another (JobPolicy!Resources).  A     *)
(* sync commits the titles one batch after another - here title by title,  *)
(* as a commit may come before any of them - then the soft deletions, then *)
(* the restored scopes, and may fail between any two commits.  The routes  *)
(* file and withdraw requests and drop candidates at any time.             *)
(***************************************************************************)
EXTENDS Integers, FiniteSets, FiniteSetsExt

CONSTANTS
  Title,
  File,
  TitleOf,       \* the title a file belongs to
  ContentOf,     \* its codec, size and resolution: _make_fp
  Pathless,      \* files the server reports without a path
  CandidateId,   \* primary keys of reclaim_candidates
  RequestId,     \* and of delete_requests
  MinLibrary,    \* MIN_LIBRARY_FOR_RATIO_CHECK
  MaxEvents      \* bound on changes of the server's inventory, truncated and
                 \* failed reads, failures of a task, resyncs and requests

ASSUME MediaAssumption ==
  /\ TitleOf \in [File -> Title]
  /\ Pathless \subseteq File
  /\ MinLibrary \in Nat /\ MaxEvents \in Nat
  /\ IsFiniteSet(File)

VARIABLES
  listed,      \* the files on the main server
  title,       \* movies: none, live, or with removed_at set
  version,     \* movie_versions: the file of each row
  cand,        \* reclaim_candidates: movie_id and movie_version_id
  request,     \* delete_requests: status, movie_version_id and target_scope
  candFile,    \* candidate_resync_identities: title and path
  reqFile,     \* delete_request_resync_identities
  proposal,    \* sync_deletion_proposals of the main server
  task,        \* the sync or resync being run
  home,        \* history: the file each candidate is for,
  late,        \* history: requests a resync detached without having read
  missing,     \* history: titles missing when the guard was last asked
  events       \* those that happened

rowVars == <<title, version, cand, request, candFile, reqFile>>
history == <<home, late, missing>>
vars == <<listed, rowVars, proposal, task, history, events>>

Null == 0
Idle == [at |-> "idle"]
NoProposal == {}
Movie(i) == TitleOf[version[i]]
VersionsOf(t) == {i \in DOMAIN version : Movie(i) = t}
Known == {t \in Title : title[t] # "absent"}
Live == {t \in Title : title[t] = "live"}
Attached == {c \in DOMAIN cand : cand[c].version # Null}
Put(f, key, value) ==
  [x \in DOMAIN f \cup {key} |-> IF x = key THEN value ELSE f[x]]
Without(f, S) == [x \in DOMAIN f \ S |-> f[x]]
Empty == [x \in {} |-> Null]

TypeOK ==
  /\ listed \subseteq File
  /\ title \in [Title -> {"absent", "live", "removed"}]
  /\ \A i \in DOMAIN version : i \in Nat \ {Null} /\ version[i] \in File
  /\ DOMAIN cand \subseteq CandidateId
  /\ \A c \in Attached : cand[c].version \in DOMAIN version
  /\ DOMAIN request \subseteq RequestId
  /\ \A r \in DOMAIN request :
       request[r].version # Null => request[r].version \in DOMAIN version
  /\ DOMAIN candFile \subseteq DOMAIN cand
  /\ DOMAIN reqFile \subseteq DOMAIN request
  /\ proposal \subseteq Title

Init ==
  /\ listed = File
  /\ title = [t \in Title |-> "absent"]
  /\ version = Empty /\ cand = Empty /\ request = Empty
  /\ candFile = Empty /\ reqFile = Empty
  /\ proposal = NoProposal
  /\ task = Idle
  /\ home = [c \in CandidateId |-> Null]
  /\ late = {} /\ missing = {}
  /\ events = 0

Event == events < MaxEvents /\ events' = events + 1

-----------------------------------------------------------------------------
(***************************************************************************)
(* The world: files come and go on the server, and the routes file and     *)
(* withdraw requests and drop candidates.  Protections hang on versions    *)
(* too; nothing here decides by them.                                      *)
(***************************************************************************)
InventoryChanges ==
  /\ Event
  /\ \E f \in File : listed' = IF f \in listed THEN listed \ {f} ELSE listed \cup {f}
  /\ UNCHANGED <<rowVars, proposal, task, history>>

\* Rows older than the snapshot have no target_scope.
FileRequest(r) ==
  /\ Event
  /\ r \notin DOMAIN request
  /\ \E i \in DOMAIN version, scope \in {"movie_version", "none"} :
       /\ title[Movie(i)] = "live"
       /\ request' = Put(request, r, [title |-> Movie(i), version |-> i, scope |-> scope])
  /\ UNCHANGED <<listed, title, version, cand, candFile, reqFile,
                 proposal, task, history>>

WithdrawRequest(r) ==
  /\ r \in DOMAIN request
  /\ request' = Without(request, {r})
  /\ reqFile' = Without(reqFile, {r})
  /\ late' = late \ {r}
  /\ UNCHANGED <<listed, title, version, cand, candFile, proposal,
                 task, home, missing, events>>

\* A protection, a review or a manual deletion takes the candidate away, and
\* the foreign key its identity.
DropCandidate(c) ==
  /\ Event
  /\ c \in DOMAIN cand
  /\ cand' = Without(cand, {c})
  /\ candFile' = Without(candFile, {c})
  /\ UNCHANGED <<listed, title, version, request, reqFile, proposal,
                 task, history>>

-----------------------------------------------------------------------------
(***************************************************************************)
(* The scan, in one transaction (_sync_movie_version_candidates).  Titles  *)
(* that wait for their files are left alone; a candidate row whose rules   *)
(* no longer match, or without a version, goes.                            *)
(***************************************************************************)
Waiting == {candFile[c].title : c \in DOMAIN candFile}

Scan ==
  /\ task = Idle
  /\ \E matched \in SUBSET {i \in DOMAIN version : title[Movie(i)] = "live"} :
       LET records == {i \in matched : Movie(i) \notin Waiting}
           kept == {c \in DOMAIN cand : c \in DOMAIN candFile \/ cand[c].version \in records}
           new == {i \in records : \A c \in kept : cand[c].version # i}
       IN \E id \in [new -> CandidateId \ kept] :
            /\ \A i, k \in new : id[i] = id[k] => i = k
            /\ cand' = [c \in kept \cup {id[i] : i \in new} |->
                 IF c \in kept THEN cand[c]
                 ELSE LET i == CHOOSE i \in new : id[i] = c
                      IN [title |-> Movie(i), version |-> i]]
            /\ home' = [c \in CandidateId |->
                 IF \E i \in new : id[i] = c
                 THEN version[CHOOSE i \in new : id[i] = c] ELSE home[c]]
  /\ UNCHANGED <<listed, title, version, request, candFile, reqFile,
                 proposal, task, late, missing, events>>

-----------------------------------------------------------------------------
(***************************************************************************)
(* Detaching (resync_media): the identities are read first and written, in *)
(* one transaction, with everything that gives up its version row.         *)
(***************************************************************************)
StartResync ==
  /\ task = Idle
  /\ Event
  /\ task' = [at |-> "detaching",
              cands |-> {c \in Attached : version[cand[c].version] \notin Pathless},
              reqs |-> {r \in DOMAIN request :
                          /\ request[r].version # Null
                          /\ version[request[r].version] \notin Pathless}]
  /\ UNCHANGED <<listed, rowVars, proposal, history>>

Identity(row) == [title |-> row.title, file |-> version[row.version]]

Merged(identities, rows, read) ==
  [x \in DOMAIN identities \cup read |->
     IF x \in read THEN Identity(rows[x]) ELSE identities[x]]

\* A seeded fault: the version goes, and with it the scope of older rows.
DetachedAsTheyAre(rows) ==
  [r \in DOMAIN rows |-> [rows[r] EXCEPT !.version = Null]]

Detached(rows) ==
  [r \in DOMAIN rows |->
     IF rows[r].version = Null THEN rows[r]
     ELSE [rows[r] EXCEPT !.version = Null, !.scope = "movie_version"]]

\* What a version candidate is while it waits: no target at all.
NoTarget == [title |-> Null, version |-> Null]

DetachAll ==
  /\ task.at = "detaching"
  /\ task.cands \subseteq DOMAIN cand   \* else the foreign key refuses, and
  /\ task.reqs \subseteq DOMAIN request \* the attempt fails
  /\ candFile' = Merged(candFile, cand, task.cands)
  /\ reqFile' = Merged(reqFile, request, task.reqs)
  /\ request' = Detached(request)
  /\ cand' = [c \in DOMAIN cand \ (Attached \ task.cands) |->
                IF c \in Attached THEN NoTarget ELSE cand[c]]
  /\ version' = Empty
  /\ late' = late \cup {r \in DOMAIN request \ task.reqs : request[r].version # Null}
  /\ task' = [at |-> "starting", resync |-> TRUE]
  /\ UNCHANGED <<listed, title, proposal, home, missing, events>>

-----------------------------------------------------------------------------
(***************************************************************************)
(* sync_movies.  A read that fails, or an empty one nobody confirms, ends  *)
(* the run; titles are then brought into line one after another.           *)
(***************************************************************************)
StartSync ==
  /\ task = Idle
  /\ task' = [at |-> "starting", resync |-> FALSE]
  /\ UNCHANGED <<listed, rowVars, proposal, history, events>>

GatherMovies ==
  /\ task.at = "starting"
  /\ \E inventory \in SUBSET listed :
       /\ IF inventory = listed THEN events' = events ELSE Event
       /\ task' = IF inventory = {} /\ task.resync THEN Idle
                  ELSE [at |-> IF inventory = {} THEN "emptied" ELSE "upserting",
                        resync |-> task.resync, inventory |-> inventory,
                        known |-> Known, todo |-> {TitleOf[f] : f \in inventory}]
  /\ UNCHANGED <<listed, rowVars, proposal, history>>

InventoryUnavailable ==
  /\ task.at = "starting"
  /\ Event
  /\ task' = Idle
  /\ UNCHANGED <<listed, rowVars, proposal, history>>

\* _upsert_movie_versions: rows found by media id stay; one row that is gone and
\* one new file of the same content, neither of them ambiguous, are a rename;
\* the other rows that are gone are stale.
Gone(t, files) == {i \in VersionsOf(t) : version[i] \notin files}
New(t, files) == files \ {version[i] : i \in VersionsOf(t)}
Alike(f, g) == ContentOf[f] = ContentOf[g]

Renamed(t, files) ==
  {p \in Gone(t, files) \X New(t, files) :
     /\ Alike(version[p[1]], p[2])
     /\ \A i \in Gone(t, files) : Alike(version[i], p[2]) => i = p[1]
     /\ \A f \in New(t, files) : Alike(f, p[2]) => f = p[2]}

Rename(pairs, i) ==
  IF \E p \in pairs : p[1] = i THEN (CHOOSE p \in pairs : p[1] = i)[2] ELSE version[i]

\* detach_movie_version_references: a target whose version goes, goes with it.
\* A seeded fault: it stays.
WithReferences(rows, stale) == rows

WithoutReferences(rows, stale) ==
  Without(rows, {x \in DOMAIN rows : rows[x].version \in stale})

UpsertTitle(t) ==
  /\ task.at = "upserting"
  /\ t \in task.todo
  /\ LET files == {f \in task.inventory : TitleOf[f] = t}
         pairs == Renamed(t, files)
         stale == Gone(t, files) \ {p[1] : p \in pairs}
         added == New(t, files) \ {p[2] : p \in pairs}
         kept == DOMAIN version \ stale
         top == IF kept = {} THEN 0 ELSE Max(kept)
         moved == {c \in Attached : /\ home[c] \notin files
                                    /\ \E p \in pairs : p[1] = cand[c].version}
     IN /\ \E rank \in [added -> 1..Cardinality(added)] :
             /\ \A f, g \in added : rank[f] = rank[g] => f = g
             /\ version' = [i \in kept \cup {top + rank[f] : f \in added} |->
                  IF i \in kept THEN Rename(pairs, i)
                  ELSE CHOOSE f \in added : top + rank[f] = i]
        /\ cand' = WithoutReferences(cand, stale)
        /\ request' = WithoutReferences(request, stale)
        /\ candFile' = Without(candFile, DOMAIN cand \ DOMAIN cand')
        /\ reqFile' = Without(reqFile, DOMAIN request \ DOMAIN request')
        /\ home' = [c \in CandidateId |->
             IF c \in moved THEN Rename(pairs, cand[c].version) ELSE home[c]]
  /\ title' = [title EXCEPT ![t] = "live"]
  /\ task' = [task EXCEPT !.todo = @ \ {t}]
  /\ UNCHANGED <<listed, proposal, late, missing, events>>

-----------------------------------------------------------------------------
(***************************************************************************)
(* The soft deletion and its guard.  More than half of a library that is   *)
(* not small is removed only if the previous run that asked proposed the   *)
(* very same rows.                                                         *)
(***************************************************************************)
Matched == {TitleOf[f] : f \in task.inventory} \cap task.known
Unmatched == {t \in task.known \ Matched : title[t] = "live"}

SoftDeleteGuardTripped(rows) ==
  LET live == Cardinality({t \in task.known : title[t] = "live"})
  IN live >= MinLibrary /\ 2 * Cardinality(rows) > live

Blocked(rows) == SoftDeleteGuardTripped(rows) /\ proposal # rows

\* A seeded fault: a run that has nothing to confirm keeps the old proposal.
KeptProposal(rows) == IF Blocked(rows) THEN rows ELSE proposal

Proposal(rows) == IF Blocked(rows) THEN rows ELSE NoProposal

ApplySoftDeletes(rows) ==
  LET dropped == {c \in DOMAIN cand : cand[c].title \in rows}
  IN /\ title' = [t \in Title |-> IF t \in rows THEN "removed" ELSE title[t]]
     /\ cand' = Without(cand, dropped)
     /\ candFile' = Without(candFile, dropped)

SoftDelete(rows) ==
  /\ proposal' = Proposal(rows)
  /\ ApplySoftDeletes(IF Blocked(rows) THEN {} ELSE rows)
  /\ missing' = rows

(***************************************************************************)
(* _restore_pending_movie_scopes: the titles the run has brought into      *)
(* line, and those that are removed.                                       *)
(***************************************************************************)
Candidates(S, rows) ==
  {i \in DOMAIN version : Movie(i) \in S /\ rows[Movie(i)] = "live" /\ version[i] \notin Pathless}

\* A seeded fault: the path is not compared.
RebuiltTitle(identity, rows) == Candidates({identity.title}, rows)

Rebuilt(identity, rows) ==
  {i \in Candidates({identity.title}, rows) : version[i] = identity.file}

\* A seeded fault: a candidate whose file is gone goes on waiting.
DueOnceFound(S, ids, rows) ==
  {c \in DOMAIN ids : ids[c].title \in S /\ Rebuilt(ids[c], rows) # {}}

Due(S, ids, rows) == {c \in DOMAIN ids : ids[c].title \in S}

Restored(S, rows, cands, ids) ==
  LET due == Due(S, ids, rows)
      found == {c \in due : Rebuilt(ids[c], rows) # {}}
  IN /\ cand' = [c \in DOMAIN cands \ (due \ found) |->
          IF c \in found
          THEN [title |-> ids[c].title, version |-> Min(Rebuilt(ids[c], rows))]
          ELSE cands[c]]
     /\ candFile' = Without(ids, due)
     /\ LET back == {r \in DOMAIN reqFile : /\ reqFile[r].title \in S
                                            /\ Rebuilt(reqFile[r], rows) # {}}
        IN /\ request' = [r \in DOMAIN request |->
                IF r \in back
                THEN [request[r] EXCEPT !.version = Min(Rebuilt(reqFile[r], rows))]
                ELSE request[r]]
           /\ reqFile' = Without(reqFile, back)

\* The soft deletions are committed before the scopes are restored.
FinishTitles ==
  /\ task.at = "upserting"
  /\ task.todo = {}
  /\ IF task.resync THEN UNCHANGED <<title, cand, candFile, proposal, missing>>
                    ELSE SoftDelete(Unmatched)
  /\ task' = [task EXCEPT !.at = "restoring"]
  /\ UNCHANGED <<listed, version, request, reqFile, home, late, events>>

RestoreScopes ==
  /\ task.at = "restoring"
  /\ Restored(Matched \cup {t \in task.known : title[t] = "removed"},
              title, cand, candFile)
  /\ task' = Idle
  /\ UNCHANGED <<listed, title, version, proposal, history, events>>

\* _reconcile_empty_inventory: both in one transaction.
ReconcileEmptyInventory ==
  /\ task.at = "emptied"
  /\ LET rows == Live
         after == IF Blocked(rows) THEN title
                  ELSE [t \in Title |-> IF t \in rows THEN "removed" ELSE title[t]]
         dropped == IF Blocked(rows) THEN {}
                    ELSE {c \in DOMAIN cand : cand[c].title \in rows}
     IN /\ proposal' = Proposal(rows)
        /\ missing' = rows
        /\ title' = after
        /\ Restored({t \in Title : after[t] = "removed"}, after,
                    Without(cand, dropped), Without(candFile, dropped))
  /\ task' = Idle
  /\ UNCHANGED <<listed, version, home, late, events>>

\* A provider, TMDb, Radarr or the database raises, or the child is killed.
TaskFails ==
  /\ task # Idle
  /\ Event
  /\ task' = Idle
  /\ UNCHANGED <<listed, rowVars, proposal, history>>

\* The commit of a detach that the foreign key refuses is a failure of its own.
DetachRefused ==
  /\ task.at = "detaching"
  /\ ~(task.cands \subseteq DOMAIN cand /\ task.reqs \subseteq DOMAIN request)
  /\ task' = Idle
  /\ UNCHANGED <<listed, rowVars, proposal, history, events>>

-----------------------------------------------------------------------------
SyncStep ==
  \/ GatherMovies \/ \E t \in Title : UpsertTitle(t)
  \/ FinishTitles \/ RestoreScopes \/ ReconcileEmptyInventory
  \/ DetachAll \/ DetachRefused

Routes ==
  \/ \E r \in RequestId : FileRequest(r) \/ WithdrawRequest(r)
  \/ \E c \in CandidateId : DropCandidate(c)

Next ==
  \/ StartSync \/ StartResync \/ SyncStep \/ Scan \/ Routes
  \/ InventoryChanges \/ InventoryUnavailable \/ TaskFails

Spec == Init /\ [][Next]_vars

(***************************************************************************)
(* The schedule starts a sync again and again, and a run that nothing      *)
(* fails goes on; failures are bounded by MaxEvents.                       *)
(***************************************************************************)
FairSpec == Spec /\ WF_vars(SyncStep) /\ SF_vars(StartSync)

-----------------------------------------------------------------------------
(***************************************************************************)
(* A candidate or a request for one file never becomes one for the whole   *)
(* movie, which would delete every version of it: without its version a    *)
(* candidate has no target and an identity to come back by, and a request  *)
(* keeps the scope it was filed for (resync_media).                        *)
(***************************************************************************)
ScopeNeverBroadens ==
  /\ \A c \in DOMAIN cand : cand[c].version = Null =>
       cand[c].title = Null /\ c \in DOMAIN candFile
  /\ \A r \in DOMAIN request : request[r].version = Null =>
       /\ request[r].scope = "movie_version"
       /\ r \in DOMAIN reqFile \cup late

\* One file has at most one candidate: the scan gives none to a title that
\* still waits for its own to be restored.
OneCandidatePerFile ==
  \A c, d \in DOMAIN cand : c # d => home[c] # home[d]

(***************************************************************************)
(* A candidate is for the file its rules selected, and alone for it,       *)
(* through resyncs that give version rows new and recycled ids, renames,   *)
(* failed attempts and libraries that change in between: its version row,  *)
(* or while it waits its identity, is that file's.                         *)
(***************************************************************************)
CandidateKeepsItsFile ==
  /\ OneCandidatePerFile
  /\ \A c \in DOMAIN cand :
       IF c \in Attached THEN version[cand[c].version] = home[c] /\ c \notin DOMAIN candFile
       ELSE candFile[c].file = home[c]

(***************************************************************************)
(* One truncated answer never empties the library: a step that removes     *)
(* more than half of the live titles the run found, and found not few of,  *)
(* removes only titles that were missing when the guard was last asked,    *)
(* too.  (Titles the run has added itself do not count: with them a        *)
(* library may be past MinLibrary that the guard still takes for small.)   *)
(***************************************************************************)
LargeRemovalIsConfirmed ==
  [][LET removed == {t \in Live : title'[t] = "removed"}
         found == Live \cap task.known
     IN removed # {} /\ Cardinality(found) >= MinLibrary
          /\ 2 * Cardinality(removed) > Cardinality(found)
        => removed = missing]_vars

(***************************************************************************)
(* Whatever failed on the way, a detached candidate is in the end given    *)
(* back its file or dropped, so that its title is scanned again.           *)
(***************************************************************************)
WaitingEnds == \A c \in CandidateId : c \in DOMAIN candFile ~> c \notin DOMAIN candFile
=============================================================================
