--------------------------- MODULE DeleteRequests ---------------------------
(***************************************************************************)
(* Deletion requests, from the reader who asks to the file that goes:      *)
(* api/routes/delete_requests.py, the protection routes that drop a        *)
(* candidate (api/routes/requests.py), POST /candidates/delete             *)
(* (api/routes/media.py) and the file operation that executes them         *)
(* (jobs/candidate_file_ops.py).                                           *)
(*                                                                         *)
(* Every handler reads, awaits and commits, so two of them interleave;     *)
(* only the retry and the file operation hold candidate_workflow_lock.     *)
(* The command queue is what JobQueue shows of it while its table stays    *)
(* within the rows house keeping leaves: one file operation at a time, in  *)
(* the order they were queued.  The body of one deletion is the choice of  *)
(* its outcome; requests are for whole titles.  A candidate gets the id    *)
(* SQLite gives a row: one more than the greatest id in the table, so the  *)
(* id of a candidate that is gone may come back for another title.         *)
(***************************************************************************)
EXTENDS Integers, Sequences, FiniteSets

CONSTANTS
  Request,           \* each by a user of its own
  Title,
  TitleOf,           \* the title a request is about
  Handler,           \* requests to the server that may be in flight at once
  MaxCandidates,     \* bounds on the candidates,
  MaxDeletes,        \* the manual deletions,
  MaxRetries,        \* the retries,
  MaxProtections,    \* the protections asked for,
  MaxCrashes,        \* the deaths of the server
  MaxEnqueueErrors   \* and the enqueues that raise

ASSUME TitleAssumption == TitleOf \in [Request -> Title]

NoRequest == "none"
ASSUME RequestAssumption == NoRequest \notin Request
ASSUME HandlerAssumption == Handler \cap {"free", "job"} = {}
ASSUME BoundsAssumption == MaxCandidates \in Nat

VARIABLES
  request,    \* delete_requests: status, executed_at, execution_error, deferral
  cands,      \* reclaim_candidates by id, with the rows that are gone
  file,       \* titles whose files are there (removed_at is null)
  protections,  \* titles with an active protection
  asked,      \* pending protection requests: the candidate each is linked to
  jobs,       \* CANDIDATE_FILE_OP rows by id
  op,         \* the file operation being executed
  handler,    \* the handlers in flight
  lock,       \* the holder of candidate_workflow_lock
  lost,       \* history: approved requests whose enqueue or job was cut short
  twice,      \* history: requests that were decided more than once
  reused,     \* history: requests whose work named an id when it was given again
  crossed,    \* history: requests retried before their approval was queued
  budget

history == <<lost, twice, reused, crossed>>
reviewVars == <<request, cands, history>>
mediaVars == <<file, protections, asked>>
requestVars == <<reviewVars, mediaVars, jobs, op, handler, lock, budget>>

\* "absent": not created yet; "gone": the row was removed by its owner.
Statuses == {"absent", "gone", "PENDING", "APPROVED", "DENIED"}
NoOp == [at |-> "idle", job |-> 0, linked |-> NoRequest, result |-> "none"]
NoHandler == [kind |-> "none", r |-> NoRequest, at |-> "idle", c |-> 0]
CandidateId == 1..MaxCandidates

RequestRow == [status: Statuses, executed: BOOLEAN, error: BOOLEAN,
               deferred: BOOLEAN]
CandidateRow == [title: Title, r: Request \cup {NoRequest}, exists: BOOLEAN,
                 deferred: BOOLEAN]
JobRow == [c: CandidateId, r: Request \cup {NoRequest},
           status: {"PENDING", "RUNNING", "COMPLETED", "FAILED"}]
HandlerRow ==
  {NoHandler} \cup
  [kind: {"approve", "deny", "cancel"}, r: Request, at: {"read"}, c: {0}] \cup
  [kind: {"approve"}, r: Request, at: {"queue"}, c: CandidateId] \cup
  [kind: {"retry"}, r: Request, at: {"queue", "clear"}, c: CandidateId]
OpRow == [at: {"idle", "claimed", "locked", "deleting", "removed", "over", "done"},
          job: Nat, linked: Request \cup {NoRequest},
          result: {"none", "succeeded", "deferred", "failed", "raised"}]

Locking(h) == handler[h].kind = "retry"

\* The job that runs is the operation's; the retry that works under the lock
\* holds it, or the operation does from its first look to its last commit.
Custody ==
  /\ \A j \in DOMAIN jobs : jobs[j].status = "RUNNING" <=> op.at # "idle" /\ op.job = j
  /\ op.at # "idle" => op.job \in DOMAIN jobs
  /\ \A h \in Handler : lock = h <=> Locking(h)
  /\ lock = "job" <=> op.at \in {"locked", "deleting", "removed", "over"}
  /\ lock \in Handler \cup {"free", "job"}

RequestsTypeOK ==
  /\ request \in [Request -> RequestRow]
  /\ cands \in Seq(CandidateRow) /\ Len(cands) <= MaxCandidates
  /\ file \subseteq Title /\ protections \subseteq Title
  /\ asked \subseteq [title: Title, c: 0..MaxCandidates]
  /\ jobs \in Seq(JobRow)
  /\ handler \in [Handler -> HandlerRow]
  /\ op \in OpRow
  /\ lost \cup twice \cup reused \cup crossed \subseteq Request
  /\ Custody

Blank(status) ==
  [status |-> status, executed |-> FALSE, error |-> FALSE, deferred |-> FALSE]

RequestsInit ==
  /\ request = [r \in Request |-> Blank("absent")]
  /\ cands = <<>>
  /\ file = Title
  /\ protections = {}
  /\ asked = {}
  /\ jobs = <<>>
  /\ op = NoOp
  /\ handler = [h \in Handler |-> NoHandler]
  /\ lock = "free"
  /\ lost = {}
  /\ twice = {} /\ reused = {} /\ crossed = {}
  /\ budget = [kind \in {"crashes", "errors", "protections", "deletes",
                         "retries"} |-> 0]

HasRow(r) == r \in Request /\ request[r].status \notin {"absent", "gone"}
Exists(c) == c \in DOMAIN cands /\ cands[c].exists
CandidatesOf(t) == {c \in DOMAIN cands : Exists(c) /\ cands[c].title = t}
Greatest(S) == CHOOSE c \in S : \A d \in S : d <= c
NextId ==
  LET there == {c \in DOMAIN cands : Exists(c)}
  IN  IF there = {} THEN 1 ELSE Greatest(there) + 1

NewCandidate(t, r) ==
  LET row == [title |-> t, r |-> r, exists |-> TRUE, deferred |-> FALSE]
  IN  IF NextId \in DOMAIN cands THEN [cands EXCEPT ![NextId] = row]
                                 ELSE Append(cands, row)

\* Removing candidates clears the links of protection requests (SET NULL).
DropCandidates(S, asks) ==
  /\ cands' = [c \in DOMAIN cands |->
                 IF c \in S
                 THEN [cands[c] EXCEPT !.exists = FALSE, !.r = NoRequest,
                                       !.deferred = FALSE]
                 ELSE cands[c]]
  /\ asked' = {IF ask.c \in S THEN [ask EXCEPT !.c = 0] ELSE ask : ask \in asks}
Active(j) == jobs[j].status \in {"PENDING", "RUNNING"}

\* The requests that a job, a handler or the operation under way pursues through
\* candidate c.  When c is given to a new candidate, it is theirs no more.
AtFiles == op.at \in {"deleting", "removed", "over"}
Pursued(c) ==
  {jobs[j].r : j \in {i \in DOMAIN jobs : Active(i) /\ jobs[i].c = c}}
    \cup {handler[h].r : h \in {g \in Handler : handler[g].at = "queue"
                                              /\ handler[g].c = c}}
    \cup (IF AtFiles /\ jobs[op.job].c = c THEN {op.linked} ELSE {})
GiveOut(c) == reused' = reused \cup (Pursued(c) \ {NoRequest})

Spend(kind, bound) ==
  /\ budget[kind] < bound
  /\ budget' = [budget EXCEPT ![kind] = @ + 1]

-----------------------------------------------------------------------------
(***************************************************************************)
(* Candidates, protections and the manual deletion.                        *)
(***************************************************************************)
\* create_delete_request.
CreateDeleteRequest(r) ==
  /\ request[r].status = "absent"
  /\ TitleOf[r] \in file \ protections
  /\ request' = [request EXCEPT ![r].status = "PENDING"]
  /\ UNCHANGED <<cands, history, mediaVars, jobs, op, handler, lock, budget>>

QueueFileOp(c, r) ==
  jobs' = Append(jobs, [c |-> c, r |-> r, status |-> "PENDING"])

\* delete_candidates: the administrator deletes a candidate from the list.
DeleteCandidate(c) ==
  /\ Exists(c)
  /\ QueueFileOp(c, NoRequest)
  /\ Spend("deletes", MaxDeletes)
  /\ UNCHANGED <<reviewVars, mediaVars, op, handler, lock>>

\* scan_cleanup_candidates adds and drops the candidates of rules, never those of
\* a request; the queue keeps it from running beside a file operation.
ScanAdds(t) ==
  /\ op.at = "idle"
  /\ t \in file \ protections
  /\ \A c \in CandidatesOf(t) : cands[c].r # NoRequest
  /\ NextId <= MaxCandidates
  /\ cands' = NewCandidate(t, NoRequest)
  /\ GiveOut(NextId)
  /\ UNCHANGED <<request, lost, twice, crossed, mediaVars, jobs, op, handler, lock,
                 budget>>

ScanDrops(c) ==
  /\ op.at = "idle"
  /\ Exists(c) /\ cands[c].r = NoRequest
  /\ DropCandidates({c}, asked)
  /\ UNCHANGED <<request, history, file, protections, jobs, op, handler, lock,
                 budget>>

\* create_protection_request without the permission to approve itself.
RequestProtection(t) ==
  /\ t \in file \ protections
  /\ Cardinality(CandidatesOf(t)) <= 1
  /\ Spend("protections", MaxProtections)
  /\ asked' = asked \cup
       {[title |-> t,
         c |-> IF CandidatesOf(t) = {} THEN 0
               ELSE CHOOSE c \in CandidatesOf(t) : TRUE]}
  /\ UNCHANGED <<reviewVars, file, protections, jobs, op, handler, lock>>

\* approve_request: the protection and, with it, the candidate it was linked to.
ApproveProtection(ask) ==
  /\ ask \in asked
  /\ ask.title \in file
  /\ protections' = protections \cup {ask.title}
  /\ DropCandidates({ask.c}, asked \ {ask})
  /\ UNCHANGED <<request, history, file, jobs, op, handler, lock, budget>>

\* create_protection_request by a user who approves itself; a second candidate of the title
\* makes scalar_one_or_none raise.
AutoApproveProtection(t) ==
  /\ t \in file \ protections
  /\ Cardinality(CandidatesOf(t)) <= 1
  /\ Spend("protections", MaxProtections)
  /\ protections' = protections \cup {t}
  /\ DropCandidates(CandidatesOf(t), asked)
  /\ UNCHANGED <<request, history, file, jobs, op, handler, lock>>

\* delete_protection_entry, or the protection expires.
EndProtection(t) ==
  /\ t \in protections
  /\ protections' = protections \ {t}
  /\ UNCHANGED <<reviewVars, file, asked, jobs, op, handler, lock, budget>>

-----------------------------------------------------------------------------
(***************************************************************************)
(* The review: read the request, await, commit the decision.               *)
(***************************************************************************)
Open(kind, r, place, c) == [kind |-> kind, r |-> r, at |-> place, c |-> c]
Close(h) == handler' = [handler EXCEPT ![h] = NoHandler]

Reviewable(r) == request[r].status = "PENDING"

Review(h, kind, r) ==
  /\ handler[h] = NoHandler
  /\ Reviewable(r)
  /\ handler' = [handler EXCEPT ![h] = Open(kind, r, "read", 0)]
  /\ UNCHANGED <<reviewVars, mediaVars, jobs, op, lock, budget>>

\* The handler looked at the status before it awaited; it is not looked at again.
Decide(r) ==
  twice' = IF request[r].status = "PENDING" THEN twice ELSE twice \cup {r}

\* approve_delete_request commits the decision with its candidate ...
CommitApproval(h) ==
  LET r == handler[h].r
  IN  /\ handler[h].kind = "approve" /\ handler[h].at = "read"
      /\ HasRow(r)
      /\ NextId <= MaxCandidates
      /\ request' = [request EXCEPT ![r].status = "APPROVED", ![r].error = FALSE]
      /\ cands' = NewCandidate(TitleOf[r], r)
      /\ handler' = [handler EXCEPT ![h] = Open("approve", r, "queue", NextId)]
      /\ Decide(r)
      /\ GiveOut(NextId)
      /\ UNCHANGED <<lost, crossed, mediaVars, jobs, op, lock, budget>>

\* ... and queues the file operation afterwards, which may raise.
QueueApproval(h) ==
  LET r == handler[h].r
  IN  /\ handler[h].kind = "approve" /\ handler[h].at = "queue"
      /\ \/ /\ QueueFileOp(handler[h].c, r)
            /\ UNCHANGED <<lost, budget>>
         \/ /\ Spend("errors", MaxEnqueueErrors)
            /\ lost' = lost \cup {r}
            /\ UNCHANGED jobs
      /\ Close(h)
      /\ UNCHANGED <<request, cands, twice, reused, crossed, mediaVars, op, lock>>

CommitDenial(h) ==
  LET r == handler[h].r
  IN  /\ handler[h].kind = "deny"
      /\ HasRow(r)
      /\ request' = [request EXCEPT ![r].status = "DENIED"]
      /\ Decide(r)
      /\ Close(h)
      /\ UNCHANGED <<cands, lost, reused, crossed, mediaVars, jobs, op, lock, budget>>

\* cancel_delete_request removes the row; the candidates keep no link to it.
CommitCancel(h) ==
  LET r == handler[h].r
  IN  /\ handler[h].kind = "cancel"
      /\ HasRow(r)
      /\ request' = [request EXCEPT ![r] = Blank("gone")]
      /\ cands' = [c \in DOMAIN cands |->
                     IF cands[c].r = r THEN [cands[c] EXCEPT !.r = NoRequest]
                     ELSE cands[c]]
      /\ Close(h)
      /\ UNCHANGED <<history, mediaVars, jobs, op, lock, budget>>

\* The row is gone: the UPDATE or DELETE matches nothing and the handler fails.
ReviewFails(h) ==
  /\ handler[h].kind \in {"approve", "deny", "cancel"}
  /\ handler[h].at = "read"
  /\ ~HasRow(handler[h].r)
  /\ Close(h)
  /\ UNCHANGED <<reviewVars, mediaVars, jobs, op, lock, budget>>

-----------------------------------------------------------------------------
(***************************************************************************)
(* retry_delete_request, under candidate_workflow_lock.                    *)
(***************************************************************************)
\* The checks; a cleanup operation that holds the lock is a 409.
QueuedFor(r) == \E j \in DOMAIN jobs : Active(j) /\ jobs[j].r = r

\* Seeded fault: a job of the request that is still active does not matter.
RetryableWhenDeferred(r) ==
  request[r].status = "APPROVED" /\ ~request[r].executed /\ request[r].deferred

Retryable(r) ==
  /\ request[r].status = "APPROVED"
  /\ ~request[r].executed
  /\ request[r].deferred
  /\ ~QueuedFor(r)

Blocked(t) ==
  \/ t \in protections
  \/ \E ask \in asked : ask.title = t
  \/ \E r \in Request : TitleOf[r] = t /\ request[r].status = "PENDING"

CheckRetry(h, r) ==
  /\ handler[h] = NoHandler
  /\ lock = "free"
  /\ Retryable(r)
  /\ ~Blocked(TitleOf[r])
  /\ \E c \in DOMAIN cands :
       /\ Exists(c) /\ cands[c].r = r
       /\ handler' = [handler EXCEPT ![h] = Open("retry", r, "queue", c)]
  /\ lock' = h
  /\ crossed' = IF \E g \in Handler : handler[g].r = r /\ handler[g].at = "queue"
                THEN crossed \cup {r} ELSE crossed
  /\ Spend("retries", MaxRetries)
  /\ UNCHANGED <<request, cands, lost, twice, reused, mediaVars, jobs, op>>

\* Queue first, so that an enqueue that raises leaves the deferral visible ...
QueueRetry(h) ==
  /\ handler[h].kind = "retry" /\ handler[h].at = "queue"
  /\ \/ /\ QueueFileOp(handler[h].c, handler[h].r)
        /\ handler' = [handler EXCEPT ![h].at = "clear"]
        /\ UNCHANGED <<lock, budget>>
     \/ /\ Spend("errors", MaxEnqueueErrors)
        /\ Close(h)
        /\ lock' = "free"
        /\ UNCHANGED jobs
  /\ UNCHANGED <<reviewVars, mediaVars, op>>

\* ... then clear it.
ClearDeferral(h) ==
  LET r == handler[h].r
  IN  /\ handler[h].kind = "retry" /\ handler[h].at = "clear"
      /\ request' = IF HasRow(r)
                    THEN [request EXCEPT ![r].deferred = FALSE, ![r].error = FALSE]
                    ELSE request
      /\ Close(h)
      /\ lock' = "free"
      /\ UNCHANGED <<cands, history, mediaVars, jobs, op, budget>>

-----------------------------------------------------------------------------
(***************************************************************************)
(* The file operation: run_candidate_file_op_job for one candidate.        *)
(***************************************************************************)
Over(result) == op' = [op EXCEPT !.at = "over", !.result = result]

\* The queue claims file operations one at a time, the oldest first.
ClaimFileOp ==
  /\ op.at = "idle"
  /\ \E j \in DOMAIN jobs :
       /\ jobs[j].status = "PENDING"
       /\ \A k \in 1..(j - 1) : jobs[k].status # "PENDING"
       /\ jobs' = [jobs EXCEPT ![j].status = "RUNNING"]
       /\ op' = [NoOp EXCEPT !.at = "claimed", !.job = j]
  /\ UNCHANGED <<reviewVars, mediaVars, handler, lock, budget>>

\* Seeded fault: the job does not wait for the lock.
TakeLockBlindly ==
  /\ op.at = "claimed"
  /\ lock' = "job"
  /\ op' = [op EXCEPT !.at = "locked"]
  /\ UNCHANGED <<reviewVars, mediaVars, jobs, handler, budget>>

TakeLock ==
  /\ op.at = "claimed"
  /\ lock = "free"
  /\ lock' = "job"
  /\ op' = [op EXCEPT !.at = "locked"]
  /\ UNCHANGED <<reviewVars, mediaVars, jobs, handler, budget>>

\* Load the candidate, renew its link (a foreign key) and ask for blockers.
LoadCandidate ==
  LET c == jobs[op.job].c
      r == jobs[op.job].r
      linked == IF r = NoRequest THEN cands[c].r ELSE r
  IN  /\ op.at = "locked"
      /\ \/ /\ ~Exists(c)
            /\ Over("succeeded")
            /\ UNCHANGED cands
         \/ /\ Exists(c) /\ r # NoRequest /\ ~HasRow(r)
            /\ Over("raised")
            /\ UNCHANGED cands
         \/ /\ Exists(c) /\ (r # NoRequest => HasRow(r))
            /\ cands' = [cands EXCEPT ![c].r = linked]
            /\ IF cands[c].title \in protections
               THEN Over("failed")
               ELSE op' = [op EXCEPT !.at = "deleting", !.linked = linked]
      /\ UNCHANGED <<request, history, mediaVars, jobs, handler, lock, budget>>

\* delete_specific_candidates: deferred by a playback, failed, raised, or done.
\* A candidate that is gone by now counts as done.
DeleteFiles ==
  LET c == jobs[op.job].c
      t == cands[c].title
  IN  /\ op.at = "deleting"
      /\ \/ /\ ~Exists(c)
            /\ Over("succeeded")
            /\ UNCHANGED <<file, cands>>
         \/ /\ Exists(c)
            /\ cands' = [cands EXCEPT ![c].deferred = TRUE]
            /\ Over("deferred")
            /\ UNCHANGED file
         \/ /\ Exists(c)
            /\ \E result \in {"failed", "raised"} : Over(result)
            /\ UNCHANGED <<file, cands>>
         \/ /\ Exists(c)
            /\ t \in file
            /\ file' = file \ {t}
            /\ op' = [op EXCEPT !.at = "removed"]
            /\ cands' = [cands EXCEPT ![c].deferred = FALSE]
      /\ UNCHANGED <<request, history, protections, asked, jobs, handler, lock, budget>>

\* The files are gone; the removal of the candidate is a commit of its own.
RemoveCandidate ==
  /\ op.at = "removed"
  /\ \/ Over("succeeded") /\ DropCandidates({jobs[op.job].c}, asked)
     \/ Over("failed") /\ UNCHANGED <<cands, asked>>
  /\ UNCHANGED <<request, history, file, protections, jobs, handler, lock,
                 budget>>

\* _finalize_delete_request_job for request r.
Deferred(c) == op.result = "deferred" /\ Exists(c)

\* Seeded fault: the error of an earlier attempt is kept.
OutcomeKeepingError(r, c) ==
  IF Deferred(c)
  THEN [request[r] EXCEPT !.deferred = TRUE, !.error = FALSE]
  ELSE [request[r] EXCEPT !.deferred = FALSE,
          !.executed = @ \/ op.result = "succeeded",
          !.error = @ \/ op.result # "succeeded"]

Outcome(r, c) ==
  IF Deferred(c)
  THEN [request[r] EXCEPT !.deferred = TRUE, !.error = FALSE]
  ELSE [request[r] EXCEPT !.deferred = FALSE,
          !.executed = @ \/ op.result = "succeeded",
          !.error = op.result # "succeeded"]

\* Seeded fault: an exception finalizes nothing.
FinalizedUnlessRaised ==
  IF op.result = "raised" THEN NoRequest
  ELSE IF jobs[op.job].r # NoRequest THEN jobs[op.job].r ELSE op.linked

\* The request of the payload, or else the one the candidate was linked to when
\* its files were touched.  An exception finalizes the former only.
Finalized ==
  IF jobs[op.job].r # NoRequest THEN jobs[op.job].r
  ELSE IF op.result = "raised" THEN NoRequest ELSE op.linked

FinalizeDeleteRequest ==
  LET r == Finalized
      c == jobs[op.job].c
  IN  /\ op.at = "over"
      /\ IF HasRow(r)
         THEN /\ request' = [request EXCEPT ![r] = Outcome(r, c)]
              /\ IF op.result = "succeeded" \/ Deferred(c)
                 THEN UNCHANGED <<cands, asked>>
                 ELSE DropCandidates({c}, asked)
         ELSE UNCHANGED <<request, cands, asked>>
      /\ lock' = "free"
      /\ op' = [op EXCEPT !.at = "done"]
      /\ UNCHANGED <<history, file, protections, jobs, handler, budget>>

CompleteFileOp ==
  /\ op.at = "done"
  /\ jobs' = [jobs EXCEPT ![op.job].status =
                IF op.result = "raised" THEN "FAILED" ELSE "COMPLETED"]
  /\ op' = NoOp
  /\ UNCHANGED <<reviewVars, mediaVars, handler, lock, budget>>

\* The server dies and starts again: handlers and locks are gone, and
\* reset_stale_jobs fails the running file operation without finalizing it.
CutShort ==
  {handler[h].r : h \in {g \in Handler : handler[g].kind = "approve"
                                         /\ handler[g].at = "queue"}}
    \cup {jobs[j].r : j \in {i \in DOMAIN jobs : jobs[i].status = "RUNNING"}}

Restart ==
  /\ Spend("crashes", MaxCrashes)
  /\ jobs' = [j \in DOMAIN jobs |->
                IF jobs[j].status = "RUNNING"
                THEN [jobs[j] EXCEPT !.status = "FAILED"] ELSE jobs[j]]
  /\ op' = NoOp
  /\ handler' = [h \in Handler |-> NoHandler]
  /\ lock' = "free"
  /\ lost' = lost \cup (CutShort \ {NoRequest})
  /\ UNCHANGED <<request, cands, twice, reused, crossed, mediaVars>>

-----------------------------------------------------------------------------
HandlerStep(h) ==
  \/ CommitApproval(h) \/ QueueApproval(h) \/ CommitDenial(h) \/ CommitCancel(h)
  \/ ReviewFails(h) \/ QueueRetry(h) \/ ClearDeferral(h)

FileOpStep ==
  \/ ClaimFileOp \/ TakeLock \/ LoadCandidate \/ DeleteFiles \/ RemoveCandidate
  \/ FinalizeDeleteRequest \/ CompleteFileOp

RequestsNext ==
  \/ \E r \in Request : CreateDeleteRequest(r)
  \/ \E h \in Handler, r \in Request :
       \/ \E kind \in {"approve", "deny", "cancel"} : Review(h, kind, r)
       \/ CheckRetry(h, r)
  \/ \E h \in Handler : HandlerStep(h)
  \/ \E c \in CandidateId : DeleteCandidate(c) \/ ScanDrops(c)
  \/ \E t \in Title :
       \/ ScanAdds(t)
       \/ RequestProtection(t) \/ AutoApproveProtection(t) \/ EndProtection(t)
  \/ \E ask \in asked : ApproveProtection(ask)
  \/ FileOpStep
  \/ Restart

RequestsSpec == RequestsInit /\ [][RequestsNext]_requestVars

(***************************************************************************)
(* A handler that started goes on, and the executors keep running.         *)
(***************************************************************************)
Fairness == WF_requestVars(FileOpStep) /\ \A h \in Handler : WF_requestVars(HandlerStep(h))

RequestsFairSpec == RequestsSpec /\ Fairness

-----------------------------------------------------------------------------
Resolved(r) == request[r].executed \/ request[r].error \/ request[r].deferred

(***************************************************************************)
(* A request never has two file operations waiting or running, unless two  *)
(* reviewers decided it, or it was deferred by a manual deletion and       *)
(* retried in the moment its approval was still being queued.              *)
(***************************************************************************)
OneActiveJob ==
  \A j, k \in DOMAIN jobs :
    jobs[j].r \in Request \ (twice \cup crossed) /\ jobs[j].r = jobs[k].r
        /\ Active(j) /\ Active(k)
      => j = k

(***************************************************************************)
(* An approved request is never forgotten: it is executed, failed or shown *)
(* as deferred, or a job or the handler that queues one still carries it,  *)
(* unless that was cut short; and one job carries it, whatever is          *)
(* deferred, retried or restarted: a retry that races with the job it      *)
(* queued leaves neither none nor two.                                     *)
(***************************************************************************)
ApprovedIsCarried ==
  /\ OneActiveJob
  /\ \A r \in Request :
       request[r].status = "APPROVED" =>
         \/ Resolved(r)
         \/ QueuedFor(r)
         \/ \E h \in Handler : handler[h].r = r /\ handler[h].at = "queue"
         \/ r \in lost

(***************************************************************************)
(* The outcome of a request that was decided once is one outcome:          *)
(* executed, failed or deferred, and only of a request that was approved,  *)
(* although a manual deletion of its candidate may settle it as well.  The *)
(* exception is a request whose job still names its candidate when the id  *)
(* is given to a new one: that job then works on the new candidate and     *)
(* settles the request once more.                                          *)
(***************************************************************************)
OutcomeConsistent ==
  \A r \in Request \ (twice \cup reused) :
    /\ request[r].executed => ~request[r].error /\ ~request[r].deferred
    /\ request[r].error => ~request[r].deferred
    /\ Resolved(r) => request[r].status = "APPROVED"

(***************************************************************************)
(* "Approve a delete request and queue it for background execution": an    *)
(* approved request is executed, fails or is deferred in the end, whatever *)
(* queues for the lock and drops its candidate meanwhile, unless its job   *)
(* was cut short or could not be queued.                                   *)
(***************************************************************************)
ApprovedResolves ==
  \A r \in Request :
    request[r].status = "APPROVED" ~>
      Resolved(r) \/ request[r].status # "APPROVED" \/ r \in lost
=============================================================================
