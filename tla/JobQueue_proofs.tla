--------------------------- MODULE JobQueue_proofs ---------------------------
(***************************************************************************)
(* Theorems about JobQueue, for every set of commands and workers and      *)
(* every bound.                                                            *)
(***************************************************************************)
EXTENDS JobQueue, TLAPS

-----------------------------------------------------------------------------
(***************************************************************************)
(* The two ways the table is rewritten.                                    *)
(***************************************************************************)
\* Marking rows changes nothing but their status.
LEMMA MarkedRows ==
  ASSUME jobs \in Seq(Row), NEW S, NEW status \in Status
  PROVE  /\ Marked(S, status) \in Seq(Row)
         /\ DOMAIN Marked(S, status) = DOMAIN jobs
         /\ Len(Marked(S, status)) = Len(jobs)
         /\ \A i \in DOMAIN jobs :
              Marked(S, status)[i] =
                IF i \in S THEN [jobs[i] EXCEPT !.status = status] ELSE jobs[i]
<1>1. \A i \in DOMAIN jobs : jobs[i] \in Row
  OBVIOUS
<1>2. \A i \in DOMAIN jobs : [jobs[i] EXCEPT !.status = status] \in Row
  BY <1>1 DEF Row
<1>3. Marked(S, status) \in [1..Len(jobs) -> Row]
  BY <1>1, <1>2 DEF Marked, JobId
<1>. QED
  BY <1>3 DEF Marked, JobId

\* An enqueue leaves old rows alone but for PENDING ones it cancels, and adds
\* at most one row, PENDING and never started.
LEMMA EnqueuedRows ==
  ASSUME jobs \in Seq(Row), now \in Nat,
         NEW c \in Command, EnqueueBackgroundJob(c)
  PROVE  \/ jobs' = jobs /\ Blocking(c) # {}
         \/ \E delay \in Nat :
              /\ Blocking(c) = {}
              /\ jobs' = Append(Marked(Replaced(c), "CANCELED"), NewRow(c, delay))
              /\ jobs' \in Seq(Row)
              /\ DOMAIN jobs' = DOMAIN jobs \cup {Len(jobs) + 1}
              /\ Len(jobs') = Len(jobs) + 1
              /\ jobs'[Len(jobs) + 1] = NewRow(c, delay)
              /\ \A i \in DOMAIN jobs : jobs'[i] = Marked(Replaced(c), "CANCELED")[i]
<1>1. CASE Blocking(c) # {}
  BY <1>1 DEF EnqueueBackgroundJob
<1>2. CASE Blocking(c) = {}
  <2>1. PICK delay \in Delays(c) :
          jobs' = Append(Marked(Replaced(c), "CANCELED"), NewRow(c, delay))
    BY <1>2 DEF EnqueueBackgroundJob
  <2>2. delay \in Nat
    BY DEF Delays
  <2>3. NewRow(c, delay) \in Row
    BY <2>2 DEF NewRow, Row, Status
  <2>. DEFINE m == Marked(Replaced(c), "CANCELED")
  <2>4. m \in Seq(Row) /\ Len(m) = Len(jobs) /\ DOMAIN m = DOMAIN jobs
    BY MarkedRows DEF Status
  <2>. HIDE DEF m
  <2>5. /\ Append(m, NewRow(c, delay)) \in Seq(Row)
        /\ DOMAIN Append(m, NewRow(c, delay)) = DOMAIN jobs \cup {Len(jobs) + 1}
        /\ Len(Append(m, NewRow(c, delay))) = Len(jobs) + 1
        /\ Append(m, NewRow(c, delay))[Len(jobs) + 1] = NewRow(c, delay)
        /\ \A i \in DOMAIN jobs : Append(m, NewRow(c, delay))[i] = m[i]
    BY <2>3, <2>4
  <2>. QED
    BY <1>2, <2>1, <2>2, <2>5 DEF m
<1>. QED
  BY <1>1, <1>2

\* The row a claim takes becomes RUNNING; every other row stays as it is.
LEMMA ClaimedRows ==
  ASSUME TypeOK, NEW w \in Worker, job[w] \in DOMAIN jobs
  PROVE  /\ Claimed(w) \in Seq(Row)
         /\ DOMAIN Claimed(w) = DOMAIN jobs
         /\ Len(Claimed(w)) = Len(jobs)
         /\ \A i \in DOMAIN jobs : i # job[w] => Claimed(w)[i] = jobs[i]
         /\ Claimed(w)[job[w]].cmd = jobs[job[w]].cmd
         /\ Claimed(w)[job[w]].status = "RUNNING"
         /\ Claimed(w)[job[w]].attempts = jobs[job[w]].attempts + 1
         /\ Claimed(w)[job[w]].by = {w}
<1>. DEFINE old == jobs[job[w]]
            n == old.attempts + 1
            r1 == [old EXCEPT !.status = "RUNNING"]
            r2 == [r1 EXCEPT !.attempts = n]
            new == [r2 EXCEPT !.by = {w}]
<1>1. old \in Row /\ n \in Nat
  <2>1. old \in Row
    BY DEF TypeOK, TableOK
  <2>2. old.attempts \in Nat
    BY <2>1 DEF Row
  <2>. QED
    BY <2>1, <2>2
<1>2. Claimed(w) = [jobs EXCEPT ![job[w]] = new]
  BY DEF Claimed
<1>. HIDE DEF n, old
<1>3. r1 \in Row /\ r1.cmd = old.cmd /\ r1.status = "RUNNING"
  BY <1>1, Zenon DEF Row, Status
<1>. HIDE DEF r1
<1>4. r2 \in Row /\ r2.cmd = old.cmd /\ r2.status = "RUNNING" /\ r2.attempts = n
  BY <1>1, <1>3, Zenon DEF Row
<1>. HIDE DEF r2
<1>5. /\ new \in Row
      /\ new.cmd = old.cmd
      /\ new.status = "RUNNING"
      /\ new.attempts = n
      /\ new.by = {w}
  BY <1>4, Zenon DEF Row
<1>. HIDE DEF new
<1>6. job[w] \in DOMAIN jobs /\ jobs \in Seq(Row)
  BY DEF TypeOK, TableOK
<1>7. Claimed(w) \in [1..Len(jobs) -> Row]
  BY <1>2, <1>5, <1>6
<1>. QED
  BY <1>2, <1>5, <1>6, <1>7 DEF n, old

-----------------------------------------------------------------------------
(***************************************************************************)
(* Type correctness.                                                       *)
(***************************************************************************)
LEMMA TypeInit == Init => TypeOK
BY DEF Init, TypeOK, TableOK, ProducersOK, ExecutorsOK, ServerOK

\* A producer's step is well typed.
LEMMA TypeProducer ==
  ASSUME TypeOK,
         \/ \E c \in Command :
              EnqueueCommand(c) \/ RequestTaskRun(c) \/ EnqueueTaskRun(c)
         \/ \E t \in QueuedTask :
              EnableTask(t) \/ DisableTask(t) \/ CancelPendingByDedupeKey(t)
         \/ Tick
  PROVE  TypeOK'
<1>. USE DEF TypeOK
<1>1. ExecutorsOK'
  BY DEF ExecutorsOK, EnqueueCommand, RequestTaskRun, EnqueueTaskRun, EnableTask,
         DisableTask, CancelPendingByDedupeKey, Tick, workerVars
<1>2. ServerOK'
  BY DEF ServerOK, EnqueueCommand, RequestTaskRun, EnqueueTaskRun, EnableTask,
         DisableTask, CancelPendingByDedupeKey, Tick
<1>3. ProducersOK'
  BY DEF ProducersOK, EnqueueCommand, RequestTaskRun, EnqueueTaskRun, EnableTask,
         DisableTask, CancelPendingByDedupeKey, Tick, askVars
<1>4. TableOK'
  <2>1. ASSUME NEW c \in Command, EnqueueBackgroundJob(c)
        PROVE  jobs' \in Seq(Row)
    BY <2>1, EnqueuedRows DEF TableOK
  <2>2. ASSUME NEW t \in QueuedTask, CancelPendingByDedupeKey(t)
        PROVE  jobs' \in Seq(Row)
    BY <2>2, MarkedRows DEF TableOK, CancelPendingByDedupeKey, Status
  <2>3. \/ jobs' \in Seq(Row)
        \/ jobs' = jobs
    BY <2>1, <2>2 DEF EnqueueCommand, RequestTaskRun, EnqueueTaskRun,
         EnableTask, DisableTask, Tick
  <2>4. now' = now \/ now' = now + 1
    BY DEF EnqueueCommand, RequestTaskRun, EnqueueTaskRun,
         EnableTask, DisableTask, CancelPendingByDedupeKey, Tick
  <2>. QED
    BY <2>3, <2>4 DEF TableOK
<1>. QED
  BY <1>1, <1>2, <1>3, <1>4

\* An executor's step is well typed.
LEMMA TypeWorker ==
  ASSUME TypeOK, NEW w \in Worker, WorkerStep(w)
  PROVE  TypeOK'
<1>. USE DEF TypeOK
<1>1. ProducersOK'
  BY DEF ProducersOK, askVars, WorkerStep, SelectRunning, SelectPending,
         NothingToClaim, CommitClaim, RollBackClaim, LoseClaim, PollFails, Released,
         StartWork, SkipWork, WorkReturns, WorkRaises, CompleteRaises, Advance,
         TrimBackgroundJobs, CompleteBackgroundJob, FailBackgroundJob,
         StoreOutcome, FailRaises
<1>2. ServerOK'
  <2>1. UNCHANGED <<proc, orphans>>
    BY DEF WorkerStep, SelectRunning, SelectPending, NothingToClaim, CommitClaim,
         RollBackClaim, LoseClaim, PollFails, Released, StartWork, SkipWork,
         WorkReturns, WorkRaises, CompleteRaises, Advance, TrimBackgroundJobs,
         CompleteBackgroundJob, FailBackgroundJob, StoreOutcome, FailRaises
  <2>2. \/ budget' = budget
        \/ \E kind \in {"polls", "writes"} :
             budget' = [budget EXCEPT ![kind] = @ + 1]
    BY DEF WorkerStep, SelectRunning, SelectPending, NothingToClaim, CommitClaim,
         RollBackClaim, LoseClaim, PollFails, StartWork, SkipWork, WorkReturns,
         WorkRaises, CompleteRaises, TrimBackgroundJobs, CompleteBackgroundJob,
         FailBackgroundJob, StoreOutcome, FailRaises, LoseWrite
  <2>. QED
    BY <2>1, <2>2 DEF ServerOK
<1>3. TableOK'
  <2>1. CASE CommitClaim(w) \/ LoseClaim(w)
    BY <2>1, ClaimedRows DEF CommitClaim, LoseClaim, StillPending, Pending,
         WithStatus, JobId, TableOK, Released
  <2>2. CASE \/ CompleteBackgroundJob(w) \/ FailBackgroundJob(w)
             \/ TrimBackgroundJobs(w)
    BY <2>2, MarkedRows DEF CompleteBackgroundJob, FailBackgroundJob,
         StoreOutcome, TrimBackgroundJobs, Status, TableOK
  <2>3. CASE UNCHANGED <<jobs, now>>
    BY <2>3 DEF TableOK
  <2>. QED
    BY <2>1, <2>2, <2>3 DEF WorkerStep, SelectRunning, SelectPending,
         NothingToClaim, RollBackClaim, PollFails, Released, StartWork, SkipWork,
         WorkReturns, WorkRaises, CompleteRaises, Advance, FailRaises
<1>4. ExecutorsOK'
  <2>1. CASE SelectRunning(w)
    <3>1. \A i \in Running : jobs[i].cmd \in Command
      <4>1. \A i \in Running : jobs[i] \in Row
        BY DEF Running, WithStatus, JobId, TableOK
      <4>. QED
        BY <4>1 DEF Row
    <3>2. InUse \subseteq UNION {Resources(c) : c \in Command}
      BY <3>1 DEF InUse
    <3>. QED
      BY <2>1, <3>2 DEF SelectRunning, ExecutorsOK
  <2>2. CASE SelectPending(w)
    <3>1. \A i \in Compatible : i \in Nat
      BY DEF Compatible, Pending, WithStatus, JobId, TableOK
    <3>. QED
      BY <2>2, <3>1 DEF SelectPending, ExecutorsOK
  <2>3. CASE \/ NothingToClaim(w) \/ CommitClaim(w) \/ RollBackClaim(w)
             \/ LoseClaim(w) \/ PollFails(w)
    BY <2>3 DEF NothingToClaim, CommitClaim, RollBackClaim, LoseClaim, PollFails,
         Released, BackToIdle, ExecutorsOK
  <2>4. CASE \/ StartWork(w) \/ SkipWork(w) \/ WorkReturns(w) \/ WorkRaises(w)
             \/ CompleteRaises(w) \/ TrimBackgroundJobs(w)
    BY <2>4 DEF StartWork, SkipWork, WorkReturns, WorkRaises, CompleteRaises,
         TrimBackgroundJobs, Advance, ExecutorsOK
  <2>5. CASE \/ CompleteBackgroundJob(w) \/ FailBackgroundJob(w)
             \/ FailRaises(w)
    BY <2>5 DEF CompleteBackgroundJob, FailBackgroundJob, StoreOutcome, FailRaises,
         BackToIdle, ExecutorsOK
  <2>. QED
    BY <2>1, <2>2, <2>3, <2>4, <2>5 DEF WorkerStep
<1>. QED
  BY <1>1, <1>2, <1>3, <1>4

\* A step of the process is well typed.
LEMMA TypeProcess ==
  ASSUME TypeOK, Crash \/ StartScheduler \/ ResetStaleJobs \/ OrphanExits
  PROVE  TypeOK'
<1>. USE DEF TypeOK
<1>1. ProducersOK'
  BY DEF ProducersOK, askVars, Crash, StartScheduler, ResetStaleJobs, StaleJobs,
         OrphanExits
<1>2. ServerOK'
  <2>1. TaskChildren \subseteq Nat
    BY DEF TaskChildren, JobId, TableOK
  <2>2. CASE Crash
    <3>1. PICK S \in SUBSET TaskChildren : orphans' = orphans \cup S
      BY <2>2 DEF Crash
    <3>2. orphans' \subseteq Nat
      BY <2>1, <3>1 DEF ServerOK
    <3>. QED
      BY <2>2, <3>2 DEF ServerOK, Crash
  <2>3. CASE StartScheduler \/ ResetStaleJobs \/ OrphanExits
    BY <2>3 DEF ServerOK, StartScheduler, ResetStaleJobs, StaleJobs, OrphanExits
  <2>. QED
    BY <2>2, <2>3
<1>3. TableOK'
  BY MarkedRows DEF TableOK, Crash, StartScheduler, ResetStaleJobs, StaleJobs,
         OrphanExits, Status
<1>4. ExecutorsOK'
  BY DEF ExecutorsOK, workerVars, Crash, StartScheduler, ResetStaleJobs,
         StaleJobs, OrphanExits
<1>. QED
  BY <1>1, <1>2, <1>3, <1>4

LEMMA TypeNext == TypeOK /\ [Next]_vars => TypeOK'
<1>1. CASE UNCHANGED vars
  BY <1>1 DEF TypeOK, TableOK, ProducersOK, ExecutorsOK, ServerOK, vars
<1>. QED
  BY <1>1, TypeProducer, TypeWorker, TypeProcess DEF Next

(***************************************************************************)
(* Every reachable state is well typed.                                    *)
(***************************************************************************)
THEOREM TypeCorrect == Spec => []TypeOK
<1>. QED
  BY TypeInit, TypeNext, PTL DEF Spec

-----------------------------------------------------------------------------
(***************************************************************************)
(* Mutual exclusion.  The claim decides on a snapshot of the resources in  *)
(* use.  The snapshot is stale by the time it is acted upon, but only on   *)
(* the safe side: claims exclude each other, and every other step of the   *)
(* system can only end running jobs (ClaimInv).  That an executor is told  *)
(* apart from the others by the row it holds, which is RUNNING unless it   *)
(* was trimmed (HolderInv), and that nobody holds a row when the server    *)
(* resets the table (ServerInv), gives the exclusion between executors.    *)
(***************************************************************************)
ClaimInv ==
  \A w \in Worker :
    /\ pc[w] \in {"reading", "selected"} => claimLock = {w} /\ InUse \subseteq busy
    /\ pc[w] = "selected" =>
         job[w] \in JobId /\ Resources(jobs[job[w]].cmd) \cap busy = {}

HolderInv ==
  \A w \in Worker :
    Holding(w) => job[w] \in Running \cup Trimmed /\ jobs[job[w]].by = {w}

ServerInv == proc # "up" => \A w \in Worker : pc[w] = "idle"

Inv == TypeOK /\ ResourcesExclusive /\ ClaimInv /\ HolderInv /\ ServerInv

\* A step after which the running rows are those in S, which brings no row
\* back, and which changes neither the command of a row nor who started it.
Leaves(S) ==
  /\ JobId \subseteq JobId'
  /\ Running' = S
  /\ Trimmed \subseteq Trimmed'
  /\ \A i \in JobId : jobs'[i].cmd = jobs[i].cmd
  /\ \A i \in Running \cup Trimmed : jobs'[i].by = jobs[i].by

LEMMA RowFields ==
  ASSUME NEW row \in Row, NEW status \in Status
  PROVE  /\ [row EXCEPT !.status = status].cmd = row.cmd
         /\ [row EXCEPT !.status = status].by = row.by
         /\ [row EXCEPT !.status = status].status = status
         /\ [row EXCEPT !.status = status].attempts = row.attempts
BY DEF Row

LEMMA MarkedFields ==
  ASSUME TypeOK, NEW S, NEW status \in Status, NEW i \in DOMAIN jobs
  PROVE  /\ Marked(S, status)[i].cmd = jobs[i].cmd
         /\ Marked(S, status)[i].by = jobs[i].by
         /\ Marked(S, status)[i].attempts = jobs[i].attempts
         /\ Marked(S, status)[i].status = IF i \in S THEN status
                                                    ELSE jobs[i].status
<1>1. jobs[i] \in Row
  BY DEF TypeOK, TableOK
<1>2. Marked(S, status)[i] =
        IF i \in S THEN [jobs[i] EXCEPT !.status = status] ELSE jobs[i]
  BY MarkedRows DEF TypeOK, TableOK
<1>3. CASE i \in S
  BY <1>1, <1>2, <1>3, RowFields
<1>4. CASE i \notin S
  BY <1>2, <1>4
<1>. QED
  BY <1>3, <1>4

\* Marking rows with a status other than RUNNING ends those that ran.
LEMMA MarkedLeaves ==
  ASSUME TypeOK, NEW S, S \cap Trimmed = {}, NEW status \in Status \ {"RUNNING"},
         jobs' = Marked(S, status)
  PROVE  Leaves(Running \ S)
<1>2. DOMAIN jobs' = DOMAIN jobs
  BY MarkedRows DEF TypeOK, TableOK
<1>3. \A i \in DOMAIN jobs :
        /\ jobs'[i].cmd = jobs[i].cmd
        /\ jobs'[i].by = jobs[i].by
        /\ jobs'[i].status = IF i \in S THEN status ELSE jobs[i].status
  BY MarkedFields
<1>. QED
  BY <1>2, <1>3 DEF Leaves, Running, Trimmed, WithStatus, JobId

LEMMA EnqueueLeaves ==
  ASSUME TypeOK, NEW c \in Command, EnqueueBackgroundJob(c)
  PROVE  Leaves(Running)
<1>1. CASE jobs' = jobs
  BY <1>1 DEF Leaves, Running, Trimmed, WithStatus, JobId
<1>2. CASE jobs' # jobs
  <2>. DEFINE m == Marked(Replaced(c), "CANCELED")
  <2>1. PICK delay \in Nat :
          /\ DOMAIN jobs' = DOMAIN jobs \cup {Len(jobs) + 1}
          /\ jobs'[Len(jobs) + 1] = NewRow(c, delay)
          /\ \A i \in DOMAIN jobs : jobs'[i] = m[i]
    BY <1>2, EnqueuedRows DEF TypeOK, TableOK
  <2>2. NewRow(c, delay).status = "PENDING"
    BY DEF NewRow
  <2>4. \A i \in DOMAIN jobs :
          /\ m[i].cmd = jobs[i].cmd
          /\ m[i].by = jobs[i].by
          /\ m[i].status = IF i \in Replaced(c) THEN "CANCELED"
                                                 ELSE jobs[i].status
    BY MarkedFields DEF Status
  <2>5. \A i \in Replaced(c) : i \in DOMAIN jobs /\ jobs[i].status = "PENDING"
    BY DEF Replaced, Pending, WithStatus, JobId
  <2>6. Len(jobs) + 1 \notin DOMAIN jobs
    BY DEF TypeOK, TableOK
  <2>. HIDE DEF m
  <2>. QED
    BY <2>1, <2>2, <2>4, <2>5, <2>6 DEF Leaves, Running, Trimmed, WithStatus, JobId
<1>. QED
  BY <1>1, <1>2

LEMMA ClaimLeaves ==
  ASSUME TypeOK, NEW w \in Worker, StillPending(w), jobs' = Claimed(w)
  PROVE  /\ Leaves(Running \cup {job[w]})
         /\ jobs'[job[w]].by = {w}
         /\ job[w] \in JobId \ (Running \cup Trimmed)
<1>1. job[w] \in DOMAIN jobs /\ jobs[job[w]].status = "PENDING"
  BY DEF StillPending, Pending, WithStatus, JobId
<1>. QED
  BY <1>1, ClaimedRows DEF Leaves, Running, Trimmed, WithStatus, JobId

\* When only running jobs end, what is in use shrinks and stays exclusive.
LEMMA EndingKeepsExclusion ==
  ASSUME TypeOK, ResourcesExclusive, NEW S \in SUBSET Running, Leaves(S)
  PROVE  InUse' \subseteq InUse /\ ResourcesExclusive'
BY DEF Leaves, InUse, ResourcesExclusive, Running, WithStatus

\* A step that leaves the executors and the running rows alone.
LEMMA OthersKeepInv ==
  ASSUME Inv, TypeOK', Leaves(Running), UNCHANGED <<proc, workerVars>>
  PROVE  Inv'
<1>. USE DEF workerVars
<1>1. InUse' \subseteq InUse /\ ResourcesExclusive'
  BY EndingKeepsExclusion DEF Inv
<1>2. ClaimInv'
  BY <1>1 DEF Inv, ClaimInv, Leaves
<1>3. HolderInv'
  BY DEF Inv, HolderInv, Holding, Leaves
<1>4. ServerInv'
  BY DEF Inv, ServerInv
<1>. QED
  BY <1>1, <1>2, <1>3, <1>4 DEF Inv

LEMMA ProducerKeepsInv ==
  ASSUME Inv, TypeOK',
         \/ \E c \in Command :
              EnqueueCommand(c) \/ RequestTaskRun(c) \/ EnqueueTaskRun(c)
         \/ \E t \in QueuedTask :
              EnableTask(t) \/ DisableTask(t) \/ CancelPendingByDedupeKey(t)
         \/ Tick
  PROVE  Inv'
<1>1. UNCHANGED <<proc, workerVars>>
  BY DEF EnqueueCommand, RequestTaskRun, EnqueueTaskRun, EnableTask, DisableTask,
         CancelPendingByDedupeKey, Tick
<1>2. Leaves(Running)
  <2>1. ASSUME NEW c \in Command, EnqueueBackgroundJob(c) PROVE Leaves(Running)
    BY <2>1, EnqueueLeaves DEF Inv
  <2>2. ASSUME NEW t \in QueuedTask, CancelPendingByDedupeKey(t)
        PROVE  Leaves(Running)
    <3>. DEFINE S == Duplicates(TaskRun(t, "system", 0)) \cap Pending
    <3>. S \cap Trimmed = {}
      BY DEF Pending, Trimmed, WithStatus
    <3>1. Leaves(Running \ S)
      BY <2>2, MarkedLeaves DEF CancelPendingByDedupeKey, Inv, Status
    <3>2. Running \ S = Running
      BY DEF Running, Pending, WithStatus
    <3>. QED
      BY <3>1, <3>2
  <2>3. ASSUME UNCHANGED jobs PROVE Leaves(Running)
    BY <2>3 DEF Leaves, Running, Trimmed, WithStatus, JobId
  <2>. QED
    BY <2>1, <2>2, <2>3 DEF EnqueueCommand, RequestTaskRun, EnqueueTaskRun,
         EnableTask, DisableTask, Tick
<1>. QED
  BY <1>1, <1>2, OthersKeepInv

\* The end of the claim, whatever its outcome: only w held the claim lock.
LEMMA ClaimEnds ==
  ASSUME Inv, NEW w \in Worker, pc[w] \in {"reading", "selected"},
         pc'[w] \notin {"reading", "selected"},
         \A v \in Worker \ {w} : pc'[v] = pc[v]
  PROVE  ClaimInv'
<1>1. \A v \in Worker \ {w} : pc[v] \notin {"reading", "selected"}
  BY DEF Inv, ClaimInv
<1>. QED
  BY <1>1 DEF ClaimInv

\* An executor's step while it claims.
LEMMA ClaimingKeepsInv ==
  ASSUME Inv, TypeOK', NEW w \in Worker,
         \/ SelectRunning(w) \/ SelectPending(w) \/ NothingToClaim(w)
         \/ RollBackClaim(w) \/ PollFails(w)
  PROVE  Inv'
<1>. USE DEF TypeOK, TableOK, ExecutorsOK
<1>1. /\ UNCHANGED <<jobs, proc>> /\ InUse' = InUse
      /\ Running' = Running /\ Trimmed' = Trimmed
  BY DEF SelectRunning, SelectPending, NothingToClaim, RollBackClaim, PollFails,
         Released, Running, Trimmed, WithStatus, JobId, InUse
<1>2. ResourcesExclusive'
  BY <1>1 DEF Inv, ResourcesExclusive
<1>3. /\ \A v \in Worker \ {w} : pc'[v] = pc[v] /\ job'[v] = job[v]
      /\ pc'[w] \in {"reading", "selected", "idle"}
  BY DEF SelectRunning, SelectPending, NothingToClaim, RollBackClaim, PollFails,
         BackToIdle, Inv
<1>4. HolderInv'
  BY <1>1, <1>3 DEF Inv, HolderInv, Holding
<1>5. ServerInv'
  <2>1. CASE SelectRunning(w)
    BY <1>1, <2>1 DEF SelectRunning, ServerInv
  <2>2. CASE pc[w] \in {"reading", "selected"}
    BY <1>1, <2>2 DEF Inv, ServerInv
  <2>. QED
    BY <2>1, <2>2 DEF SelectPending, NothingToClaim, RollBackClaim, PollFails
<1>6. ClaimInv'
  <2>1. CASE SelectRunning(w)
    <3>1. \A v \in Worker : pc[v] \notin {"reading", "selected"}
      BY <2>1 DEF Inv, ClaimInv, SelectRunning
    <3>2. claimLock' = {w} /\ busy' = InUse /\ pc'[w] = "reading"
      BY <2>1 DEF SelectRunning, Inv
    <3>. QED
      BY <1>1, <1>3, <3>1, <3>2 DEF ClaimInv
  <2>2. CASE SelectPending(w)
    <3>1. PICK i \in Compatible : job' = [job EXCEPT ![w] = i]
      BY <2>2 DEF SelectPending
    <3>2. /\ job'[w] = i /\ pc'[w] = "selected"
          /\ UNCHANGED <<claimLock, busy>> /\ pc[w] = "reading"
      BY <2>2, <3>1 DEF SelectPending, Inv
    <3>3. i \in JobId /\ Resources(jobs[i].cmd) \cap busy = {}
      BY DEF Compatible, Pending, WithStatus
    <3>4. JobId' = JobId
      BY <1>1 DEF JobId
    <3>. QED
      BY <1>1, <1>3, <3>2, <3>3, <3>4 DEF Inv, ClaimInv
  <2>3. CASE NothingToClaim(w) \/ RollBackClaim(w) \/ PollFails(w)
    <3>1. pc[w] \in {"reading", "selected"} /\ pc'[w] = "idle"
      BY <2>3 DEF NothingToClaim, RollBackClaim, PollFails, BackToIdle, Inv
    <3>. QED
      BY <1>3, <3>1, ClaimEnds
  <2>. QED
    BY <2>1, <2>2, <2>3
<1>. QED
  BY <1>2, <1>4, <1>5, <1>6 DEF Inv

\* The commit of a claim, whether or not the executor learns of it.
LEMMA CommitKeepsInv ==
  ASSUME Inv, TypeOK', NEW w \in Worker, CommitClaim(w) \/ LoseClaim(w)
  PROVE  Inv'
<1>1. /\ pc[w] = "selected" /\ StillPending(w)
      /\ jobs' = Claimed(w) /\ UNCHANGED proc
  BY DEF CommitClaim, LoseClaim, Released
<1>2. /\ Leaves(Running \cup {job[w]})
      /\ jobs'[job[w]].by = {w}
      /\ job[w] \in JobId \ (Running \cup Trimmed)
  BY <1>1, ClaimLeaves DEF Inv
<1>3. /\ \A v \in Worker \ {w} : pc'[v] = pc[v] /\ job'[v] = job[v]
      /\ \/ pc'[w] = "claimed" /\ job'[w] = job[w]
         \/ pc'[w] = "idle"
  BY DEF CommitClaim, LoseClaim, BackToIdle, Inv, TypeOK, ExecutorsOK
<1>4. ClaimInv'
  BY <1>1, <1>3, ClaimEnds
<1>5. HolderInv'
  BY <1>2, <1>3 DEF Inv, HolderInv, Holding, Leaves
<1>6. ServerInv'
  BY <1>1, <1>3 DEF Inv, ServerInv
<1>7. ResourcesExclusive'
  <2>1. \A i \in Running : Resources(jobs[i].cmd) \subseteq InUse
    BY DEF InUse
  <2>2. InUse \subseteq busy /\ Resources(jobs[job[w]].cmd) \cap busy = {}
    BY <1>1 DEF Inv, ClaimInv
  <2>3. \A i \in Running :
          Resources(jobs[i].cmd) \cap Resources(jobs[job[w]].cmd) = {}
    BY <2>1, <2>2
  <2>4. \A i \in Running' : jobs'[i].cmd = jobs[i].cmd
    BY <1>2 DEF Leaves, Running, WithStatus
  <2>. QED
    BY <1>2, <2>3, <2>4 DEF Inv, ResourcesExclusive, Leaves
<1>. QED
  BY <1>4, <1>5, <1>6, <1>7 DEF Inv

\* An executor's step once it holds a job.
LEMMA WorkingKeepsInv ==
  ASSUME Inv, TypeOK', NEW w \in Worker,
         \/ StartWork(w) \/ SkipWork(w) \/ WorkReturns(w) \/ WorkRaises(w)
         \/ CompleteRaises(w) \/ CompleteBackgroundJob(w)
         \/ FailBackgroundJob(w) \/ FailRaises(w)
  PROVE  Inv'
<1>. USE DEF TypeOK, ExecutorsOK
<1>1. CASE \/ StartWork(w) \/ SkipWork(w) \/ WorkReturns(w) \/ WorkRaises(w)
           \/ CompleteRaises(w)
  <2>1. /\ UNCHANGED <<jobs, proc, claimLock, busy, job>>
        /\ \A v \in Worker \ {w} : pc'[v] = pc[v]
        /\ Holding(w)
        /\ pc'[w] \in {"working", "returned", "raised"}
    BY <1>1 DEF StartWork, SkipWork, WorkReturns, WorkRaises, CompleteRaises,
         Advance, Holding, Inv
  <2>2. /\ Running' = Running /\ Trimmed' = Trimmed
        /\ JobId' = JobId /\ InUse' = InUse
    BY <2>1 DEF Running, Trimmed, WithStatus, JobId, InUse
  <2>3. ClaimInv'
    BY <2>1, <2>2 DEF Inv, ClaimInv
  <2>4. HolderInv'
    BY <2>1, <2>2 DEF Inv, HolderInv, Holding
  <2>5. ServerInv'
    BY <2>1 DEF Inv, ServerInv, Holding
  <2>6. ResourcesExclusive'
    BY <2>1, <2>2 DEF Inv, ResourcesExclusive
  <2>. QED
    BY <2>3, <2>4, <2>5, <2>6 DEF Inv
<1>2. CASE CompleteBackgroundJob(w) \/ FailBackgroundJob(w) \/ FailRaises(w)
  <2>1. /\ UNCHANGED <<proc, claimLock, busy>>
        /\ \A v \in Worker \ {w} : pc'[v] = pc[v] /\ job'[v] = job[v]
        /\ Holding(w)
        /\ pc'[w] = "idle"
    BY <1>2 DEF CompleteBackgroundJob, FailBackgroundJob, StoreOutcome, FailRaises,
         BackToIdle, Holding, Inv
  <2>2. \E S \in {Running, Running \ {job[w]}} : Leaves(S)
    <3>1. CASE CompleteBackgroundJob(w) \/ FailBackgroundJob(w)
      <4>1. Leaves(Running \ ({job[w]} \ Trimmed))
        BY <3>1, MarkedLeaves DEF CompleteBackgroundJob, FailBackgroundJob,
             StoreOutcome, Inv, Status
      <4>2. Running \ ({job[w]} \ Trimmed) = Running \ {job[w]}
        BY DEF Running, Trimmed, WithStatus
      <4>. QED
        BY <4>1, <4>2
    <3>2. CASE FailRaises(w)
      BY <3>2 DEF FailRaises, Leaves, Running, Trimmed, WithStatus, JobId
    <3>. QED
      BY <1>2, <3>1, <3>2
  <2>3. PICK S \in SUBSET Running : Leaves(S) /\ Running \ {job[w]} \subseteq S
    BY <2>2
  <2>4. InUse' \subseteq InUse /\ ResourcesExclusive'
    BY <2>3, EndingKeepsExclusion DEF Inv
  <2>5. ClaimInv'
    BY <2>1, <2>3, <2>4 DEF Inv, ClaimInv, Leaves
  <2>6. \A v \in Worker \ {w} : Holding(v) => job[v] # job[w]
    BY <2>1 DEF Inv, HolderInv
  <2>7. HolderInv'
    BY <2>1, <2>3, <2>6 DEF Inv, HolderInv, Holding, Leaves
  <2>8. ServerInv'
    BY <2>1 DEF Inv, ServerInv
  <2>. QED
    BY <2>4, <2>5, <2>7, <2>8 DEF Inv
<1>. QED
  BY <1>1, <1>2

\* House keeping takes rows away, those of jobs that run included.
LEMMA TrimKeepsInv ==
  ASSUME Inv, TypeOK', NEW w \in Worker, TrimBackgroundJobs(w)
  PROVE  Inv'
<1>1. /\ jobs' = Marked(Old, "TRIMMED")
      /\ UNCHANGED <<proc, claimLock, busy, job>>
      /\ pc[w] = "working" /\ pc'[w] = "returned"
      /\ \A v \in Worker \ {w} : pc'[v] = pc[v]
  BY DEF TrimBackgroundJobs, Inv, TypeOK, ExecutorsOK
<1>2. Old \subseteq JobId \ Trimmed
  BY DEF Old
<1>3. Leaves(Running \ Old)
  BY <1>1, <1>2, MarkedLeaves DEF Inv, Status
<1>4. Running \subseteq Running' \cup Trimmed'
  <2>1. ASSUME NEW i \in Running, i \in Old PROVE i \in Trimmed'
    <3>1. i \in DOMAIN jobs /\ Marked(Old, "TRIMMED")[i].status = "TRIMMED"
      BY <2>1, MarkedFields DEF Inv, Status, Running, WithStatus, JobId
    <3>. QED
      BY <1>1, <1>3, <3>1 DEF Leaves, Trimmed, WithStatus, JobId
  <2>. QED
    BY <1>3, <2>1 DEF Leaves
<1>5. InUse' \subseteq InUse /\ ResourcesExclusive'
  BY <1>3, EndingKeepsExclusion DEF Inv
<1>6. ClaimInv'
  BY <1>1, <1>3, <1>5 DEF Inv, ClaimInv, Leaves
<1>7. HolderInv'
  BY <1>1, <1>3, <1>4 DEF Inv, HolderInv, Holding, Leaves
<1>8. ServerInv'
  BY <1>1 DEF Inv, ServerInv
<1>. QED
  BY <1>5, <1>6, <1>7, <1>8 DEF Inv

LEMMA ProcessKeepsInv ==
  ASSUME Inv, TypeOK', Crash \/ StartScheduler \/ ResetStaleJobs \/ OrphanExits
  PROVE  Inv'
<1>1. CASE Crash
  <2>1. /\ UNCHANGED jobs
        /\ \A w \in Worker : pc'[w] = "idle"
    BY <1>1 DEF Crash
  <2>2. ResourcesExclusive'
    BY <2>1 DEF Inv, ResourcesExclusive, Running, WithStatus, JobId
  <2>. QED
    BY <2>1, <2>2 DEF Inv, ClaimInv, HolderInv, Holding, ServerInv
<1>2. CASE StartScheduler \/ ResetStaleJobs
  <2>1. /\ UNCHANGED workerVars
        /\ proc # "up"
        /\ jobs' = jobs \/ jobs' = Marked(Running, "FAILED")
    BY <1>2 DEF StartScheduler, ResetStaleJobs, StaleJobs
  <2>2. \A w \in Worker : pc'[w] = "idle"
    BY <2>1 DEF Inv, ServerInv, workerVars
  <2>3. ResourcesExclusive'
    <3>1. CASE jobs' = jobs
      BY <3>1 DEF Inv, ResourcesExclusive, Running, WithStatus, JobId
    <3>2. CASE jobs' = Marked(Running, "FAILED")
      <4>. Running \cap Trimmed = {}
        BY DEF Running, Trimmed, WithStatus
      <4>1. Leaves(Running \ Running)
        BY <3>2, MarkedLeaves DEF Inv, Status
      <4>. QED
        BY <4>1, EndingKeepsExclusion DEF Inv
    <3>. QED
      BY <2>1, <3>1, <3>2
  <2>. QED
    BY <2>2, <2>3 DEF Inv, ClaimInv, HolderInv, Holding, ServerInv
<1>3. CASE OrphanExits
  <2>1. UNCHANGED <<jobs, proc, workerVars>>
    BY <1>3 DEF OrphanExits
  <2>2. Leaves(Running)
    BY <2>1 DEF Leaves, Running, Trimmed, WithStatus, JobId
  <2>. QED
    BY <2>1, <2>2, OthersKeepInv
<1>. QED
  BY <1>1, <1>2, <1>3

LEMMA InvInit == Init => Inv
<1>1. SUFFICES ASSUME Init PROVE Inv
  OBVIOUS
<1>2. JobId = {} /\ Running = {}
  BY <1>1 DEF Init, JobId, Running, WithStatus
<1>. QED
  BY <1>1, <1>2, TypeInit DEF Init, Inv, ResourcesExclusive, ClaimInv, HolderInv,
       Holding, ServerInv

LEMMA InvNext == Inv /\ [Next]_vars => Inv'
<1>. SUFFICES ASSUME Inv, [Next]_vars PROVE Inv'
  OBVIOUS
<1>1. TypeOK'
  BY TypeNext DEF Inv
<1>2. CASE UNCHANGED vars
  <2>1. UNCHANGED <<jobs, proc, workerVars>>
    BY <1>2 DEF vars, workerVars
  <2>2. Leaves(Running)
    BY <2>1 DEF Leaves, Running, Trimmed, WithStatus, JobId
  <2>. QED
    BY <1>1, <2>1, <2>2, OthersKeepInv
<1>3. ASSUME NEW w \in Worker, WorkerStep(w) PROVE Inv'
  BY <1>1, <1>3, ClaimingKeepsInv, CommitKeepsInv, WorkingKeepsInv, TrimKeepsInv
     DEF WorkerStep
<1>. QED
  BY <1>1, <1>2, <1>3, ProducerKeepsInv, ProcessKeepsInv DEF Next

(***************************************************************************)
(* No two jobs in status RUNNING share a resource (jobs/queue.py,          *)
(* claim_next_background_job).                                             *)
(***************************************************************************)
THEOREM ResourcesAreExclusive == Spec => []ResourcesExclusive
<1>1. Inv => ResourcesExclusive
  BY DEF Inv
<1>. QED
  BY <1>1, InvInit, InvNext, PTL DEF Spec

(***************************************************************************)
(* No two executors run the same job or jobs that share a resource, and    *)
(* the row of a job that is run is RUNNING (core/worker.py, worker_loop),  *)
(* but for the rows house keeping deleted.                                 *)
(***************************************************************************)
THEOREM ExecutorsAreExclusive == Spec => []ExecutorsExclusive
<1>1. Inv => ExecutorsExclusive
  <2>. SUFFICES ASSUME Inv, NEW w \in Worker, NEW v \in Worker, Holding(w)
                PROVE  /\ job[w] \in Running \cup Trimmed
                       /\ Holding(v) /\ v # w =>
                            /\ job[v] # job[w]
                            /\ {job[w], job[v]} \subseteq Running =>
                                 Resources(Cmd(w)) \cap Resources(Cmd(v)) = {}
    BY DEF ExecutorsExclusive
  <2>1. job[w] \in Running \cup Trimmed /\ jobs[job[w]].by = {w}
    BY DEF Inv, HolderInv
  <2>2. ASSUME Holding(v), v # w
        PROVE  /\ job[v] # job[w]
               /\ {job[w], job[v]} \subseteq Running =>
                    Resources(Cmd(w)) \cap Resources(Cmd(v)) = {}
    <3>1. jobs[job[v]].by = {v}
      BY <2>2 DEF Inv, HolderInv
    <3>2. job[v] # job[w]
      BY <2>1, <2>2, <3>1
    <3>. QED
      BY <3>2 DEF Inv, ResourcesExclusive, Cmd
  <2>. QED
    BY <2>1, <2>2
<1>. QED
  BY <1>1, InvInit, InvNext, PTL DEF Spec
-----------------------------------------------------------------------------
(***************************************************************************)
(* The life of a row, and what follows from it.                            *)
(***************************************************************************)
\* What one step may do to a row: cancel or claim it while it waits, end it
\* while it runs, delete it.
RowMoves(i) ==
  \/ jobs'[i] = jobs[i]
  \/ /\ jobs[i].status = "PENDING"
     /\ jobs'[i].status = "CANCELED"
     /\ jobs'[i].attempts = jobs[i].attempts
  \/ /\ jobs[i].status = "PENDING"
     /\ jobs'[i].status = "RUNNING"
     /\ jobs'[i].attempts = jobs[i].attempts + 1
  \/ /\ jobs[i].status = "RUNNING"
     /\ jobs'[i].status \in {"COMPLETED", "FAILED"}
     /\ jobs'[i].attempts = jobs[i].attempts
  \/ /\ jobs'[i] = [jobs[i] EXCEPT !.status = "TRIMMED"]
     /\ jobs'[i].status = "TRIMMED"
     /\ jobs'[i].attempts = jobs[i].attempts

\* A row that has just been queued has no rival with its key.
HasNoRival(i) ==
  \A k \in JobId : SameKey(jobs'[i].cmd, jobs[k].cmd) =>
    /\ jobs'[k].status # "PENDING"
    /\ SkipIfActive(jobs'[i].cmd) => jobs'[k].status \notin Active

\* What one step may do to the table.
TableMoves ==
  /\ JobId \subseteq JobId'
  /\ \A i \in JobId : RowMoves(i) /\ jobs'[i].cmd = jobs[i].cmd
  /\ \A i \in JobId' \ JobId :
       jobs'[i].status = "PENDING" /\ jobs'[i].attempts = 0 /\ HasNoRival(i)
  /\ \A i, k \in JobId' \ JobId : i = k

LEMMA MarkedMoves ==
  ASSUME TypeOK, NEW S, NEW status \in Status, jobs' = Marked(S, status),
         \/ S \subseteq Pending /\ status = "CANCELED"
         \/ S \subseteq Running /\ status \in {"COMPLETED", "FAILED"}
         \/ status = "TRIMMED"
  PROVE  TableMoves
<1>1. JobId' = JobId
  BY MarkedRows DEF TypeOK, TableOK, JobId
<1>2. ASSUME NEW i \in JobId PROVE RowMoves(i) /\ jobs'[i].cmd = jobs[i].cmd
  <2>1. jobs'[i] = IF i \in S THEN [jobs[i] EXCEPT !.status = status] ELSE jobs[i]
    BY MarkedRows DEF TypeOK, TableOK, JobId
  <2>2. /\ jobs'[i].cmd = jobs[i].cmd
        /\ jobs'[i].attempts = jobs[i].attempts
        /\ jobs'[i].status = IF i \in S THEN status ELSE jobs[i].status
    BY MarkedFields DEF JobId
  <2>. QED
    BY <2>1, <2>2 DEF RowMoves, Pending, Running, WithStatus
<1>. QED
  BY <1>1, <1>2 DEF TableMoves

LEMMA EnqueueMoves ==
  ASSUME TypeOK, NEW c \in Command, EnqueueBackgroundJob(c)
  PROVE  TableMoves
<1>1. CASE jobs' = jobs
  BY <1>1 DEF TableMoves, RowMoves, JobId
<1>2. CASE jobs' # jobs
  <2>. DEFINE m == Marked(Replaced(c), "CANCELED")
  <2>1. PICK delay \in Nat :
          /\ DOMAIN jobs' = DOMAIN jobs \cup {Len(jobs) + 1}
          /\ jobs'[Len(jobs) + 1] = NewRow(c, delay)
          /\ \A i \in DOMAIN jobs : jobs'[i] = m[i]
    BY <1>2, EnqueuedRows DEF TypeOK, TableOK
  <2>2. /\ NewRow(c, delay).status = "PENDING" /\ NewRow(c, delay).attempts = 0
        /\ NewRow(c, delay).cmd = c /\ Blocking(c) = {}
    BY <1>2 DEF NewRow, EnqueueBackgroundJob
  <2>3. "CANCELED" \in Status
    BY DEF Status
  <2>4. ASSUME NEW i \in DOMAIN jobs, i \notin Replaced(c) PROVE m[i] = jobs[i]
    BY <2>4 DEF Marked, JobId
  <2>5. \A i \in DOMAIN jobs :
          /\ m[i].cmd = jobs[i].cmd
          /\ m[i].attempts = jobs[i].attempts
          /\ m[i].status = IF i \in Replaced(c) THEN "CANCELED" ELSE jobs[i].status
    BY <2>3, MarkedFields
  <2>6. \A i \in Replaced(c) : jobs[i].status = "PENDING"
    BY DEF Replaced, Pending, WithStatus
  <2>. HIDE DEF m
  <2>7. \A i \in JobId : RowMoves(i) /\ jobs'[i].cmd = jobs[i].cmd
    BY <2>1, <2>4, <2>5, <2>6 DEF RowMoves, JobId
  <2>8. HasNoRival(Len(jobs) + 1)
    <3>. SUFFICES ASSUME NEW k \in JobId, SameKey(c, jobs[k].cmd)
                  PROVE  /\ jobs'[k].status # "PENDING"
                         /\ SkipIfActive(c) => jobs'[k].status \notin Active
      BY <2>1, <2>2 DEF HasNoRival
    <3>1. k \in Duplicates(c) /\ (SkipIfActive(c) \/ ReplacePending(c))
      BY DEF Duplicates, SameKey
    <3>2. SkipIfActive(c) => jobs[k].status \notin Active
      BY <2>2, <3>1 DEF Blocking, WithStatus
    <3>3. ReplacePending(c) => k \in Replaced(c) \/ jobs[k].status # "PENDING"
      BY <3>1 DEF Replaced, Pending, WithStatus
    <3>. QED
      BY <2>1, <2>5, <3>1, <3>2, <3>3 DEF Active, JobId
  <2>. QED
    BY <2>1, <2>2, <2>7, <2>8 DEF TableMoves, JobId
<1>. QED
  BY <1>1, <1>2

\* What a step of the system does to the table: nothing, an enqueue, a claim,
\* or the marking of rows that wait, run, or are old.
Marks(S, status) ==
  /\ jobs' = Marked(S, status)
  /\ \/ S \subseteq Pending /\ status = "CANCELED"
     \/ S \subseteq Running /\ status \in {"COMPLETED", "FAILED"}
     \/ S \subseteq JobId \ Trimmed /\ status = "TRIMMED"

TableStep ==
  \/ UNCHANGED jobs
  \/ \E c \in Command : EnqueueBackgroundJob(c)
  \/ \E w \in Worker : pc[w] = "selected" /\ StillPending(w) /\ jobs' = Claimed(w)
  \/ \E S \in SUBSET JobId, status \in Status : Marks(S, status)

LEMMA NextTableStep == Inv /\ [Next]_vars => TableStep
<1>. SUFFICES ASSUME Inv, [Next]_vars PROVE TableStep
  OBVIOUS
<1>1. ASSUME NEW c \in Command, EnqueueBackgroundJob(c) PROVE TableStep
  BY <1>1 DEF TableStep
<1>2. ASSUME NEW t \in QueuedTask, CancelPendingByDedupeKey(t) PROVE TableStep
  <2>. DEFINE S == Duplicates(TaskRun(t, "system", 0)) \cap Pending
  <2>1. Marks(S, "CANCELED") /\ S \subseteq JobId /\ "CANCELED" \in Status
    BY <1>2 DEF CancelPendingByDedupeKey, Marks, Pending, WithStatus, Status
  <2>. QED
    BY <2>1 DEF TableStep
<1>3. ASSUME NEW w \in Worker, CommitClaim(w) \/ LoseClaim(w) PROVE TableStep
  BY <1>3 DEF CommitClaim, LoseClaim, TableStep
<1>4. ASSUME NEW w \in Worker, CompleteBackgroundJob(w) \/ FailBackgroundJob(w)
      PROVE  TableStep
  <2>. DEFINE S == {job[w]} \ Trimmed
  <2>1. Holding(w)
    BY <1>4 DEF CompleteBackgroundJob, FailBackgroundJob, StoreOutcome, Holding
  <2>2. S \subseteq Running
    BY <2>1 DEF Inv, HolderInv
  <2>3. PICK status \in {"COMPLETED", "FAILED"} : jobs' = Marked(S, status)
    BY <1>4 DEF CompleteBackgroundJob, FailBackgroundJob, StoreOutcome
  <2>4. Marks(S, status) /\ S \subseteq JobId /\ status \in Status
    BY <2>2, <2>3 DEF Marks, Running, WithStatus, Status
  <2>. QED
    BY <2>4 DEF TableStep
<1>5. ASSUME NEW w \in Worker, TrimBackgroundJobs(w) PROVE TableStep
  <2>1. Marks(Old, "TRIMMED") /\ Old \subseteq JobId /\ "TRIMMED" \in Status
    BY <1>5 DEF TrimBackgroundJobs, Marks, Old, Status
  <2>. QED
    BY <2>1 DEF TableStep
<1>6. ASSUME ResetStaleJobs PROVE TableStep
  <2>1. Marks(Running, "FAILED") /\ Running \subseteq JobId /\ "FAILED" \in Status
    BY <1>6 DEF ResetStaleJobs, StaleJobs, Marks, Running, WithStatus, Status
  <2>. QED
    BY <2>1 DEF TableStep
<1>7. UNCHANGED jobs => TableStep
  BY DEF TableStep
<1>8. CASE \E w \in Worker : WorkerStep(w)
  <2>1. PICK w \in Worker : WorkerStep(w)
    BY <1>8
  <2>2. \/ CommitClaim(w) \/ LoseClaim(w)
        \/ CompleteBackgroundJob(w) \/ FailBackgroundJob(w)
        \/ TrimBackgroundJobs(w)
        \/ UNCHANGED jobs
    BY <2>1 DEF WorkerStep, SelectRunning, SelectPending, NothingToClaim,
         RollBackClaim, PollFails, StartWork, SkipWork, WorkReturns, WorkRaises,
         CompleteRaises, Advance, FailRaises
  <2>. QED
    BY <1>3, <1>4, <1>5, <1>7, <2>2
<1>9. CASE \E c \in Command :
              EnqueueCommand(c) \/ RequestTaskRun(c) \/ EnqueueTaskRun(c)
  BY <1>1, <1>7, <1>9 DEF EnqueueCommand, RequestTaskRun, EnqueueTaskRun
<1>10. CASE \E t \in QueuedTask :
              EnableTask(t) \/ DisableTask(t) \/ CancelPendingByDedupeKey(t)
  BY <1>2, <1>7, <1>10 DEF EnableTask, DisableTask
<1>11. CASE \/ Tick \/ Crash \/ StartScheduler \/ OrphanExits \/ UNCHANGED vars
  BY <1>7, <1>11 DEF Tick, Crash, StartScheduler, OrphanExits, vars
<1>. QED
  BY <1>6, <1>8, <1>9, <1>10, <1>11 DEF Next

LEMMA NextMoves == Inv /\ [Next]_vars => TableMoves
<1>. SUFFICES ASSUME Inv, [Next]_vars PROVE TableMoves
  OBVIOUS
<1>1. TypeOK
  BY DEF Inv
<1>2. CASE UNCHANGED jobs
  BY <1>2 DEF TableMoves, RowMoves, JobId
<1>3. ASSUME NEW c \in Command, EnqueueBackgroundJob(c) PROVE TableMoves
  BY <1>1, <1>3, EnqueueMoves
<1>4. ASSUME NEW w \in Worker, StillPending(w), jobs' = Claimed(w) PROVE TableMoves
  <2>1. job[w] \in DOMAIN jobs /\ jobs[job[w]].status = "PENDING"
    BY <1>4 DEF StillPending, Pending, WithStatus, JobId
  <2>. QED
    BY <1>1, <1>4, <2>1, ClaimedRows DEF TableMoves, RowMoves, JobId
<1>5. ASSUME NEW S \in SUBSET JobId, NEW status \in Status, Marks(S, status)
      PROVE  TableMoves
  BY <1>1, <1>5, MarkedMoves DEF Marks
<1>. QED
  BY <1>2, <1>3, <1>4, <1>5, NextTableStep DEF TableStep

(***************************************************************************)
(* A job is started at most once, and never when it was canceled while it  *)
(* waited: rows are queued unstarted, only a claim counts an attempt, and  *)
(* only a row that waits is claimed (jobs/queue.py).                       *)
(***************************************************************************)
THEOREM StartedOnce == Spec => []StartedAtMostOnce
<1>1. Init => StartedAtMostOnce
  BY DEF Init, StartedAtMostOnce, JobId
<1>2. StartedAtMostOnce /\ Inv /\ [Next]_vars => StartedAtMostOnce'
  <2>. SUFFICES ASSUME StartedAtMostOnce, Inv, [Next]_vars, NEW i \in JobId'
                PROVE  /\ jobs'[i].attempts <= 1
                       /\ jobs'[i].status \in {"CANCELED", "PENDING"}
                            => jobs'[i].attempts = 0
    BY DEF StartedAtMostOnce
  <2>1. TableMoves
    BY NextMoves
  <2>2. CASE i \notin JobId
    BY <2>1, <2>2 DEF TableMoves
  <2>3. CASE i \in JobId
    <3>1. RowMoves(i)
      BY <2>1, <2>3 DEF TableMoves
    <3>2. /\ jobs[i].attempts <= 1
          /\ jobs[i].status \in {"CANCELED", "PENDING"} => jobs[i].attempts = 0
      BY <2>3 DEF StartedAtMostOnce
    <3>. QED
      BY <3>1, <3>2 DEF RowMoves
  <2>. QED
    BY <2>2, <2>3
<1>. QED
  BY <1>1, <1>2, InvInit, InvNext, PTL DEF Spec

(***************************************************************************)
(* A final status is final until the row is deleted: no late executor and  *)
(* no reset at startup rewrites it (jobs/queue.py).                        *)
(***************************************************************************)
THEOREM FinalStatusIsKept == Spec => FinalStatusKept
<1>1. Inv /\ [Next]_vars =>
        [\A i \in WithStatus(Terminal) :
           jobs'[i] \in {jobs[i], [jobs[i] EXCEPT !.status = "TRIMMED"]}]_vars
  <2>. SUFFICES ASSUME Inv, [Next]_vars, NEW i \in WithStatus(Terminal)
                PROVE  jobs'[i] \in {jobs[i], [jobs[i] EXCEPT !.status = "TRIMMED"]}
    OBVIOUS
  <2>1. i \in JobId /\ jobs[i].status \notin {"PENDING", "RUNNING"}
    BY DEF WithStatus, Terminal, Active
  <2>2. RowMoves(i)
    BY <2>1, NextMoves DEF TableMoves
  <2>. QED
    BY <2>1, <2>2 DEF RowMoves
<1>. QED
  BY <1>1, InvInit, InvNext, PTL DEF Spec, FinalStatusKept

(***************************************************************************)
(* No executor starts the body of a task that is switched off, whatever    *)
(* the producers and the switch did since it was queued                    *)
(* (core/task_runtime.py, execute_task).                                   *)
(***************************************************************************)
THEOREM DisabledNeverStarted == Spec => DisabledNeverStarts
<1>1. Inv /\ [Next]_vars =>
        [\A w \in Worker :
           pc[w] # "working" /\ pc'[w] = "working" /\ Cmd(w).type = "TASK_RUN"
             => Cmd(w).task \in enabled]_vars
  <2>. SUFFICES ASSUME Inv, [Next]_vars, NEW w \in Worker,
                       pc[w] # "working", pc'[w] = "working",
                       Cmd(w).type = "TASK_RUN"
                PROVE  Cmd(w).task \in enabled
    OBVIOUS
  <2>1. PICK v \in Worker : WorkerStep(v)
    BY DEF Next, vars, workerVars, Inv, EnqueueCommand, RequestTaskRun,
         EnqueueTaskRun, EnableTask, DisableTask, CancelPendingByDedupeKey, Tick,
         Crash, StartScheduler, ResetStaleJobs, StaleJobs, OrphanExits
  <2>2. v = w /\ StartWork(w)
    BY <2>1 DEF WorkerStep, Inv, TypeOK, ExecutorsOK, SelectRunning,
         SelectPending, NothingToClaim, CommitClaim, RollBackClaim, LoseClaim,
         PollFails, StartWork, SkipWork, WorkReturns, WorkRaises, Advance,
         TrimBackgroundJobs, CompleteBackgroundJob, FailBackgroundJob,
         StoreOutcome, CompleteRaises, FailRaises, BackToIdle
  <2>. QED
    BY <2>2 DEF StartWork, SwitchedOff
<1>. QED
  BY <1>1, InvInit, InvNext, PTL DEF Spec, DisabledNeverStarts

\* Sharing a key is mutual, and so is skipping.
LEMMA SameKeySymmetric ==
  ASSUME NEW c, NEW d, SameKey(c, d)
  PROVE  SameKey(d, c) /\ (SkipIfActive(c) <=> SkipIfActive(d))
BY DEF SameKey, SkipIfActive, ReplacePending

(***************************************************************************)
(* Of the rows with one key at most one waits, and of task runs at most    *)
(* one is active: an enqueue looks for rivals and inserts in one           *)
(* transaction (jobs/queue.py, enqueue_background_job), and no other step  *)
(* makes a row active again.                                               *)
(***************************************************************************)
THEOREM DuplicatesAreRefused == Spec => []NoDuplicates
<1>1. Init => NoDuplicates
  BY DEF Init, NoDuplicates, JobId
<1>2. NoDuplicates /\ Inv /\ [Next]_vars => NoDuplicates'
  <2>. SUFFICES ASSUME NoDuplicates, Inv, [Next]_vars, NEW i \in JobId', NEW k \in JobId',
                       i # k, SameKey(jobs'[i].cmd, jobs'[k].cmd)
                PROVE  /\ ~(jobs'[i].status = "PENDING" /\ jobs'[k].status = "PENDING")
                       /\ SkipIfActive(jobs'[i].cmd) =>
                            ~(jobs'[i].status \in Active /\ jobs'[k].status \in Active)
    BY DEF NoDuplicates, Pending, WithStatus
  <2>1. TableMoves
    BY NextMoves
  <2>2. CASE i \in JobId /\ k \in JobId
    <3>1. /\ RowMoves(i) /\ RowMoves(k)
          /\ jobs'[i].cmd = jobs[i].cmd /\ jobs'[k].cmd = jobs[k].cmd
      BY <2>1, <2>2 DEF TableMoves
    <3>2. /\ ~(jobs[i].status = "PENDING" /\ jobs[k].status = "PENDING")
          /\ SkipIfActive(jobs[i].cmd) =>
               ~(jobs[i].status \in Active /\ jobs[k].status \in Active)
      BY <2>2, <3>1 DEF NoDuplicates, Pending, WithStatus
    <3>3. ASSUME NEW x \in {i, k}
          PROVE  /\ jobs'[x].status = "PENDING" => jobs[x].status = "PENDING"
                 /\ jobs'[x].status \in Active => jobs[x].status \in Active
      BY <3>1 DEF RowMoves, Active
    <3>. QED
      BY <3>1, <3>2, <3>3
  <2>3. CASE i \notin JobId /\ k \in JobId
    BY <2>1, <2>3 DEF TableMoves, HasNoRival
  <2>4. CASE i \in JobId /\ k \notin JobId
    <3>1. /\ SameKey(jobs'[k].cmd, jobs[i].cmd)
          /\ SkipIfActive(jobs'[i].cmd) => SkipIfActive(jobs'[k].cmd)
      BY <2>1, <2>4, SameKeySymmetric DEF TableMoves
    <3>. QED
      BY <2>1, <2>4, <3>1 DEF TableMoves, HasNoRival
  <2>5. CASE i \notin JobId /\ k \notin JobId
    BY <2>1, <2>5 DEF TableMoves
  <2>. QED
    BY <2>2, <2>3, <2>4, <2>5
<1>. QED
  BY <1>1, <1>2, InvInit, InvNext, PTL DEF Spec

\* A child runs for a row that was started.
OrphansStarted ==
  \A i \in orphans : i \in JobId /\ jobs[i].status # "PENDING"

(***************************************************************************)
(* A task child that outlives its server belongs to a row that no longer   *)
(* waits; the reset at startup settles that row before executors claim     *)
(* (api/main.py, jobs/queue.py, reset_stale_jobs).                         *)
(***************************************************************************)
THEOREM OrphansEnd == Spec => []OrphansAreOver
<1>. DEFINE OInv == OrphansStarted /\ OrphansAreOver
<1>1. Init => OInv
  BY DEF Init, OrphansStarted, OrphansAreOver
<1>2. OInv /\ Inv /\ [Next]_vars => OInv'
  <2>. SUFFICES ASSUME OInv, Inv, [Next]_vars PROVE OInv'
    OBVIOUS
  <2>1. TableMoves
    BY NextMoves
  <2>2. ASSUME NEW i \in orphans
        PROVE  /\ i \in JobId' /\ jobs'[i].status # "PENDING"
               /\ jobs[i].status \in Terminal => jobs'[i].status \in Terminal
    <3>1. i \in JobId /\ jobs[i].status # "PENDING" /\ RowMoves(i)
      BY <2>1 DEF OrphansStarted, TableMoves
    <3>. QED
      BY <2>1, <3>1 DEF RowMoves, Terminal, Status, Active, TableMoves
  <2>3. CASE Crash
    <3>1. PICK S \in SUBSET TaskChildren : orphans' = orphans \cup S
      BY <2>3 DEF Crash
    <3>2. jobs' = jobs /\ proc' = "down"
      BY <2>3 DEF Crash
    <3>3. \A i \in S : i \in JobId /\ jobs[i].status # "PENDING"
      BY DEF TaskChildren, Holding, Inv, HolderInv, Running, Trimmed, WithStatus
    <3>. QED
      BY <2>2, <3>1, <3>2, <3>3 DEF OrphansStarted, OrphansAreOver, JobId
  <2>4. CASE ResetStaleJobs
    <3>1. orphans' = orphans /\ jobs' = Marked(Running, "FAILED") /\ proc' = "up"
      BY <2>4 DEF ResetStaleJobs, StaleJobs
    <3>2. ASSUME NEW i \in orphans PROVE jobs'[i].status \in Terminal
      <4>1. i \in DOMAIN jobs /\ jobs[i].status # "PENDING" /\ jobs[i] \in Row
        BY DEF OrphansStarted, JobId, Inv, TypeOK, TableOK
      <4>2. jobs'[i].status = IF i \in Running THEN "FAILED" ELSE jobs[i].status
        BY <3>1, <4>1, MarkedFields DEF Inv, Status
      <4>. QED
        BY <4>1, <4>2 DEF Running, WithStatus, JobId, Terminal, Active, Status, Row
    <3>. QED
      BY <2>2, <3>1, <3>2 DEF OrphansStarted, OrphansAreOver
  <2>5. CASE orphans' \subseteq orphans /\ (proc' = "up" => proc = "up")
    BY <2>2, <2>5 DEF OrphansStarted, OrphansAreOver
  <2>6. Crash \/ ResetStaleJobs \/ (orphans' \subseteq orphans /\ (proc' = "up" => proc = "up"))
    BY DEF Next, vars, WorkerStep, SelectRunning, SelectPending, NothingToClaim,
         CommitClaim, RollBackClaim, LoseClaim, PollFails, Released, StartWork,
         SkipWork, WorkReturns, WorkRaises, CompleteRaises, Advance,
         TrimBackgroundJobs, CompleteBackgroundJob, FailBackgroundJob,
         StoreOutcome, FailRaises, EnqueueCommand, RequestTaskRun, EnqueueTaskRun,
         EnableTask, DisableTask, CancelPendingByDedupeKey, Tick, StartScheduler,
         OrphanExits
  <2>. QED
    BY <2>3, <2>4, <2>5, <2>6
<1>3. OInv => OrphansAreOver
  OBVIOUS
<1>. QED
  BY <1>1, <1>2, <1>3, InvInit, InvNext, PTL DEF Spec
-----------------------------------------------------------------------------
(***************************************************************************)
(* The queue implements the pool of atomic commands.  What a step does to  *)
(* the table (NextTableStep) is what a step of the pool does to its rows:  *)
(* an enqueue submits, a claim starts, and a mark ends the commands among  *)
(* the marked ones that were not over yet.  That a claim may start is      *)
(* mutual exclusion again: the snapshot it decided on covers the resources *)
(* of the commands that run (ClaimInv).                                    *)
(***************************************************************************)
PoolRow(row) == [need |-> Resources(row.cmd), state |-> PoolState(row.status)]

PoolRows == [i \in JobId |-> PoolRow(jobs[i])]

\* A pool row that has moved is the image of the row that was marked.
LEMMA PoolRowMoved ==
  ASSUME NEW old, NEW row, row.cmd = old.cmd
  PROVE  PoolRow(row) = [PoolRow(old) EXCEPT !.state = PoolState(row.status)]
BY DEF PoolRow

LEMMA PoolStates ==
  ASSUME TypeOK, NEW i \in JobId
  PROVE  /\ PoolRows[i] = PoolRow(jobs[i]) /\ DOMAIN PoolRows = JobId
         /\ i \in Pool!In("waiting") <=> i \in Pending
         /\ i \in Pool!In("running") <=> i \in Running
<1>1. jobs[i] \in Row
  BY DEF TypeOK, TableOK, JobId
<1>. QED
  BY <1>1 DEF Pool!In, PoolRows, PoolRow, PoolState, Pending, Running, WithStatus, Row, Status

\* A mark ends what had not ended.
LEMMA MarkEnds ==
  ASSUME TypeOK, NEW S \in SUBSET JobId, NEW status \in Status, Marks(S, status)
  PROVE  Pool!Next
<1>. DEFINE T == S \cap (Pending \cup Running)
<1>1. status \notin Active /\ PoolState(status) = "over"
  BY DEF Marks, Active, PoolState
<1>2. JobId' = JobId
  BY MarkedRows DEF Marks, TypeOK, TableOK, JobId
<1>3. ASSUME NEW i \in JobId
      PROVE  PoolRows'[i] = IF i \in T THEN [PoolRows[i] EXCEPT !.state = "over"] ELSE PoolRows[i]
  <2>1. /\ jobs'[i].cmd = jobs[i].cmd
        /\ jobs'[i].status = IF i \in S THEN status ELSE jobs[i].status
    BY MarkedFields DEF Marks, JobId
  <2>2. PoolRows'[i] = PoolRow(jobs'[i]) /\ PoolRows[i] = PoolRow(jobs[i])
    BY <1>2 DEF PoolRows, PoolRow
  <2>3. CASE i \in T
    BY <1>1, <2>1, <2>2, <2>3, PoolRowMoved
  <2>4. CASE i \notin S
    BY <2>1, <2>2, <2>4 DEF PoolRow
  <2>5. CASE i \in S \ T
    <3>1. PoolState(jobs[i].status) = "over"
      BY <2>5 DEF PoolState, Pending, Running, WithStatus
    <3>. QED
      BY <1>1, <2>1, <2>2, <2>5, <3>1 DEF PoolRow
  <2>. QED
    BY <2>3, <2>4, <2>5
<1>4. T \in SUBSET (Pool!In("waiting") \cup Pool!In("running"))
  BY PoolStates
<1>5. PoolRows' = [i \in DOMAIN PoolRows |->
                     IF i \in T THEN [PoolRows[i] EXCEPT !.state = "over"] ELSE PoolRows[i]]
  BY <1>2, <1>3 DEF PoolRows
<1>6. Pool!End(T)
  BY <1>5 DEF Pool!End, Pool!Moved, PoolRows, PoolRow
<1>. QED
  BY <1>4, <1>6 DEF Pool!Next
\* A claim starts the selected command, which no running one excludes.
LEMMA ClaimStarts ==
  ASSUME Inv, NEW w \in Worker, pc[w] = "selected", StillPending(w), jobs' = Claimed(w)
  PROVE  Pool!Next
<1>. DEFINE i == job[w]
<1>1. i \in JobId /\ i \in Pending /\ TypeOK
  BY DEF StillPending, Pending, WithStatus, Inv
<1>2. /\ JobId' = JobId
      /\ \A k \in JobId : k # i => jobs'[k] = jobs[k]
      /\ jobs'[i].cmd = jobs[i].cmd /\ jobs'[i].status = "RUNNING"
  BY <1>1, ClaimedRows DEF JobId
<1>3. \A k \in JobId : PoolRows'[k] = PoolRow(jobs'[k]) /\ PoolRows[k] = PoolRow(jobs[k])
  BY <1>2 DEF PoolRows, PoolRow
<1>4. PoolRow(jobs'[i]) = [PoolRow(jobs[i]) EXCEPT !.state = "running"]
  BY <1>2, PoolRowMoved DEF PoolState
<1>5. \A k \in JobId : k # i => PoolRow(jobs'[k]) = PoolRow(jobs[k])
  BY <1>2 DEF PoolRow
<1>6. PoolRows' = [k \in DOMAIN PoolRows |->
                     IF k \in {i} THEN [PoolRows[k] EXCEPT !.state = "running"] ELSE PoolRows[k]]
  <2>1. DOMAIN PoolRows = JobId /\ PoolRows' = [k \in JobId |-> PoolRows'[k]]
    BY <1>2 DEF PoolRows
  <2>. QED
    BY <1>1, <1>3, <1>4, <1>5, <2>1
<1>7. \A k \in Pool!In("running") : PoolRows[k].need \cap PoolRows[i].need = {}
  <2>1. \A k \in JobId : PoolRows[k].need = Resources(jobs[k].cmd)
    BY DEF PoolRows, PoolRow
  <2>2. Pool!In("running") \subseteq JobId
    BY DEF Pool!In
  <2>3. Pool!In("running") \subseteq Running
    BY <1>1, <2>2, PoolStates
  <2>4. \A k \in Running : Resources(jobs[k].cmd) \subseteq busy
    BY DEF Inv, ClaimInv, InUse
  <2>5. Resources(jobs[i].cmd) \cap busy = {}
    BY DEF Inv, ClaimInv
  <2>. QED
    BY <1>1, <2>1, <2>2, <2>3, <2>4, <2>5
<1>8. i \in Pool!In("waiting") /\ i \in DOMAIN PoolRows
  BY <1>1, PoolStates
<1>. HIDE DEF i
<1>9. Pool!Start(i)
  BY <1>6, <1>7, <1>8 DEF Pool!Start, Pool!Moved, PoolRows, PoolRow
<1>. QED
  BY <1>8, <1>9 DEF Pool!Next, PoolRows

\* An enqueue submits a command in the place of those it cancels.
LEMMA EnqueueSubmits ==
  ASSUME TypeOK, NEW c \in Command, EnqueueBackgroundJob(c), jobs' # jobs
  PROVE  Pool!Next
<1>. DEFINE R == Replaced(c)
            m == Marked(R, "CANCELED")
            moved == [i \in JobId |->
                        IF i \in R THEN [PoolRows[i] EXCEPT !.state = "over"] ELSE PoolRows[i]]
            new == [need |-> Resources(c), state |-> "waiting"]
            n == Len(jobs)
<1>1. PICK delay \in Nat :
        /\ DOMAIN jobs' = DOMAIN jobs \cup {n + 1}
        /\ jobs'[n + 1] = NewRow(c, delay)
        /\ \A i \in DOMAIN jobs : jobs'[i] = m[i]
  BY EnqueuedRows DEF TypeOK, TableOK
<1>2. JobId = 1..n /\ JobId' = 1..(n + 1) /\ n \in Nat
  BY <1>1 DEF JobId, TypeOK, TableOK
<1>3. R \subseteq JobId /\ R \subseteq Pool!In("waiting")
  <2>1. R \subseteq Pending /\ R \subseteq JobId
    BY DEF Replaced, Pending, WithStatus
  <2>. QED
    BY <2>1, PoolStates
<1>4. ASSUME NEW i \in JobId PROVE PoolRows'[i] = moved[i]
  <2>1. /\ m[i].cmd = jobs[i].cmd
        /\ m[i].status = IF i \in R THEN "CANCELED" ELSE jobs[i].status
    BY MarkedFields DEF JobId, Status
  <2>2. jobs'[i] = m[i] /\ i \in JobId'
    BY <1>1, <1>2 DEF JobId
  <2>. HIDE DEF m, R
  <2>3. PoolRows'[i] = PoolRow(jobs'[i]) /\ PoolRows[i] = PoolRow(jobs[i])
    BY <2>2 DEF PoolRows, PoolRow
  <2>4. CASE i \in R
    BY <2>1, <2>2, <2>3, <2>4, PoolRowMoved DEF PoolState
  <2>5. CASE i \notin R
    BY <2>1, <2>2, <2>3, <2>5 DEF PoolRow
  <2>. QED
    BY <2>4, <2>5
<1>5. PoolRows'[n + 1] = new
  <2>1. n + 1 \in JobId'
    BY <1>2
  <2>2. PoolRows'[n + 1] = PoolRow(jobs'[n + 1])
    BY <2>1 DEF PoolRows, PoolRow
  <2>. QED
    BY <1>1, <2>2 DEF NewRow, PoolRow, PoolState
<1>6. PoolRows' = Append(moved, new)
  <2>. DEFINE Moved == {moved[i] : i \in JobId} \cup {new}
  <2>1. moved \in Seq(Moved) /\ Len(moved) = n /\ new \in Moved
    <3>1. moved \in [1..n -> Moved]
      BY <1>2
    <3>. QED
      BY <1>2, <3>1
  <2>. HIDE DEF moved, new, n, Moved
  <2>2. /\ DOMAIN Append(moved, new) = 1..(n + 1)
        /\ \A i \in 1..n : Append(moved, new)[i] = moved[i]
        /\ Append(moved, new)[n + 1] = new
        /\ Append(moved, new) = [i \in 1..(n + 1) |-> Append(moved, new)[i]]
    <3>1. Append(moved, new) \in Seq(Moved) /\ Len(Append(moved, new)) = n + 1
      BY <1>2, <2>1
    <3>2. ASSUME NEW q \in Seq(Moved), Len(q) = n + 1
          PROVE  q \in [1..(n + 1) -> Moved]
      BY <3>2
    <3>3. \A i \in 1..n : Append(moved, new)[i] = moved[i]
      BY <1>2, <2>1
    <3>4. Append(moved, new)[n + 1] = new
      BY <1>2, <2>1
    <3>5. Append(moved, new) \in [1..(n + 1) -> Moved]
      BY <3>1, <3>2
    <3>. QED
      BY <3>3, <3>4, <3>5
  <2>3. DOMAIN PoolRows' = 1..(n + 1) /\ PoolRows' = [i \in 1..(n + 1) |-> PoolRows'[i]]
    BY <1>2 DEF PoolRows
  <2>4. \A i \in 1..(n + 1) : i \in 1..n \/ i = n + 1
    BY <1>2
  <2>5. \A i \in 1..(n + 1) : PoolRows'[i] = Append(moved, new)[i]
    BY <1>2, <1>4, <1>5, <2>2, <2>4
  <2>. QED
    BY <2>2, <2>3, <2>5
<1>7. moved = Pool!Moved(R, "over")
  BY DEF Pool!Moved, PoolRows, PoolRow
<1>. HIDE DEF moved, R
<1>8. Pool!Submit(Resources(c), R)
  BY <1>6, <1>7 DEF Pool!Submit, PoolRows, PoolRow
<1>9. R \in SUBSET Pool!In("waiting") /\ Resources(c) \in {Resources(d) : d \in Command}
  BY <1>3
<1>. QED
  BY <1>8, <1>9 DEF Pool!Next

(***************************************************************************)
(* The queue, its executors and its process, with every crash and every    *)
(* lost write, do to the commands what the pool does in single steps.      *)
(***************************************************************************)
THEOREM QueueImplementsPool == Spec => ImplementsPool
<1>1. Init => Pool!Init
  <2>. SUFFICES ASSUME Init PROVE Pool!Init
    OBVIOUS
  <2>1. jobs = <<>> /\ JobId = {}
    BY DEF Init, JobId
  <2>. QED
    BY <2>1 DEF Pool!Init
<1>2. Inv /\ [Next]_vars => [Pool!Next]_PoolRows
  <2>. SUFFICES ASSUME Inv, [Next]_vars PROVE Pool!Next \/ PoolRows' = PoolRows
    OBVIOUS
  <2>1. CASE UNCHANGED jobs
    BY <2>1 DEF PoolRows, PoolRow, JobId
  <2>2. CASE \E c \in Command : EnqueueBackgroundJob(c) /\ jobs' # jobs
    BY <2>2, EnqueueSubmits DEF Inv
  <2>3. CASE \E w \in Worker : pc[w] = "selected" /\ StillPending(w) /\ jobs' = Claimed(w)
    BY <2>3, ClaimStarts
  <2>4. CASE \E S \in SUBSET JobId, status \in Status : Marks(S, status)
    BY <2>4, MarkEnds DEF Inv
  <2>. QED
    BY <2>1, <2>2, <2>3, <2>4, NextTableStep DEF TableStep
<1>3. Inv /\ [Next]_vars =>
        [Pool!Next]_[i \in JobId |-> [need |-> Resources(jobs[i].cmd),
                                      state |-> PoolState(jobs[i].status)]]
  BY <1>2 DEF PoolRows, PoolRow
<1>. QED
  BY <1>1, <1>3, InvInit, InvNext, PTL DEF Spec, ImplementsPool, Pool!Spec
=============================================================================
