------------------------------ MODULE JobQueue ------------------------------
(***************************************************************************)
(* The durable command queue: the background_jobs table (jobs/queue.py),   *)
(* the executor loops that claim from it (core/worker.py), the producers   *)
(* of task runs and the switch that disables a task (core/task_runtime.py, *)
(* scheduler.py), the house keeping that deletes old rows                  *)
(* (tasks/house_keeping.py), and the process they live in, which may die   *)
(* and start again (api/main.py).                                          *)
(*                                                                         *)
(* One action is one committed statement or one SELECT: an await between   *)
(* two of them lets every other coroutine run.  The claim of a job is      *)
(* therefore three steps, made under an asyncio lock that excludes only    *)
(* other claims.                                                           *)
(***************************************************************************)
EXTENDS JobPolicy, Sequences, FiniteSets

CONSTANTS
  Command,        \* the commands that may be enqueued
  Worker,         \* the executor loops
  KeepRecent,     \* rows house keeping leaves (200 in the code)
  MaxJobs,        \* bound on the rows ever inserted
  MaxTime,        \* bound on the clock
  MaxCrashes,     \* bound on the deaths of the process
  MaxPollErrors,  \* bound on the polls that raise
  MaxLostWrites   \* bound on the final states that could not be stored

ASSUME CommandAssumption == Command \subseteq CommandType
ASSUME BoundAssumption ==
  /\ MaxJobs \in Nat /\ MaxTime \in Nat /\ MaxCrashes \in Nat
  /\ MaxPollErrors \in Nat /\ MaxLostWrites \in Nat
ASSUME KeepAssumption == KeepRecent \in Nat \ {0}

QueuedTask == {c.task : c \in Command} \cap Task

VARIABLES
  jobs,       \* the table, indexed by the autoincremented id
  now,        \* the clock scheduled_at is compared with
  enabled,    \* task_schedules: the tasks that are switched on
  proc,       \* the server process: "down", "boot" or "up"
  claimLock,  \* the holder of _job_claim_lock, {} when free
  busy,       \* the lock holder's snapshot of the resources in use
  pc,         \* where each executor is in its loop
  job,        \* the job each executor has selected or runs, 0 for none
  asked,      \* task runs found enabled and not yet inserted
  disabling,  \* tasks switched off whose queued runs are not yet canceled
  orphans,    \* jobs whose task child outlived the process that spawned it
  budget      \* crashes, failed polls and lost writes so far

vars == <<jobs, now, enabled, proc, claimLock, busy, pc, job, asked,
          disabling, orphans, budget>>

workerVars == <<claimLock, busy, pc, job>>
askVars == <<enabled, asked, disabling>>

\* The row of a TRIMMED job was deleted; the newest row never is, so its id
\* does not come back.
Status == {"PENDING", "RUNNING", "COMPLETED", "FAILED", "CANCELED", "TRIMMED"}
Active == {"PENDING", "RUNNING"}
Terminal == Status \ Active

Row == [cmd: Command, status: Status, sched: Nat, attempts: Nat,
        by: SUBSET Worker]

JobId == DOMAIN jobs
WithStatus(S) == {i \in JobId : jobs[i].status \in S}
Running == WithStatus({"RUNNING"})
Pending == WithStatus({"PENDING"})
Trimmed == WithStatus({"TRIMMED"})

TableOK == jobs \in Seq(Row) /\ now \in Nat

ProducersOK ==
  /\ enabled \subseteq QueuedTask
  /\ asked \subseteq Command
  /\ disabling \subseteq QueuedTask

ExecutorsOK ==
  /\ claimLock \subseteq Worker
  /\ busy \subseteq UNION {Resources(c) : c \in Command}
  /\ pc \in [Worker -> {"idle", "reading", "selected", "claimed", "working",
                        "returned", "raised"}]
  /\ job \in [Worker -> Nat]

ServerOK ==
  /\ proc \in {"down", "boot", "up"}
  /\ orphans \subseteq Nat
  /\ budget \in [{"crashes", "polls", "writes"} -> Nat]

TypeOK == TableOK /\ ProducersOK /\ ExecutorsOK /\ ServerOK

Init ==
  /\ jobs = <<>>
  /\ now = 0
  /\ enabled = QueuedTask
  /\ proc = "down"
  /\ claimLock = {}
  /\ busy = {}
  /\ pc = [w \in Worker |-> "idle"]
  /\ job = [w \in Worker |-> 0]
  /\ asked = {}
  /\ disabling = {}
  /\ orphans = {}
  /\ budget = [kind \in {"crashes", "polls", "writes"} |-> 0]

\* The table with the jobs in S in another status.
Marked(S, status) ==
  [i \in JobId |-> IF i \in S THEN [jobs[i] EXCEPT !.status = status]
                              ELSE jobs[i]]

-----------------------------------------------------------------------------
(***************************************************************************)
(* Producers.                                                              *)
(***************************************************************************)
NewRow(c, delay) ==
  [cmd |-> c, status |-> "PENDING", sched |-> now + delay, attempts |-> 0,
   by |-> {}]

Duplicates(c) == {i \in JobId : SameKey(c, jobs[i].cmd)}

\* Seeded fault: a run that is already executing is overlooked.
BlockingPendingOnly(c) ==
  IF SkipIfActive(c) THEN Duplicates(c) \cap Pending ELSE {}

\* Active rows that make an enqueue of c return without inserting.
Blocking(c) ==
  IF SkipIfActive(c) THEN Duplicates(c) \cap WithStatus(Active) ELSE {}

\* Rows an enqueue of c cancels first.
Replaced(c) == IF ReplacePending(c) THEN Duplicates(c) \cap Pending ELSE {}

(***************************************************************************)
(* enqueue_background_job: with a key the whole of it runs in one BEGIN    *)
(* IMMEDIATE transaction, without one it is a single INSERT.               *)
(***************************************************************************)
EnqueueBackgroundJob(c) ==
  IF Blocking(c) # {}
  THEN UNCHANGED jobs
  ELSE /\ Len(jobs) < MaxJobs
       /\ \E delay \in Delays(c) :
            /\ now + delay <= MaxTime
            /\ jobs' = Append(Marked(Replaced(c), "CANCELED"), NewRow(c, delay))

\* The commands that need no look at the schedule: everything but task runs.
EnqueueCommand(c) ==
  /\ proc = "up"
  /\ c.type # "TASK_RUN"
  /\ EnqueueBackgroundJob(c)
  /\ UNCHANGED <<now, enabled, proc, workerVars, asked, disabling, orphans,
                 budget>>

(***************************************************************************)
(* request_task_run reads the schedule, then enqueues in a transaction of  *)
(* its own.  The scheduler is started before the stale jobs are reset, so  *)
(* scheduled requests are already possible in "boot".                      *)
(***************************************************************************)
RequestTaskRun(c) ==
  /\ proc = "up" \/ (proc = "boot" /\ c.trigger = "scheduled")
  /\ c.type = "TASK_RUN"
  /\ c.task \in enabled
  /\ asked' = asked \cup {c}
  /\ UNCHANGED <<jobs, now, enabled, proc, workerVars, disabling, orphans,
                 budget>>

EnqueueTaskRun(c) ==
  /\ c \in asked
  /\ asked' = asked \ {c}
  /\ EnqueueBackgroundJob(c)
  /\ UNCHANGED <<now, enabled, proc, workerVars, disabling, orphans, budget>>

(***************************************************************************)
(* update_task_schedule: the flag is committed first, the queued runs of   *)
(* the task are canceled in a second transaction.                          *)
(***************************************************************************)
EnableTask(t) ==
  /\ proc = "up"
  /\ t \in DISABLE_ABLE_TASKS \ enabled
  /\ enabled' = enabled \cup {t}
  /\ UNCHANGED <<jobs, now, proc, workerVars, asked, disabling, orphans,
                 budget>>

DisableTask(t) ==
  /\ proc = "up"
  /\ t \in DISABLE_ABLE_TASKS \cap enabled
  /\ enabled' = enabled \ {t}
  /\ disabling' = disabling \cup {t}
  /\ UNCHANGED <<jobs, now, proc, workerVars, asked, orphans, budget>>

CancelPendingByDedupeKey(t) ==
  /\ t \in disabling
  /\ disabling' = disabling \ {t}
  /\ jobs' = Marked(Duplicates(TaskRun(t, "system", 0)) \cap Pending,
                    "CANCELED")
  /\ UNCHANGED <<now, enabled, proc, workerVars, asked, orphans, budget>>

Tick ==
  /\ now < MaxTime
  /\ now' = now + 1
  /\ UNCHANGED <<jobs, askVars, proc, workerVars, orphans, budget>>

-----------------------------------------------------------------------------
(***************************************************************************)
(* claim_next_background_job.                                              *)
(***************************************************************************)
InUse == UNION {Resources(jobs[i].cmd) : i \in Running}

\* Seeded fault: the claim does not wait for _job_claim_lock.
SelectRunningUnlocked(w) ==
  /\ proc = "up"
  /\ pc[w] = "idle"
  /\ claimLock' = {w}
  /\ busy' = InUse
  /\ pc' = [pc EXCEPT ![w] = "reading"]
  /\ UNCHANGED <<jobs, now, askVars, proc, job, orphans, budget>>

\* SELECT the running jobs; the claim lock is held from here on.
SelectRunning(w) ==
  /\ proc = "up"
  /\ pc[w] = "idle"
  /\ claimLock = {}
  /\ claimLock' = {w}
  /\ busy' = InUse
  /\ pc' = [pc EXCEPT ![w] = "reading"]
  /\ UNCHANGED <<jobs, now, askVars, proc, job, orphans, budget>>

\* ORDER BY priority_rank DESC, scheduled_at, id.
Before(i, k) ==
  LET p == PriorityRank(jobs[i].cmd)
      q == PriorityRank(jobs[k].cmd)
  IN  \/ p > q
      \/ p = q /\ jobs[i].sched < jobs[k].sched
      \/ p = q /\ jobs[i].sched = jobs[k].sched /\ i < k

\* Seeded fault: the resources in use are not looked at.
DueJobs == {i \in Pending : jobs[i].sched <= now}

Compatible ==
  {i \in Pending : jobs[i].sched <= now /\ Resources(jobs[i].cmd) \cap busy = {}}

\* SELECT the due jobs and keep the first compatible one.
SelectPending(w) ==
  /\ pc[w] = "reading"
  /\ \E i \in Compatible :
       /\ \A k \in Compatible \ {i} : Before(i, k)
       /\ job' = [job EXCEPT ![w] = i]
  /\ pc' = [pc EXCEPT ![w] = "selected"]
  /\ UNCHANGED <<jobs, now, askVars, proc, claimLock, busy, orphans, budget>>

Released(w) ==
  /\ claimLock' = {}
  /\ busy' = {}
  /\ UNCHANGED <<now, askVars, proc, orphans>>

BackToIdle(w) ==
  /\ pc' = [pc EXCEPT ![w] = "idle"]
  /\ job' = [job EXCEPT ![w] = 0]

NothingToClaim(w) ==
  /\ pc[w] = "reading"
  /\ Compatible = {}
  /\ BackToIdle(w)
  /\ Released(w)
  /\ UNCHANGED <<jobs, budget>>

\* The UPDATE ... WHERE status = PENDING that takes the selected row.
Claimed(w) ==
  LET row == jobs[job[w]]
  IN  [jobs EXCEPT ![job[w]] = [row EXCEPT !.status = "RUNNING",
                                           !.attempts = row.attempts + 1,
                                           !.by = {w}]]

\* Seeded fault: the UPDATE that claims does not recheck the status.
AlwaysClaimable(w) == job[w] \in JobId

StillPending(w) == job[w] \in Pending

CommitClaim(w) ==
  /\ pc[w] = "selected"
  /\ StillPending(w)
  /\ jobs' = Claimed(w)
  /\ pc' = [pc EXCEPT ![w] = "claimed"]
  /\ Released(w)
  /\ UNCHANGED <<job, budget>>

\* The row was canceled since it was selected: rollback and poll again.
RollBackClaim(w) ==
  /\ pc[w] = "selected"
  /\ ~StillPending(w)
  /\ BackToIdle(w)
  /\ Released(w)
  /\ UNCHANGED <<jobs, budget>>

\* The claim is committed but reading the row back raises: the loop takes it
\* for a failed poll, and the row stays RUNNING without an executor.
LoseClaim(w) ==
  /\ pc[w] = "selected"
  /\ StillPending(w)
  /\ budget["writes"] < MaxLostWrites
  /\ budget' = [budget EXCEPT !["writes"] = @ + 1]
  /\ jobs' = Claimed(w)
  /\ BackToIdle(w)
  /\ Released(w)

PollFails(w) ==
  /\ pc[w] \in {"reading", "selected"}
  /\ budget["polls"] < MaxPollErrors
  /\ budget' = [budget EXCEPT !["polls"] = @ + 1]
  /\ BackToIdle(w)
  /\ Released(w)
  /\ UNCHANGED jobs

-----------------------------------------------------------------------------
(***************************************************************************)
(* worker_loop, from the claimed job to the stored outcome.                *)
(***************************************************************************)
Advance(w, from, to) ==
  /\ pc[w] = from
  /\ pc' = [pc EXCEPT ![w] = to]
  /\ UNCHANGED <<jobs, now, askVars, proc, claimLock, busy, job, orphans>>

Cmd(w) == jobs[job[w]].cmd

\* Seeded fault: the schedule is not looked at again.
NeverSwitchedOff(w) == job[w] \notin JobId

\* execute_task looks at the schedule once more before it does anything.
SwitchedOff(w) == Cmd(w).type = "TASK_RUN" /\ Cmd(w).task \notin enabled

StartWork(w) ==
  /\ Advance(w, "claimed", "working")
  /\ ~SwitchedOff(w)
  /\ UNCHANGED budget

SkipWork(w) ==
  /\ Advance(w, "claimed", "returned")
  /\ SwitchedOff(w)
  /\ UNCHANGED budget

WorkReturns(w) == Advance(w, "working", "returned") /\ UNCHANGED budget

WorkRaises(w) == Advance(w, "working", "raised") /\ UNCHANGED budget

\* The rows beyond the most recent ones, whatever their status.
Old ==
  {i \in JobId \ Trimmed :
     Cardinality({k \in JobId \ Trimmed : k > i}) >= KeepRecent}

\* weekly_house_keeping, unless the deletion fails, which is only logged.
TrimBackgroundJobs(w) ==
  /\ pc[w] = "working"
  /\ Cmd(w).task = "WEEKLY_HOUSE_KEEPING"
  /\ jobs' = Marked(Old, "TRIMMED")
  /\ pc' = [pc EXCEPT ![w] = "returned"]
  /\ UNCHANGED <<now, askVars, proc, claimLock, busy, job, orphans, budget>>

\* An UPDATE by id: nothing happens when the row is gone.
StoreOutcome(w, from, status) ==
  /\ pc[w] = from
  /\ jobs' = Marked({job[w]} \ Trimmed, status)
  /\ BackToIdle(w)
  /\ UNCHANGED <<now, askVars, proc, claimLock, busy, orphans, budget>>

CompleteBackgroundJob(w) == StoreOutcome(w, "returned", "COMPLETED")

FailBackgroundJob(w) == StoreOutcome(w, "raised", "FAILED")

LoseWrite ==
  /\ budget["writes"] < MaxLostWrites
  /\ budget' = [budget EXCEPT !["writes"] = @ + 1]

\* complete_background_job raises: the finished job is reported as failed.
CompleteRaises(w) == Advance(w, "returned", "raised") /\ LoseWrite

\* fail_background_job raises too: it is logged and the row stays RUNNING.
FailRaises(w) ==
  /\ pc[w] = "raised"
  /\ LoseWrite
  /\ BackToIdle(w)
  /\ UNCHANGED <<jobs, now, askVars, proc, claimLock, busy, orphans>>

-----------------------------------------------------------------------------
(***************************************************************************)
(* The process.  A killed server leaves its rows as they are; a task child *)
(* is not killed with it, so it may work on.                               *)
(***************************************************************************)
\* The jobs whose task runs in a child process at this moment.
TaskChildren ==
  {i \in JobId : \E w \in Worker :
                  pc[w] = "working" /\ job[w] = i /\ Isolated(jobs[i].cmd)}

Crash ==
  /\ proc # "down"
  /\ budget["crashes"] < MaxCrashes
  /\ budget' = [budget EXCEPT !["crashes"] = @ + 1]
  /\ \E S \in SUBSET TaskChildren : orphans' = orphans \cup S
  /\ proc' = "down"
  /\ claimLock' = {}
  /\ busy' = {}
  /\ pc' = [w \in Worker |-> "idle"]
  /\ job' = [w \in Worker |-> 0]
  /\ asked' = {}
  /\ disabling' = {}
  /\ UNCHANGED <<jobs, now, enabled>>

StartScheduler ==
  /\ proc = "down"
  /\ proc' = "boot"
  /\ UNCHANGED <<jobs, now, askVars, workerVars, orphans, budget>>

StaleJobs(procs, status) ==
  /\ proc \in procs
  /\ proc' = "up"
  /\ jobs' = Marked(Running, status)
  /\ UNCHANGED <<now, askVars, workerVars, orphans, budget>>

\* Seeded faults: the reset may run beside the executors; it queues the stale
\* jobs again; it leaves them as they are.
ResetWhileUp == StaleJobs({"boot", "up"}, "FAILED")
RequeueStaleJobs == StaleJobs({"boot"}, "PENDING")
KeepStaleJobs == StaleJobs({"boot"}, "RUNNING")

\* reset_stale_jobs, before the executors are started.
ResetStaleJobs == StaleJobs({"boot"}, "FAILED")

OrphanExits ==
  /\ \E i \in orphans : orphans' = orphans \ {i}
  /\ UNCHANGED <<jobs, now, askVars, proc, workerVars, budget>>

-----------------------------------------------------------------------------
WorkerStep(w) ==
  \/ SelectRunning(w) \/ SelectPending(w) \/ NothingToClaim(w)
  \/ CommitClaim(w) \/ RollBackClaim(w) \/ LoseClaim(w) \/ PollFails(w)
  \/ StartWork(w) \/ SkipWork(w) \/ WorkReturns(w) \/ WorkRaises(w)
  \/ TrimBackgroundJobs(w)
  \/ CompleteBackgroundJob(w) \/ FailBackgroundJob(w)
  \/ CompleteRaises(w) \/ FailRaises(w)

Next ==
  \/ \E w \in Worker : WorkerStep(w)
  \/ \E c \in Command :
       EnqueueCommand(c) \/ RequestTaskRun(c) \/ EnqueueTaskRun(c)
  \/ \E t \in QueuedTask :
       EnableTask(t) \/ DisableTask(t) \/ CancelPendingByDedupeKey(t)
  \/ Tick
  \/ Crash \/ StartScheduler \/ ResetStaleJobs \/ OrphanExits

Spec == Init /\ [][Next]_vars

(***************************************************************************)
(* The executor loops keep running, the body of a job ends (every provider *)
(* call has a timeout), time passes, and a server that went down is        *)
(* started again and boots.  Nothing obliges a producer to enqueue, an     *)
(* administrator to switch a task, or the process to die.                  *)
(***************************************************************************)
Fairness ==
  /\ \A w \in Worker : WF_vars(WorkerStep(w))
  /\ WF_vars(Tick)
  /\ WF_vars(StartScheduler)
  /\ WF_vars(ResetStaleJobs)

FairSpec == Spec /\ Fairness

-----------------------------------------------------------------------------
Holding(w) == pc[w] \in {"claimed", "working", "returned", "raised"}

(***************************************************************************)
(* Two rows in status RUNNING never need the same resource, although the   *)
(* claim works from two SELECTs that enqueues, cancellations and finishing *)
(* jobs overtake (claim_next_background_job).                              *)
(***************************************************************************)
ResourcesExclusive ==
  \A i, k \in Running :
    i # k => Resources(jobs[i].cmd) \cap Resources(jobs[k].cmd) = {}

(***************************************************************************)
(* The executors of the living process never run the same job or jobs that *)
(* share a resource, and the row of a job one of them runs is RUNNING: a   *)
(* restart's reset never pulls the row from under an executor.  Only house *)
(* keeping does, and such a job no longer excludes the others.             *)
(***************************************************************************)
ExecutorsExclusive ==
  \A w, v \in Worker :
    Holding(w) =>
      /\ job[w] \in Running \cup Trimmed
      /\ Holding(v) /\ v # w =>
           /\ job[v] # job[w]
           /\ {job[w], job[v]} \subseteq Running =>
                Resources(Cmd(w)) \cap Resources(Cmd(v)) = {}

(***************************************************************************)
(* skip_if_active and replace_pending: of the rows with one key at most    *)
(* one is active when the producer skips, at most one waits when the       *)
(* producer replaces.                                                      *)
(***************************************************************************)
NoDuplicates ==
  \A i, k \in JobId :
    i # k /\ SameKey(jobs[i].cmd, jobs[k].cmd) =>
      /\ ~({i, k} \subseteq Pending)
      /\ SkipIfActive(jobs[i].cmd) => ~({i, k} \subseteq WithStatus(Active))

(***************************************************************************)
(* Whatever crashes and races with cancellation happen, a job is started   *)
(* at most once, and never when it was canceled while it waited.           *)
(***************************************************************************)
StartedAtMostOnce ==
  \A i \in JobId :
    /\ jobs[i].attempts <= 1
    /\ jobs[i].status \in {"CANCELED", "PENDING"} => jobs[i].attempts = 0

(***************************************************************************)
(* A job that reached a final status keeps it until its row is deleted:    *)
(* neither a late worker nor the reset at startup rewrites the history of  *)
(* a command or brings a deleted one back.                                 *)
(***************************************************************************)
FinalStatusKept ==
  [][\A i \in WithStatus(Terminal) :
       jobs'[i] \in {jobs[i], [jobs[i] EXCEPT !.status = "TRIMMED"]}]_vars

(***************************************************************************)
(* No executor starts the body of a task that is switched off, however the *)
(* request, the switch and the cancellation of queued runs interleave.     *)
(***************************************************************************)
DisabledNeverStarts ==
  [][\A w \in Worker :
       pc[w] # "working" /\ pc'[w] = "working" /\ Cmd(w).type = "TASK_RUN"
         => Cmd(w).task \in enabled]_vars

(***************************************************************************)
(* A task child that outlives its server is no longer any command's: once  *)
(* executors claim again, its row is settled, so that it neither holds     *)
(* resources for ever nor is taken for work that this process watches.     *)
(***************************************************************************)
OrphansAreOver ==
  proc = "up" => \A i \in orphans : jobs[i].status \in Terminal

(***************************************************************************)
(* Every queued job is over in the end, whatever resources others hold and *)
(* however often the process dies, unless an outcome could not be stored;  *)
(* it may end by being trimmed.                                            *)
(***************************************************************************)
EveryJobEnds ==
  \A i \in 1..MaxJobs :
    i \in WithStatus(Active) ~>
      i \in WithStatus(Terminal) \/ budget["writes"] > 0

(***************************************************************************)
(* The queue implements the pool of atomic commands.                       *)
(***************************************************************************)
PoolState(status) ==
  CASE status = "PENDING" -> "waiting"
    [] status = "RUNNING" -> "running"
    [] OTHER -> "over"

Pool == INSTANCE CommandPool
          WITH Need <- {Resources(c) : c \in Command},
               rows <- [i \in JobId |->
                          [need |-> Resources(jobs[i].cmd),
                           state |-> PoolState(jobs[i].status)]]

ImplementsPool == Pool!Spec
=============================================================================
