---------------------------- MODULE TaskSchedules ----------------------------
(***************************************************************************)
(* The task schedules (scheduler.py): the rows of task_schedules, the      *)
(* in-memory APScheduler that follows them, the route that edits one row   *)
(* and then the scheduler, and the refresh that reads every row and then   *)
(* brings the whole scheduler into line.  The editing routes and the       *)
(* refresh run in one event loop and give way to one another at every      *)
(* await: between reading a row and writing it, between the commit and the *)
(* cancellation of queued runs, between the refresh's SELECT and its loop. *)
(***************************************************************************)
EXTENDS Naturals

CONSTANTS
  Task,        \* tasks with a schedule
  CanDisable,  \* DISABLE_ABLE_TASKS: those that may be switched off
  Updater,     \* requests that may edit a schedule at the same time
  MaxUpdates   \* bound on the edits

ASSUME ScheduleAssumption == CanDisable \subseteq Task /\ MaxUpdates \in Nat

VARIABLES
  schedule,    \* task_schedules: enabled, schedule_type
  scheduler,   \* the trigger of each task's APScheduler job, if it has one
  update,      \* update_task_schedule in progress, by updater
  snapshot,    \* refresh_main_server_tasks in progress: the rows it has read
  drifted,     \* history: tasks whose last writers overlapped, or that were
               \* made manual while scheduled, since the last refresh
  updates      \* edits so far

scheduleVars == <<schedule, scheduler, update, snapshot, drifted, updates>>

ScheduleType == {"manual", "interval", "cron"}
Row == [enabled: BOOLEAN, type: ScheduleType]
Unscheduled == "unscheduled"

\* A seeded fault: manual tasks are scheduled like the others.
TriggerIfEnabled(row) == IF row.enabled THEN row.type ELSE Unscheduled

\* The scheduler entry a row calls for: manual tasks are not scheduled.
Trigger(row) ==
  IF row.enabled /\ row.type # "manual" THEN row.type ELSE Unscheduled

NoUpdate == [at |-> "idle"]
NoSnapshot == [reading |-> FALSE]
Editing == {u \in Updater : update[u].at # "idle"}
BeingEdited == {update[u].task : u \in Editing}

ScheduleTypeOK ==
  /\ schedule \in [Task -> Row]
  /\ scheduler \in [Task -> {Unscheduled, "interval", "cron"}]
  /\ \A u \in Editing :
       /\ update[u].at \in {"read", "committed", "cancelled"}
       /\ update[u].task \in Task
       /\ update[u].old \in Row /\ update[u].new \in Row
  /\ snapshot.reading => /\ snapshot.rows \in [Task -> Row]
                         /\ snapshot.alone \subseteq Task
  /\ drifted \subseteq Task

\* After setup_scheduler, with the kinds of row ensure_default_schedules makes.
ScheduleInit ==
  /\ schedule \in [Task -> [enabled: {TRUE}, type: {"manual", "cron"}]]
  /\ scheduler = [t \in Task |-> Trigger(schedule[t])]
  /\ update = [u \in Updater |-> NoUpdate]
  /\ snapshot = NoSnapshot
  /\ drifted = {}
  /\ updates = 0

-----------------------------------------------------------------------------
(***************************************************************************)
(* update_task_schedule.  The row is read, its changed columns are         *)
(* written, the queued runs of a task that was switched off are cancelled, *)
(* and only then is the scheduler changed.                                 *)
(***************************************************************************)
ReadSchedule(u) ==
  /\ update[u].at = "idle"
  /\ updates < MaxUpdates
  /\ \E t \in Task, row \in Row :
       /\ t \in CanDisable \/ row.enabled = schedule[t].enabled
       /\ update' = [update EXCEPT ![u] = [at |-> "read", task |-> t,
                                           old |-> schedule[t], new |-> row]]
       /\ drifted' = IF t \in BeingEdited \/ snapshot.reading
                     THEN drifted \cup {t} ELSE drifted
       /\ snapshot' = IF snapshot.reading
                      THEN [snapshot EXCEPT !.alone = @ \ {t}] ELSE snapshot
  /\ updates' = updates + 1
  /\ UNCHANGED <<schedule, scheduler>>

\* The session writes the columns that differ from what it read.
CommitSchedule(u) ==
  /\ update[u].at = "read"
  /\ LET old == update[u].old
         new == update[u].new
         now == schedule[update[u].task]
     IN schedule' = [schedule EXCEPT ![update[u].task] =
          [enabled |-> IF new.enabled = old.enabled THEN now.enabled ELSE new.enabled,
           type |-> IF new.type = old.type THEN now.type ELSE new.type]]
  /\ update' = [update EXCEPT ![u].at =
                  IF update[u].old.enabled /\ ~update[u].new.enabled
                  THEN "committed" ELSE "cancelled"]
  /\ UNCHANGED <<scheduler, snapshot, drifted, updates>>

\* The runs themselves are JobQueue's CancelPendingByDedupeKey.
CancelQueuedRuns(u) ==
  /\ update[u].at = "committed"
  /\ update' = [update EXCEPT ![u].at = "cancelled"]
  /\ UNCHANGED <<schedule, scheduler, snapshot, drifted, updates>>

\* A seeded fault: the job of a disabled task is left in the scheduler.
KeepDisabledJob(u) ==
  /\ update[u].at = "cancelled"
  /\ LET t == update[u].task
         new == update[u].new
     IN /\ scheduler' = IF Trigger(new) = Unscheduled THEN scheduler
                        ELSE [scheduler EXCEPT ![t] = Trigger(new)]
        /\ drifted' = IF new.enabled /\ new.type = "manual" /\ scheduler[t] # Unscheduled
                      THEN drifted \cup {t} ELSE drifted
  /\ update' = [update EXCEPT ![u] = NoUpdate]
  /\ UNCHANGED <<schedule, snapshot, updates>>

\* A manual schedule returns before the scheduler is touched.
ApplySchedule(u) ==
  /\ update[u].at = "cancelled"
  /\ LET t == update[u].task
         new == update[u].new
         returns == new.enabled /\ new.type = "manual"
     IN /\ scheduler' = IF returns THEN scheduler
                        ELSE [scheduler EXCEPT ![t] = Trigger(new)]
        /\ drifted' = IF returns /\ scheduler[t] # Unscheduled
                      THEN drifted \cup {t} ELSE drifted
  /\ update' = [update EXCEPT ![u] = NoUpdate]
  /\ UNCHANGED <<schedule, snapshot, updates>>

-----------------------------------------------------------------------------
(***************************************************************************)
(* refresh_main_server_tasks: one SELECT of every row, then one loop over  *)
(* what it returned that never gives way.                                  *)
(***************************************************************************)
ReadSchedules ==
  /\ ~snapshot.reading
  /\ snapshot' = [reading |-> TRUE, rows |-> schedule, alone |-> Task \ BeingEdited]
  /\ drifted' = drifted \cup BeingEdited
  /\ UNCHANGED <<schedule, scheduler, update, updates>>

RefreshSchedules ==
  /\ snapshot.reading
  /\ scheduler' = [t \in Task |-> Trigger(snapshot.rows[t])]
  /\ drifted' = drifted \ snapshot.alone
  /\ snapshot' = NoSnapshot
  /\ UNCHANGED <<schedule, update, updates>>

\* The process ends; setup_scheduler fills an empty scheduler from the rows.
SetupScheduler ==
  /\ scheduler' = [t \in Task |-> Trigger(schedule[t])]
  /\ update' = [u \in Updater |-> NoUpdate]
  /\ snapshot' = NoSnapshot
  /\ drifted' = {}
  /\ UNCHANGED <<schedule, updates>>

UpdateSchedule(u) ==
  ReadSchedule(u) \/ CommitSchedule(u) \/ CancelQueuedRuns(u) \/ ApplySchedule(u)

-----------------------------------------------------------------------------
(***************************************************************************)
(* What fires is what the rows say: once its edits are over, a task has    *)
(* exactly the APScheduler job its row calls for, and a disabled or manual *)
(* one has none - unless two writers of its entry overlapped or it was     *)
(* made manual while it had a job, and then only until the next refresh.   *)
(***************************************************************************)
SchedulerFollowsRows ==
  \A t \in Task \ (drifted \cup BeingEdited) : scheduler[t] = Trigger(schedule[t])
=============================================================================
