------------------------ MODULE ServiceSettings_proofs ------------------------
(***************************************************************************)
(* For any servers, requests, schedules and bounds: there is one main      *)
(* server, the clients of the service manager follow the stored rows, and  *)
(* the scheduler follows the stored schedules.                             *)
(***************************************************************************)
EXTENDS ServiceSettings, SequenceTheorems, TLAPS

-----------------------------------------------------------------------------
(***************************************************************************)
(* The types of what TypeOK leaves open: an edit, a snapshot, a request    *)
(* and a toggle at each of their steps.                                    *)
(***************************************************************************)
Updates ==
  {NoUpdate} \cup [at : {"read", "committed", "cancelled"}, task : Task, old : Row, new : Row]

Snapshots ==
  {NoSnapshot} \cup [reading : {TRUE}, rows : [Task -> Row], alone : SUBSET Task]

\* A disabled server is never saved as the main one.
Savable == {row \in Stored : row.main => row.enabled}

Requests ==
  {NoRequest}
    \cup [at : {"tested"}, id : Config, row : Savable, update : BOOLEAN]
    \cup [at : {"checked", "saved", "found"}, id : Config, row : Savable,
          update : BOOLEAN, resync : BOOLEAN]
    \cup [at : {"deleting", "deleted", "cleared", "refreshing"}, id : Config]

Toggles ==
  {NoToggle} \cup
    [at : {"claimed", "matched", "cleared", "applied", "refreshing", "done"}, job : Payload]

SchedulesTyped ==
  /\ schedule \in [Task -> Row]
  /\ scheduler \in [Task -> {Unscheduled, "interval", "cron"}]
  /\ update \in [Updater -> Updates]
  /\ snapshot \in Snapshots
  /\ drifted \subseteq Task
  /\ updates \in Nat

ServicesTyped ==
  /\ config \in [Config -> Savable \cup {Absent}]
  /\ queue \in Seq(Payload)
  /\ toggle \in Toggles
  /\ request \in [Handler -> Requests]
  /\ client \in [Config -> Url \cup {None}]
  /\ main \in Config \cup {None}
  /\ resync \in BOOLEAN
  /\ passedOver \subseteq Config /\ failed \subseteq Config

-----------------------------------------------------------------------------
(***************************************************************************)
(* The schedules.  Of two edits of one task, the second has marked it.     *)
(***************************************************************************)
EditsApart ==
  \A u, v \in Editing :
    u # v /\ update[u].task = update[v].task => update[u].task \in drifted

\* A lone edit writes what it read was changed to, over what it read.
EditsAreCurrent ==
  \A u \in Editing : update[u].task \notin drifted =>
    schedule[update[u].task] =
      IF update[u].at = "read" THEN update[u].old ELSE update[u].new

\* What a refresh has read is still true of the tasks nobody edits meanwhile.
SnapshotIsCurrent ==
  snapshot.reading =>
    /\ snapshot.alone \cap BeingEdited = {}
    /\ Task \ snapshot.alone \subseteq drifted
    /\ \A t \in snapshot.alone : snapshot.rows[t] = schedule[t]

SchedulesInv ==
  SchedulesTyped /\ EditsApart /\ EditsAreCurrent /\ SnapshotIsCurrent
    /\ SchedulerFollowsRows

-----------------------------------------------------------------------------
(***************************************************************************)
(* The services.  A change is carried by a request, a job or a toggle; a   *)
(* configuration with two carriers has been passed over.                   *)
(***************************************************************************)
Jobs(q) == {q[i] : i \in DOMAIN q}
Queued == {job.id : job \in Jobs(queue)}
Toggled == IF toggle = NoToggle THEN {} ELSE {toggle.job.id}

Distinct(q) == \A i, j \in DOMAIN q : q[i].id = q[j].id => i = j
QueuedOnce == Distinct(queue)

OneCarrier ==
  /\ \A h, k \in Serving : h # k /\ request[h].id = request[k].id
       => request[h].id \in passedOver
  /\ \A h \in Serving : request[h].id \in Queued \cup Toggled
       => request[h].id \in passedOver
  /\ Toggled \cap Queued \subseteq passedOver

ClientOf(c) ==
  IF config[c].exists /\ config[c].enabled /\ c \notin failed THEN config[c].url ELSE None

\* The servers whose client and whose place as the main one follow their row.
Settled ==
  {c \in Config : /\ client[c] = ClientOf(c)
                  /\ c \in Mains /\ client[c] # None => main = c}

\* What each carrier promises of a configuration it alone carries.
RequestsKeep ==
  \A h \in Serving : request[h].id \notin passedOver =>
    /\ request[h].at \in {"tested", "checked"} =>
         request[h].update = config[request[h].id].exists
    /\ request[h].at \in {"saved", "found"} => config[request[h].id] = request[h].row
    /\ request[h].at \in {"deleted", "cleared", "refreshing"} =>
         config[request[h].id] = Absent
    /\ request[h].at \in {"cleared", "refreshing"} => request[h].id \in Settled

QueueKeeps ==
  \A job \in Jobs(queue) : job.id \notin passedOver =>
    config[job.id] = job.row \/ job.id \in Settled

ToggleKeeps ==
  toggle # NoToggle =>
    /\ toggle.at = "cleared" => toggle.job.row.enabled
    /\ toggle.job.id \notin passedOver =>
         /\ toggle.at = "claimed" =>
              config[toggle.job.id] = toggle.job.row \/ toggle.job.id \in Settled
         /\ toggle.at \in {"matched", "cleared"} => config[toggle.job.id] = toggle.job.row
         /\ toggle.at = "cleared" =>
              client[toggle.job.id] = None /\ toggle.job.id \notin failed
         /\ toggle.at \in {"applied", "refreshing", "done"} => toggle.job.id \in Settled

\* While a toggle is about to make its server the main one, whatever was
\* promoted since will have a toggle of its own after it.
PromotionsComeAfter ==
  toggle.at \in {"matched", "cleared"} /\ toggle.job.row.main =>
    \A d \in Mains \ {toggle.job.id} :
      \/ d \in passedOver
      \/ \E h \in Serving : request[h].id = d /\ request[h].at \in {"saved", "found"}
      \/ \E job \in Jobs(queue) : job.id = d /\ job.row = config[d]

OthersFollow == Config \ (OnTheWay \cup passedOver) \subseteq Settled

MainHasClient == main # None => client[main] # None

ServicesInv ==
  /\ ServicesTyped /\ OneMainServer /\ QueuedOnce /\ OneCarrier
  /\ RequestsKeep /\ QueueKeeps /\ ToggleKeeps /\ PromotionsComeAfter
  /\ OthersFollow /\ MainHasClient

Inv == SchedulesInv /\ ServicesInv

-----------------------------------------------------------------------------
(***************************************************************************)
(* The schedules.                                                          *)
(***************************************************************************)
\* What a row calls for is a scheduler entry.
LEMMA TriggerType == \A row \in Row : Trigger(row) \in {Unscheduled, "interval", "cron"}
BY DEF Row, ScheduleType, Trigger, Unscheduled

\* An edit under way has a task and two rows.
LEMMA EditingType ==
  ASSUME SchedulesTyped, NEW u \in Editing
  PROVE  /\ u \in Updater /\ update[u].task \in Task /\ update[u].task \in BeingEdited
         /\ update[u].at \in {"read", "committed", "cancelled"}
         /\ update[u].old \in Row /\ update[u].new \in Row
         /\ update[u] \in [at : {"read", "committed", "cancelled"}, task : Task,
                           old : Row, new : Row]
BY DEF SchedulesTyped, Updates, Editing, BeingEdited, NoUpdate

\* Reading a row starts an edit; a second one of the same task is noticed.
LEMMA ReadScheduleInv ==
  ASSUME SchedulesInv, NEW u \in Updater, ReadSchedule(u)
  PROVE  SchedulesInv'
<1> USE DEF SchedulesInv
<1>1. PICK t \in Task, row \in Row :
        /\ update' = [update EXCEPT ![u] = [at |-> "read", task |-> t,
                                            old |-> schedule[t], new |-> row]]
        /\ drifted' = IF t \in BeingEdited \/ snapshot.reading
                      THEN drifted \cup {t} ELSE drifted
        /\ snapshot' = IF snapshot.reading
                       THEN [snapshot EXCEPT !.alone = @ \ {t}] ELSE snapshot
  BY DEF ReadSchedule
<1>2. /\ update[u].at = "idle" /\ updates \in Nat /\ updates' = updates + 1
      /\ UNCHANGED <<schedule, scheduler>>
  BY DEF ReadSchedule, SchedulesTyped
<1>3. /\ Editing' = Editing \cup {u} /\ u \notin Editing
      /\ \A v \in Editing : update'[v] = update[v]
      /\ update'[u] = [at |-> "read", task |-> t, old |-> schedule[t], new |-> row]
      /\ schedule[t] \in Row
  BY <1>1, <1>2 DEF Editing, SchedulesTyped
<1>4. BeingEdited' = BeingEdited \cup {t}
  BY <1>3 DEF BeingEdited
<1>5. drifted \subseteq drifted' /\ (t \in BeingEdited => t \in drifted')
  BY <1>1
<1>6. SchedulesTyped'
  <2>1. update' \in [Updater -> Updates]
    BY <1>1, <1>3 DEF SchedulesTyped, Updates
  <2>2. snapshot' \in Snapshots
    BY <1>1 DEF SchedulesTyped, Snapshots, NoSnapshot
  <2> QED
    BY <1>1, <1>2, <2>1, <2>2 DEF SchedulesTyped
<1>7. EditsApart'
  <2> SUFFICES ASSUME NEW v \in Editing', NEW w \in Editing', v # w,
                      update'[v].task = update'[w].task
               PROVE  update'[v].task \in drifted'
      BY DEF EditsApart
  <2>1. CASE v \in Editing /\ w \in Editing
    BY <2>1, <1>3, <1>5 DEF EditsApart
  <2>2. CASE v = u \/ w = u
    BY <2>2, <1>3, <1>5, EditingType
  <2> QED
    BY <2>1, <2>2, <1>3
<1>8. EditsAreCurrent'
  <2> SUFFICES ASSUME NEW v \in Editing', update'[v].task \notin drifted'
               PROVE  schedule'[update'[v].task] =
                        IF update'[v].at = "read" THEN update'[v].old ELSE update'[v].new
      BY DEF EditsAreCurrent
  <2> QED
    BY <1>2, <1>3, <1>5 DEF EditsAreCurrent
<1>9. SnapshotIsCurrent'
  <2> SUFFICES ASSUME snapshot'.reading
               PROVE  /\ snapshot'.alone \cap BeingEdited' = {}
                      /\ Task \ snapshot'.alone \subseteq drifted'
                      /\ \A x \in snapshot'.alone : snapshot'.rows[x] = schedule'[x]
      BY DEF SnapshotIsCurrent
  <2>1. snapshot.reading
    BY <1>1
  <2>2. snapshot' = [snapshot EXCEPT !.alone = @ \ {t}]
    BY <2>1, <1>1
  <2>3. snapshot'.alone = snapshot.alone \ {t} /\ snapshot'.rows = snapshot.rows
    BY <2>1, <2>2 DEF SchedulesTyped, Snapshots, NoSnapshot
  <2>4. t \in drifted'
    BY <2>1, <1>1
  <2> QED
    BY <2>1, <2>3, <2>4, <1>2, <1>4, <1>5 DEF SnapshotIsCurrent
<1>10. SchedulerFollowsRows'
  BY <1>2, <1>4, <1>5 DEF SchedulerFollowsRows
<1> QED
  BY <1>6, <1>7, <1>8, <1>9, <1>10

\* The commit of a lone edit makes the row what the edit asked for.
LEMMA CommitScheduleInv ==
  ASSUME SchedulesInv, NEW u \in Updater, CommitSchedule(u)
  PROVE  SchedulesInv'
<1> DEFINE t == update[u].task
           old == update[u].old
           new == update[u].new
           now == schedule[t]
           row == [enabled |-> IF new.enabled = old.enabled THEN now.enabled ELSE new.enabled,
                   type |-> IF new.type = old.type THEN now.type ELSE new.type]
<1> USE DEF SchedulesInv
<1>1. /\ update[u].at = "read" /\ schedule' = [schedule EXCEPT ![t] = row]
      /\ update' = [update EXCEPT ![u].at =
                      IF old.enabled /\ ~new.enabled THEN "committed" ELSE "cancelled"]
      /\ UNCHANGED <<scheduler, snapshot, drifted, updates>>
  BY DEF CommitSchedule
<1>2. u \in Editing
  BY <1>1 DEF Editing
<1>3. /\ t \in Task /\ t \in BeingEdited /\ old \in Row /\ new \in Row
      /\ update[u] \in [at : {"read", "committed", "cancelled"}, task : Task,
                        old : Row, new : Row]
  BY <1>2, EditingType
<1>4. now \in Row /\ row \in Row
  BY <1>3 DEF SchedulesTyped, Row
<1>5. /\ update'[u].at \in {"committed", "cancelled"}
      /\ update'[u].task = t /\ update'[u].old = old /\ update'[u].new = new
      /\ update'[u] \in Updates
      /\ \A v \in Updater : v # u => update'[v] = update[v]
      /\ update' \in [Updater -> Updates]
  BY <1>1, <1>3 DEF SchedulesTyped, Updates
<1>6. Editing' = Editing
  BY <1>2, <1>5 DEF Editing
<1>7. BeingEdited' = BeingEdited
  BY <1>5, <1>6 DEF BeingEdited, Editing
<1>8. t \notin drifted => schedule'[t] = new
  <2> SUFFICES ASSUME t \notin drifted PROVE row = new
      BY <1>1, <1>3 DEF SchedulesTyped
  <2>1. now = old
    BY <1>1, <1>2 DEF EditsAreCurrent
  <2> QED
    BY <2>1, <1>3 DEF Row
<1>9. SchedulesTyped'
  BY <1>1, <1>4, <1>5 DEF SchedulesTyped
<1>10. EditsApart'
  BY <1>1, <1>5, <1>6 DEF EditsApart, Editing
<1>11. EditsAreCurrent'
  <2> SUFFICES ASSUME NEW v \in Editing, update'[v].task \notin drifted
               PROVE  schedule'[update'[v].task] =
                        IF update'[v].at = "read" THEN update'[v].old ELSE update'[v].new
      BY <1>1, <1>6 DEF EditsAreCurrent
  <2>1. CASE v = u
    BY <2>1, <1>5, <1>8
  <2>2. CASE v # u
    <3>1. update'[v] = update[v] /\ update[v].task # t
      BY <2>2, <1>2, <1>5 DEF EditsApart, Editing
    <3> QED
      BY <3>1, <1>1 DEF EditsAreCurrent
  <2> QED
    BY <2>1, <2>2
<1>12. SnapshotIsCurrent'
  BY <1>1, <1>3, <1>7 DEF SnapshotIsCurrent
<1>13. SchedulerFollowsRows'
  BY <1>1, <1>3, <1>7 DEF SchedulerFollowsRows
<1> QED
  BY <1>9, <1>10, <1>11, <1>12, <1>13

\* Cancelling the queued runs leaves the schedules alone.
LEMMA CancelQueuedRunsInv ==
  ASSUME SchedulesInv, NEW u \in Updater, CancelQueuedRuns(u)
  PROVE  SchedulesInv'
<1> USE DEF SchedulesInv
<1>1. /\ update[u].at = "committed" /\ update' = [update EXCEPT ![u].at = "cancelled"]
      /\ UNCHANGED <<schedule, scheduler, snapshot, drifted, updates>>
  BY DEF CancelQueuedRuns
<1>2. u \in Editing
  BY <1>1 DEF Editing
<1>3. /\ update'[u].at = "cancelled" /\ update'[u].task = update[u].task
      /\ update'[u].old = update[u].old /\ update'[u].new = update[u].new
      /\ update' \in [Updater -> Updates]
      /\ \A v \in Updater : v # u => update'[v] = update[v]
  BY <1>1, <1>2, EditingType DEF SchedulesTyped, Updates
<1>4. Editing' = Editing
  BY <1>2, <1>3 DEF Editing
<1>5. BeingEdited' = BeingEdited
  BY <1>3, <1>4 DEF BeingEdited, Editing
<1>6. SchedulesTyped'
  BY <1>1, <1>3 DEF SchedulesTyped
<1>7. EditsApart' /\ EditsAreCurrent'
  BY <1>1, <1>3, <1>4 DEF EditsApart, EditsAreCurrent, Editing
<1>8. SnapshotIsCurrent' /\ SchedulerFollowsRows'
  BY <1>1, <1>5 DEF SnapshotIsCurrent, SchedulerFollowsRows
<1> QED
  BY <1>6, <1>7, <1>8

\* The last step of a lone edit makes the scheduler follow the row it wrote.
LEMMA ApplyScheduleInv ==
  ASSUME SchedulesInv, NEW u \in Updater, ApplySchedule(u)
  PROVE  SchedulesInv'
<1> DEFINE t == update[u].task
           new == update[u].new
           returns == new.enabled /\ new.type = "manual"
<1> USE DEF SchedulesInv
<1>1. /\ update[u].at = "cancelled"
      /\ scheduler' = IF returns THEN scheduler ELSE [scheduler EXCEPT ![t] = Trigger(new)]
      /\ drifted' = IF returns /\ scheduler[t] # Unscheduled THEN drifted \cup {t} ELSE drifted
      /\ update' = [update EXCEPT ![u] = NoUpdate]
      /\ UNCHANGED <<schedule, snapshot, updates>>
  BY DEF ApplySchedule
<1>2. u \in Editing /\ t \in Task /\ t \in BeingEdited /\ new \in Row
  BY <1>1, EditingType DEF Editing
<1>3. /\ update' \in [Updater -> Updates] /\ update'[u].at = "idle"
      /\ \A v \in Updater : v # u => update'[v] = update[v]
  BY <1>1 DEF SchedulesTyped, Updates, NoUpdate
<1>4. Editing' = Editing \ {u}
  BY <1>3 DEF Editing
<1>5. BeingEdited' \subseteq BeingEdited /\ BeingEdited \ BeingEdited' \subseteq {t}
  BY <1>3, <1>4 DEF BeingEdited, Editing
<1>6. drifted \subseteq drifted' /\ drifted' \subseteq Task
  BY <1>1, <1>2 DEF SchedulesTyped
<1>7. SchedulesTyped'
  BY <1>1, <1>2, <1>3, <1>6, TriggerType DEF SchedulesTyped
<1>8. EditsApart' /\ EditsAreCurrent'
  BY <1>1, <1>3, <1>4, <1>6 DEF EditsApart, EditsAreCurrent, Editing
<1>9. SnapshotIsCurrent'
  BY <1>1, <1>5, <1>6 DEF SnapshotIsCurrent
<1>10. SchedulerFollowsRows'
  <2> SUFFICES ASSUME NEW x \in Task, x \notin drifted', x \notin BeingEdited'
               PROVE  scheduler'[x] = Trigger(schedule[x])
      BY <1>1 DEF SchedulerFollowsRows
  <2>1. CASE x = t
    <3>1. schedule[t] = new
      BY <2>1, <1>1, <1>2, <1>6 DEF EditsAreCurrent
    <3>2. returns => scheduler[t] = Unscheduled /\ Trigger(new) = Unscheduled
      BY <2>1, <1>1 DEF Trigger
    <3> QED
      BY <2>1, <3>1, <3>2, <1>1, <1>2 DEF SchedulesTyped
  <2>2. CASE x # t
    <3>1. scheduler'[x] = scheduler[x]
      BY <2>2, <1>1, <1>2 DEF SchedulesTyped
    <3> QED
      BY <2>2, <3>1, <1>5, <1>6 DEF SchedulerFollowsRows
  <2> QED
    BY <2>1, <2>2
<1> QED
  BY <1>7, <1>8, <1>9, <1>10

\* A refresh reads the rows and marks what is being edited.
LEMMA ReadSchedulesInv ==
  ASSUME SchedulesInv, ReadSchedules
  PROVE  SchedulesInv'
<1> USE DEF SchedulesInv
<1>1. /\ snapshot' = [reading |-> TRUE, rows |-> schedule, alone |-> Task \ BeingEdited]
      /\ drifted' = drifted \cup BeingEdited
      /\ UNCHANGED <<schedule, scheduler, update, updates>>
  BY DEF ReadSchedules
<1>2. Editing' = Editing /\ BeingEdited' = BeingEdited
  BY <1>1 DEF Editing, BeingEdited
<1>3. BeingEdited \subseteq Task
  BY EditingType DEF BeingEdited
<1>4. SchedulesTyped'
  BY <1>1, <1>3 DEF SchedulesTyped, Snapshots
<1>5. EditsApart' /\ EditsAreCurrent' /\ SchedulerFollowsRows'
  BY <1>1, <1>2 DEF EditsApart, EditsAreCurrent, SchedulerFollowsRows
<1>6. SnapshotIsCurrent'
  BY <1>1, <1>2 DEF SnapshotIsCurrent
<1> QED
  BY <1>4, <1>5, <1>6

\* What the refresh writes is current for every task it clears.
LEMMA RefreshSchedulesInv ==
  ASSUME SchedulesInv, RefreshSchedules
  PROVE  SchedulesInv'
<1> USE DEF SchedulesInv
<1>1. /\ snapshot.reading /\ scheduler' = [t \in Task |-> Trigger(snapshot.rows[t])]
      /\ drifted' = drifted \ snapshot.alone /\ snapshot' = NoSnapshot
      /\ UNCHANGED <<schedule, update, updates>>
  BY DEF RefreshSchedules
<1>2. Editing' = Editing /\ BeingEdited' = BeingEdited
  BY <1>1 DEF Editing, BeingEdited
<1>3. /\ snapshot.alone \cap BeingEdited = {} /\ Task \ snapshot.alone \subseteq drifted
      /\ \A x \in snapshot.alone : snapshot.rows[x] = schedule[x]
      /\ snapshot.rows \in [Task -> Row]
  <2>1. snapshot # NoSnapshot
    BY <1>1 DEF NoSnapshot
  <2>2. snapshot \in [reading : {TRUE}, rows : [Task -> Row], alone : SUBSET Task]
    BY <2>1 DEF SchedulesTyped, Snapshots
  <2> QED
    BY <1>1, <2>2 DEF SnapshotIsCurrent
<1>4. SchedulesTyped'
  BY <1>1, <1>3, TriggerType DEF SchedulesTyped, Snapshots
<1>5. EditsApart' /\ EditsAreCurrent'
  <2>1. \A u \in Editing : update[u].task \in drifted'
    BY <1>1, <1>3, EditingType
  <2> QED
    BY <2>1, <1>1, <1>2 DEF EditsApart, EditsAreCurrent
<1>6. SnapshotIsCurrent'
  BY <1>1 DEF SnapshotIsCurrent, NoSnapshot
<1>7. SchedulerFollowsRows'
  BY <1>1, <1>2, <1>3 DEF SchedulerFollowsRows
<1> QED
  BY <1>4, <1>5, <1>6, <1>7

\* A start fills the scheduler from the rows.
LEMMA SetupSchedulerInv ==
  ASSUME SchedulesInv, SetupScheduler
  PROVE  SchedulesInv'
<1> USE DEF SchedulesInv
<1>1. /\ scheduler' = [t \in Task |-> Trigger(schedule[t])]
      /\ update' = [u \in Updater |-> NoUpdate] /\ snapshot' = NoSnapshot
      /\ drifted' = {} /\ UNCHANGED <<schedule, updates>>
  BY DEF SetupScheduler
<1>2. Editing' = {}
  BY <1>1 DEF Editing, NoUpdate
<1>3. SchedulesTyped'
  BY <1>1, TriggerType DEF SchedulesTyped, Snapshots, Updates
<1>4. EditsApart' /\ EditsAreCurrent' /\ SnapshotIsCurrent' /\ SchedulerFollowsRows'
  BY <1>1, <1>2 DEF EditsApart, EditsAreCurrent, SnapshotIsCurrent, SchedulerFollowsRows,
     NoSnapshot
<1> QED
  BY <1>3, <1>4

\* Steps that leave the schedules alone.
LEMMA SchedulesUnchanged ==
  ASSUME SchedulesInv, UNCHANGED scheduleVars
  PROVE  SchedulesInv'
BY DEF SchedulesInv, scheduleVars, SchedulesTyped, EditsApart, EditsAreCurrent,
   SnapshotIsCurrent, SchedulerFollowsRows, Editing, BeingEdited

LEMMA ScheduleInitInv == ScheduleInit => SchedulesInv
<1> SUFFICES ASSUME ScheduleInit PROVE SchedulesInv
    OBVIOUS
<1> USE DEF ScheduleInit
<1>1. schedule \in [Task -> Row]
  BY DEF Row, ScheduleType
<1>2. Editing = {}
  BY DEF Editing, NoUpdate
<1>3. SchedulesTyped
  BY <1>1, TriggerType DEF SchedulesTyped, Snapshots, Updates
<1> QED
  BY <1>2, <1>3 DEF SchedulesInv, EditsApart, EditsAreCurrent, SnapshotIsCurrent,
     SchedulerFollowsRows, NoSnapshot

-----------------------------------------------------------------------------
(***************************************************************************)
(* The queue.                                                              *)
(***************************************************************************)
\* Removing one element of a sequence.
LEMMA RemoveAtProperties ==
  ASSUME NEW S, NEW s \in Seq(S), NEW i \in 1..Len(s)
  PROVE  /\ RemoveAt(s, i) \in Seq(S) /\ Len(RemoveAt(s, i)) = Len(s) - 1
         /\ \A j \in 1..Len(s) - 1 :
              RemoveAt(s, i)[j] = IF j < i THEN s[j] ELSE s[j + 1]
<1> DEFINE front == SubSeq(s, 1, i - 1)
           back == SubSeq(s, i + 1, Len(s))
<1>1. Len(s) \in Nat /\ i \in Nat /\ \A j \in 1..Len(s) : s[j] \in S
  BY ElementOfSeq
<1>2. /\ front \in Seq(S) /\ Len(front) = i - 1
      /\ \A j \in 1..i - 1 : front[j] = s[j]
  BY <1>1, SubSeqProperties
<1>3. /\ back \in Seq(S) /\ Len(back) = Len(s) - i
      /\ \A j \in 1..Len(s) - i : back[j] = s[i + j]
  BY <1>1, SubSeqProperties
<1>4. /\ front \o back \in Seq(S) /\ Len(front \o back) = Len(front) + Len(back)
      /\ \A j \in 1..Len(front) + Len(back) :
           (front \o back)[j] = IF j <= Len(front) THEN front[j] ELSE back[j - Len(front)]
  BY <1>2, <1>3, ConcatProperties
<1>5. RemoveAt(s, i) = front \o back
  BY DEF RemoveAt
<1> HIDE DEF front, back
<1>6. Len(front) + Len(back) = Len(s) - 1 /\ Len(front) = i - 1
  BY <1>1, <1>2, <1>3
<1>7. ASSUME NEW j \in 1..Len(s) - 1
      PROVE  (front \o back)[j] = IF j < i THEN s[j] ELSE s[j + 1]
  <2>1. (front \o back)[j] = IF j <= i - 1 THEN front[j] ELSE back[j - (i - 1)]
    BY <1>4, <1>6
  <2>2. ASSUME j < i PROVE j \in 1..i - 1 /\ j <= i - 1
    BY <2>2, <1>1
  <2>3. ASSUME ~(j < i)
        PROVE  /\ j - (i - 1) \in 1..Len(s) - i /\ i + (j - (i - 1)) = j + 1
               /\ ~(j <= i - 1)
    BY <2>3, <1>1
  <2> QED
    BY <2>1, <2>2, <2>3, <1>2, <1>3
<1> QED
  BY <1>4, <1>5, <1>6, <1>7

\* Cancelling the waiting toggle of c leaves all the others, in their order.
LEMMA OthersProperties ==
  ASSUME queue \in Seq(Payload), QueuedOnce, NEW c
  PROVE  /\ Others(c) \in Seq(Payload) /\ Distinct(Others(c))
         /\ Jobs(Others(c)) = {job \in Jobs(queue) : job.id # c}
<1>1. CASE \E i \in DOMAIN queue : queue[i].id = c
  <2> DEFINE k == CHOOSE i \in DOMAIN queue : queue[i].id = c
             q == RemoveAt(queue, k)
  <2>1. k \in 1..Len(queue) /\ queue[k].id = c /\ DOMAIN queue = 1..Len(queue)
    BY <1>1
  <2>2. /\ q \in Seq(Payload) /\ Len(q) = Len(queue) - 1 /\ DOMAIN q = 1..Len(queue) - 1
        /\ \A j \in 1..Len(queue) - 1 :
             q[j] = IF j < k THEN queue[j] ELSE queue[j + 1]
    <3> HIDE DEF k
    <3>1. /\ q \in Seq(Payload) /\ Len(q) = Len(queue) - 1
          /\ \A j \in 1..Len(queue) - 1 :
               q[j] = IF j < k THEN queue[j] ELSE queue[j + 1]
      BY <2>1, RemoveAtProperties
    <3> HIDE DEF q
    <3> QED
      BY <3>1
  <2> HIDE DEF k, q
  <2>3. Len(queue) \in Nat
    OBVIOUS
  <2>4. Distinct(q)
    <3> SUFFICES ASSUME NEW i \in 1..Len(queue) - 1, NEW j \in 1..Len(queue) - 1,
                        q[i].id = q[j].id
                 PROVE  i = j
        BY <2>2 DEF Distinct
    <3>1. PICK x \in 1..Len(queue) : x = (IF i < k THEN i ELSE i + 1) /\ q[i] = queue[x]
      BY <2>2, <2>3
    <3>2. PICK y \in 1..Len(queue) : y = (IF j < k THEN j ELSE j + 1) /\ q[j] = queue[y]
      BY <2>2, <2>3
    <3>3. x = y
      BY <3>1, <3>2, <2>1 DEF QueuedOnce, Distinct
    <3> QED
      BY <3>1, <3>2, <3>3, <2>1, <2>3
  <2>5. Jobs(q) \subseteq {job \in Jobs(queue) : job.id # c}
    <3> SUFFICES ASSUME NEW j \in 1..Len(queue) - 1
                 PROVE  q[j] \in Jobs(queue) /\ q[j].id # c
        BY <2>2 DEF Jobs
    <3>1. PICK x \in 1..Len(queue) : x = (IF j < k THEN j ELSE j + 1) /\ q[j] = queue[x]
      BY <2>2, <2>3
    <3>2. x # k
      BY <3>1, <2>1, <2>3
    <3> QED
      BY <3>1, <3>2, <2>1 DEF QueuedOnce, Distinct, Jobs
  <2>6. {job \in Jobs(queue) : job.id # c} \subseteq Jobs(q)
    <3> SUFFICES ASSUME NEW x \in 1..Len(queue), queue[x].id # c
                 PROVE  queue[x] \in Jobs(q)
        BY <2>1 DEF Jobs
    <3>1. x # k
      BY <2>1
    <3>2. PICK j \in 1..Len(queue) - 1 : q[j] = queue[x]
      <4>1. CASE x < k
        <5>1. x \in 1..Len(queue) - 1
          BY <4>1, <2>1, <2>3
        <5> QED
          BY <4>1, <5>1, <2>2
      <4>2. CASE x > k
        <5>1. x - 1 \in 1..Len(queue) - 1 /\ ~(x - 1 < k) /\ (x - 1) + 1 = x
          BY <4>2, <2>1, <2>3
        <5>2. q[x - 1] = queue[(x - 1) + 1]
          BY <5>1, <2>2
        <5> QED
          BY <5>1, <5>2
      <4> QED
        BY <3>1, <4>1, <4>2, <2>1
    <3> QED
      BY <3>2, <2>2 DEF Jobs
  <2>7. Others(c) = q
    BY <1>1 DEF Others, q, k
  <2> QED
    BY <2>2, <2>4, <2>5, <2>6, <2>7
<1>2. CASE ~\E i \in DOMAIN queue : queue[i].id = c
  BY <1>2 DEF Others, QueuedOnce, Jobs
<1> QED
  BY <1>1, <1>2

\* The new toggle of c takes the place of the one that waited.
LEMMA AppendJobProperties ==
  ASSUME NEW q \in Seq(Payload), Distinct(q), NEW job \in Payload,
         \A other \in Jobs(q) : other.id # job.id
  PROVE  /\ Append(q, job) \in Seq(Payload) /\ Distinct(Append(q, job))
         /\ Jobs(Append(q, job)) = Jobs(q) \cup {job}
<1>1. /\ Append(q, job) \in Seq(Payload) /\ Len(Append(q, job)) = Len(q) + 1
      /\ DOMAIN q = 1..Len(q) /\ DOMAIN Append(q, job) = 1..Len(q) + 1
      /\ \A i \in 1..Len(q) : Append(q, job)[i] = q[i]
      /\ Append(q, job)[Len(q) + 1] = job /\ Len(q) \in Nat
  BY AppendProperties
<1> DEFINE r == Append(q, job)
<1> HIDE DEF r
<1>2. \A i \in 1..Len(q) + 1 : i \in 1..Len(q) \/ i = Len(q) + 1
  BY <1>1
<1>3. Distinct(r)
  BY <1>1, <1>2 DEF Distinct, Jobs, r
<1>4. Jobs(r) = Jobs(q) \cup {job}
  <2>1. Jobs(r) \subseteq Jobs(q) \cup {job}
    BY <1>1, <1>2 DEF Jobs, r
  <2>2. Len(q) + 1 \in 1..Len(q) + 1 /\ 1..Len(q) \subseteq 1..Len(q) + 1
    BY <1>1
  <2>3. Jobs(q) \cup {job} \subseteq Jobs(r)
    BY <1>1, <2>2 DEF Jobs, r
  <2> QED
    BY <2>1, <2>3
<1> QED
  BY <1>1, <1>3, <1>4 DEF r

\* The first job leaves the queue, and no other is for the same configuration.
LEMMA TailProperties ==
  ASSUME queue \in Seq(Payload), QueuedOnce, queue # <<>>
  PROVE  /\ Head(queue) \in Payload /\ Head(queue) \in Jobs(queue)
         /\ Tail(queue) \in Seq(Payload) /\ Distinct(Tail(queue))
         /\ Jobs(queue) = Jobs(Tail(queue)) \cup {Head(queue)}
         /\ \A job \in Jobs(Tail(queue)) : job.id # Head(queue).id
<1> DEFINE q == Tail(queue)
<1>1. /\ Head(queue) \in Payload /\ q \in Seq(Payload) /\ Len(q) = Len(queue) - 1
      /\ \A i \in 1..Len(q) : q[i] = queue[i + 1]
      /\ DOMAIN queue = 1..Len(queue) /\ DOMAIN q = 1..Len(queue) - 1
      /\ Len(queue) \in Nat /\ Len(queue) > 0 /\ Head(queue) = queue[1]
  BY HeadTailProperties
<1> HIDE DEF q
<1>2. \A i \in 1..Len(queue) - 1 : i + 1 \in 1..Len(queue) /\ i + 1 # 1 /\ q[i] = queue[i + 1]
  BY <1>1
<1>3. \A i \in 1..Len(queue) : i = 1 \/ (i - 1 \in 1..Len(queue) - 1 /\ q[i - 1] = queue[i])
  <2> TAKE i \in 1..Len(queue)
  <2>1. ASSUME i # 1 PROVE i - 1 \in 1..Len(queue) - 1 /\ (i - 1) + 1 = i
    BY <2>1, <1>1
  <2> QED
    BY <2>1, <1>2
<1>4. Distinct(q)
  <2> SUFFICES ASSUME NEW i \in 1..Len(queue) - 1, NEW j \in 1..Len(queue) - 1,
                      q[i].id = q[j].id
               PROVE  i = j
      BY <1>1 DEF Distinct
  <2>1. i + 1 = j + 1
    BY <1>1, <1>2 DEF QueuedOnce, Distinct
  <2> QED
    BY <2>1
<1>5. 1 \in 1..Len(queue)
  BY <1>1
<1>6. Head(queue) \in Jobs(queue)
  BY <1>1, <1>5 DEF Jobs
<1>7. Jobs(queue) \subseteq Jobs(q) \cup {Head(queue)}
  BY <1>1, <1>3 DEF Jobs
<1>8. Jobs(q) \subseteq Jobs(queue)
  BY <1>1, <1>2 DEF Jobs
<1>9. ASSUME NEW job \in Jobs(q) PROVE job.id # Head(queue).id
  <2>1. PICK i \in 1..Len(queue) - 1 : job = q[i]
    BY <1>1 DEF Jobs
  <2>2. i + 1 \in 1..Len(queue) /\ i + 1 # 1 /\ job = queue[i + 1]
    BY <1>2, <2>1
  <2>3. queue[i + 1].id # queue[1].id
    BY <1>1, <1>5, <2>2 DEF QueuedOnce, Distinct
  <2> QED
    BY <1>1, <2>2, <2>3
<1> QED
  BY <1>1, <1>4, <1>6, <1>7, <1>8, <1>9 DEF q

-----------------------------------------------------------------------------
(***************************************************************************)
(* The services.                                                           *)
(***************************************************************************)
\* A request in progress has what its step needs.
LEMMA RequestType ==
  ASSUME ServicesTyped, NEW h \in Serving
  PROVE  /\ h \in Handler /\ request[h].id \in Config /\ request[h] # NoRequest
         /\ request[h].at \in {"tested", "checked", "saved", "found",
                               "deleting", "deleted", "cleared", "refreshing"}
         /\ request[h].at = "tested" =>
              request[h] \in [at : {"tested"}, id : Config, row : Savable, update : BOOLEAN]
         /\ request[h].at \in {"checked", "saved", "found"} =>
              request[h] \in [at : {"checked", "saved", "found"}, id : Config,
                              row : Savable, update : BOOLEAN, resync : BOOLEAN]
         /\ request[h].at \in {"deleting", "deleted", "cleared", "refreshing"} =>
              request[h] \in [at : {"deleting", "deleted", "cleared", "refreshing"},
                              id : Config]
BY DEF ServicesTyped, Requests, Serving, NoRequest

\* A toggle under way has a job.
LEMMA ToggleType ==
  ASSUME ServicesTyped, toggle # NoToggle
  PROVE  /\ toggle \in [at : {"claimed", "matched", "cleared", "applied", "refreshing",
                              "done"}, job : Payload]
         /\ toggle.job.id \in Config /\ toggle.job.row \in Stored
         /\ toggle.job.resync \in BOOLEAN
BY DEF ServicesTyped, Toggles, Payload

\* So has every job that waits.
LEMMA JobType ==
  ASSUME ServicesTyped, NEW job \in Jobs(queue)
  PROVE  job \in Payload /\ job.id \in Config /\ job.row \in Stored
<1>1. PICK i \in DOMAIN queue : job = queue[i]
  BY DEF Jobs
<1>2. queue[i] \in Payload
  BY ElementOfSeq DEF ServicesTyped
<1> QED
  BY <1>1, <1>2 DEF Payload

\* A toggle that is somewhere has been claimed.
LEMMA ToggleIdle ==
  ASSUME ServicesTyped, toggle.at # "idle"
  PROVE  toggle # NoToggle
BY DEF NoToggle

\* A row that may be saved has its fields; the main server is enabled.
LEMMA SavableType ==
  ASSUME NEW row \in Savable
  PROVE  /\ row.exists = TRUE /\ row.enabled \in BOOLEAN /\ row.main \in BOOLEAN
         /\ (row.main => row.enabled) /\ row.url \in Url /\ row # Absent
<1>1. row.exists = TRUE /\ Absent.exists = FALSE
  BY DEF Savable, Stored, Absent
<1> QED
  BY <1>1 DEF Savable, Stored

\* A configuration has such a row, or none.
LEMMA RowType ==
  ASSUME ServicesTyped, NEW c \in Config
  PROVE  \/ config[c] \in Savable /\ config[c].exists = TRUE
         \/ config[c] = Absent /\ config[c].exists = FALSE
<1>1. config[c] \in Savable \/ config[c] = Absent
  BY DEF ServicesTyped
<1>2. Absent.exists = FALSE
  BY DEF Absent
<1> QED
  BY <1>1, <1>2, SavableType

\* What is on its way has one of three carriers.
LEMMA Carriers ==
  OnTheWay = {request[h].id : h \in Serving} \cup Queued \cup Toggled
BY DEF OnTheWay, Queued, Jobs, Toggled

\* Whether a client follows its row depends on four variables only.
LEMMA SameRuntime ==
  ASSUME UNCHANGED <<config, client, main, failed>>
  PROVE  /\ Mains' = Mains /\ (OneMainServer' <=> OneMainServer)
         /\ Settled' = Settled
         /\ MainHasClient' <=> MainHasClient
BY DEF Mains, OneMainServer, Settled, ClientOf, MainHasClient

(***************************************************************************)
(* A step of one request that touches neither rows nor clients, and may    *)
(* find that another change of its configuration is on its way.            *)
(***************************************************************************)
LEMMA RequestStep ==
  ASSUME ServicesInv, NEW h \in Handler, NEW new \in Requests,
         UNCHANGED <<config, queue, toggle, client, main, failed, resync>>,
         request' = [request EXCEPT ![h] = new],
         passedOver \subseteq passedOver', passedOver' \subseteq Config,
         h \notin Serving /\ new # NoRequest /\ new.id \in OnTheWay =>
           new.id \in passedOver',
         h \in Serving /\ new # NoRequest => new.id = request[h].id,
         h \in Serving /\ new = NoRequest =>
           request[h].id \in passedOver' \/ request[h].id \in Settled,
         h \in Serving /\ request[h].at \in {"saved", "found"} =>
           \/ new # NoRequest /\ new.at \in {"saved", "found"}
           \/ request[h].id \notin Mains \/ request[h].id \in passedOver',
         new # NoRequest /\ new.id \notin passedOver' =>
           /\ new.at \in {"tested", "checked"} => new.update = config[new.id].exists
           /\ new.at \in {"saved", "found"} => config[new.id] = new.row
           /\ new.at \in {"deleted", "cleared", "refreshing"} => config[new.id] = Absent
           /\ new.at \in {"cleared", "refreshing"} => new.id \in Settled
  PROVE  ServicesInv'
<1> USE DEF ServicesInv
<1>1. /\ request'[h] = new /\ \A k \in Handler : k # h => request'[k] = request[k]
      /\ request' \in [Handler -> Requests]
  BY DEF ServicesTyped
<1>2. /\ Serving' = IF new = NoRequest THEN Serving \ {h} ELSE Serving \cup {h}
      /\ Serving \subseteq Handler
  BY <1>1 DEF Serving, Requests, NoRequest
<1>3. Queued' = Queued /\ Toggled' = Toggled /\ Jobs(queue') = Jobs(queue)
  BY DEF Queued, Toggled
<1>4. /\ Mains' = Mains /\ OneMainServer'
      /\ Settled' = Settled
      /\ MainHasClient'
  BY SameRuntime
<1>5. ServicesTyped'
  BY <1>1 DEF ServicesTyped
<1>6. QueuedOnce'
  BY DEF QueuedOnce
<1>7. \A k \in Serving' : k # h => k \in Serving /\ request'[k] = request[k]
  BY <1>1, <1>2
<1>8. h \in Serving' => new # NoRequest /\ request'[h] = new
  BY <1>1, <1>2
<1>9. OneCarrier'
  <2>1. ASSUME NEW k \in Serving', h \in Serving', k # h, request'[k].id = request'[h].id
        PROVE  new.id \in passedOver'
    <3>1. k \in Serving /\ request[k].id = new.id /\ new # NoRequest
      BY <2>1, <1>7, <1>8
    <3>2. CASE h \in Serving
      BY <3>1, <3>2, <2>1 DEF OneCarrier
    <3>3. CASE h \notin Serving
      BY <3>1, <3>3, Carriers
    <3> QED
      BY <3>2, <3>3
  <2>2. ASSUME h \in Serving', new.id \in Queued \cup Toggled
        PROVE  new.id \in passedOver'
    <3>1. CASE h \in Serving
      BY <2>2, <3>1, <1>8 DEF OneCarrier
    <3>2. CASE h \notin Serving
      BY <2>2, <3>2, <1>8, Carriers
    <3> QED
      BY <3>1, <3>2
  <2>3. ASSUME NEW k \in Serving', NEW l \in Serving', k # l, request'[k].id = request'[l].id
        PROVE  request'[k].id \in passedOver'
    <3>1. CASE k = h \/ l = h
      BY <2>1, <2>3, <3>1, <1>8
    <3>2. CASE k # h /\ l # h
      BY <2>3, <3>2, <1>7 DEF OneCarrier
    <3> QED
      BY <3>1, <3>2
  <2>4. ASSUME NEW k \in Serving', request'[k].id \in Queued \cup Toggled
        PROVE  request'[k].id \in passedOver'
    <3>1. CASE k = h
      BY <2>2, <2>4, <3>1, <1>8
    <3>2. CASE k # h
      BY <2>4, <3>2, <1>7 DEF OneCarrier
    <3> QED
      BY <3>1, <3>2
  <2> QED
    BY <2>3, <2>4, <1>3 DEF OneCarrier
<1>10. RequestsKeep'
  <2> SUFFICES ASSUME NEW k \in Serving', request'[k].id \notin passedOver'
               PROVE  /\ request'[k].at \in {"tested", "checked"} =>
                           request'[k].update = config'[request'[k].id].exists
                      /\ request'[k].at \in {"saved", "found"} =>
                           config'[request'[k].id] = request'[k].row
                      /\ request'[k].at \in {"deleted", "cleared", "refreshing"} =>
                           config'[request'[k].id] = Absent
                      /\ request'[k].at \in {"cleared", "refreshing"} =>
                           request'[k].id \in Settled'
      BY DEF RequestsKeep
  <2>2. CASE k = h
    BY <2>2, <1>4, <1>8
  <2>3. CASE k # h
    BY <2>3, <1>4, <1>7 DEF RequestsKeep
  <2> QED
    BY <2>2, <2>3
<1>11. QueueKeeps'
  BY <1>3, <1>4 DEF QueueKeeps
<1>12. ToggleKeeps'
  <2> SUFFICES ASSUME toggle # NoToggle PROVE ToggleKeeps'
      BY DEF ToggleKeeps
  <2> QED
    BY <1>4, ToggleType DEF ToggleKeeps
<1>13. PromotionsComeAfter'
  <2> SUFFICES ASSUME toggle.at \in {"matched", "cleared"}, toggle.job.row.main,
                      NEW d \in Mains \ {toggle.job.id}, d \notin passedOver',
                      ~\E job \in Jobs(queue) : job.id = d /\ job.row = config[d]
               PROVE  \E k \in Serving' :
                        request'[k].id = d /\ request'[k].at \in {"saved", "found"}
      BY <1>3, <1>4 DEF PromotionsComeAfter
  <2>1. PICK k \in Serving : request[k].id = d /\ request[k].at \in {"saved", "found"}
    BY DEF PromotionsComeAfter
  <2>2. CASE k = h
    BY <2>1, <2>2, <1>1, <1>2
  <2>3. CASE k # h
    BY <2>1, <2>3, <1>1, <1>2
  <2> QED
    BY <2>2, <2>3
<1>14. OthersFollow'
  <2> SUFFICES ASSUME NEW c \in Config, c \notin OnTheWay', c \notin passedOver'
               PROVE  c \in Settled
      BY <1>4 DEF OthersFollow
  <2>1. OnTheWay' = {request'[k].id : k \in Serving'} \cup Queued' \cup Toggled'
    BY DEF OnTheWay, Queued, Jobs, Toggled
  <2>2. CASE c \in OnTheWay
    <3>1. PICK k \in Serving : request[k].id = c
      BY <2>1, <2>2, <1>3, Carriers
    <3>2. k = h /\ new = NoRequest
      BY <3>1, <2>1, <1>1, <1>2
    <3> QED
      BY <3>1, <3>2
  <2> QED
    BY <2>2 DEF OthersFollow
<1> QED
  BY <1>4, <1>5, <1>6, <1>9, <1>10, <1>11, <1>12, <1>13, <1>14

\* StartSave: a row that may be saved, and the one that is there already.
LEMMA StartSaveInv ==
  ASSUME ServicesInv, NEW h \in Handler, StartSave(h)
  PROVE  ServicesInv'
<1>1. PICK c \in Config, row \in Stored :
        /\ ~row.enabled => ~row.main /\ c \notin Mains
        /\ request' = [request EXCEPT ![h] =
             [at |-> "tested", id |-> c, row |-> row, update |-> config[c].exists]]
        /\ passedOver' = IF c \in OnTheWay THEN passedOver \cup {c} ELSE passedOver
  BY DEF StartSave
<1> DEFINE new == [at |-> "tested", id |-> c, row |-> row, update |-> config[c].exists]
<1>2. row \in Savable
  BY <1>1 DEF Savable, Stored
<1>3. new # NoRequest
  BY DEF NoRequest
<1>4. new \in Requests
  BY <1>2, RowType DEF Requests, ServicesInv
<1>5. h \notin Serving
  BY DEF StartSave, Serving
<1>6. passedOver \subseteq passedOver' /\ passedOver' \subseteq Config
  BY <1>1 DEF ServicesInv, ServicesTyped
<1>7. c \in OnTheWay => c \in passedOver'
  BY <1>1
<1>8. /\ new.id = c /\ new.at = "tested" /\ new.update = config[c].exists
      /\ request' = [request EXCEPT ![h] = new]
  BY <1>1
<1>9. UNCHANGED <<config, queue, toggle, client, main, failed, resync>>
  BY DEF StartSave
<1> HIDE DEF new
<1> QED
  BY <1>3, <1>4, <1>5, <1>6, <1>7, <1>8, <1>9, RequestStep

\* ReadMain: the request goes on with the row it has.
LEMMA ReadMainInv ==
  ASSUME ServicesInv, NEW h \in Handler, ReadMain(h)
  PROVE  ServicesInv'
<1> DEFINE r == request[h]
           switched == r.row.main /\ (IF r.update THEN Mains \ {r.id} ELSE Mains) # {}
           new == [at |-> "checked", id |-> r.id, row |-> r.row, update |-> r.update,
                   resync |-> switched]
<1>1. h \in Serving /\ r.at = "tested"
  BY DEF ReadMain, Serving
<1>2. r \in [at : {"tested"}, id : Config, row : Savable, update : BOOLEAN]
  BY <1>1, RequestType DEF ServicesInv
<1>3. new # NoRequest
  BY DEF NoRequest
<1>4. switched \in BOOLEAN
  <2>1. r.row.main \in BOOLEAN
    BY <1>2, SavableType
  <2> QED
    BY <2>1
<1> HIDE DEF switched
<1>5. new \in Requests
  BY <1>2, <1>4 DEF Requests
<1>6. request' = [request EXCEPT ![h] = new]
  BY DEF ReadMain, switched
<1>7. passedOver' = passedOver /\ passedOver \subseteq Config
      /\ UNCHANGED <<config, queue, toggle, client, main, failed, resync>>
  BY DEF ReadMain, ServicesInv, ServicesTyped
<1>8. new.at = "checked" /\ new.id = r.id /\ new.update = r.update
  OBVIOUS
<1>9. r.id \notin passedOver => r.update = config[r.id].exists
  BY <1>1 DEF ServicesInv, RequestsKeep
<1> HIDE DEF new
<1> QED
  BY <1>1, <1>3, <1>5, <1>6, <1>7, <1>8, <1>9, RequestStep

\* ReadSaved: a row that is gone was deleted by another request.
LEMMA ReadSavedInv ==
  ASSUME ServicesInv, NEW h \in Handler, ReadSaved(h)
  PROVE  ServicesInv'
<1> DEFINE r == request[h]
<1>1. h \in Serving /\ r.at = "saved"
  BY DEF ReadSaved, Serving
<1>2. r \in [at : {"checked", "saved", "found"}, id : Config, row : Savable,
             update : BOOLEAN, resync : BOOLEAN]
  BY <1>1, RequestType DEF ServicesInv
<1>3. passedOver' = passedOver /\ passedOver \subseteq Config
      /\ UNCHANGED <<config, queue, toggle, client, main, failed, resync>>
  BY DEF ReadSaved, ServicesInv, ServicesTyped
<1>4. r.id \notin passedOver => config[r.id] = r.row
  BY <1>1 DEF ServicesInv, RequestsKeep
<1>5. CASE config[r.id].exists
  <2> DEFINE new == [r EXCEPT !.at = "found"]
  <2>1. request' = [request EXCEPT ![h] = new]
    BY <1>5 DEF ReadSaved
  <2>2. new.at = "found" /\ new.id = r.id /\ new.row = r.row /\ new # NoRequest
    BY <1>2 DEF NoRequest
  <2>3. new \in Requests
    BY <1>2 DEF Requests
  <2> HIDE DEF new
  <2> QED
    BY <1>1, <1>3, <1>4, <2>1, <2>2, <2>3, RequestStep
<1>6. CASE ~config[r.id].exists
  <2>1. request' = [request EXCEPT ![h] = NoRequest] /\ NoRequest \in Requests
    BY <1>6 DEF ReadSaved, Requests
  <2>2. r.id \in passedOver /\ r.id \notin Mains
    BY <1>2, <1>4, <1>6, SavableType DEF Mains
  <2> QED
    BY <1>1, <1>3, <2>1, <2>2, RequestStep
<1> QED
  BY <1>5, <1>6

\* StartDelete: a configuration that another change carries is passed over.
LEMMA StartDeleteInv ==
  ASSUME ServicesInv, NEW h \in Handler, StartDelete(h)
  PROVE  ServicesInv'
<1>1. PICK c \in Config :
        /\ request' = [request EXCEPT ![h] = [at |-> "deleting", id |-> c]]
        /\ passedOver' = IF c \in OnTheWay THEN passedOver \cup {c} ELSE passedOver
  BY DEF StartDelete
<1> DEFINE new == [at |-> "deleting", id |-> c]
<1>2. new # NoRequest /\ new \in Requests /\ new.id = c /\ new.at = "deleting"
  BY DEF NoRequest, Requests
<1>3. h \notin Serving
  BY DEF StartDelete, Serving
<1>4. /\ passedOver \subseteq passedOver' /\ passedOver' \subseteq Config
      /\ c \in OnTheWay => c \in passedOver'
  BY <1>1 DEF ServicesInv, ServicesTyped
<1>5. /\ UNCHANGED <<config, queue, toggle, client, main, failed, resync>>
      /\ request' = [request EXCEPT ![h] = new]
  BY <1>1 DEF StartDelete
<1> HIDE DEF new
<1> QED
  BY <1>2, <1>3, <1>4, <1>5, RequestStep

\* RefreshAfterDelete: the schedules of the task module, and the end of the delete.
LEMMA RefreshAfterDeleteInv ==
  ASSUME Inv, NEW h \in Handler, RefreshAfterDelete(h)
  PROVE  Inv'
<1> USE DEF Inv
<1> DEFINE r == request[h]
<1>1. h \in Serving /\ r.at \in {"cleared", "refreshing"}
  BY DEF RefreshAfterDelete, Serving
<1>2. r \in [at : {"deleting", "deleted", "cleared", "refreshing"}, id : Config]
  BY <1>1, RequestType DEF ServicesInv
<1>3. passedOver' = passedOver /\ passedOver \subseteq Config
      /\ UNCHANGED <<config, queue, toggle, client, main, failed, resync>>
  BY DEF RefreshAfterDelete, ServicesInv, ServicesTyped
<1>4. r.id \notin passedOver => config[r.id] = Absent /\ r.id \in Settled
  BY <1>1 DEF ServicesInv, RequestsKeep
<1>5. CASE r.at = "cleared"
  <2> DEFINE new == [r EXCEPT !.at = "refreshing"]
  <2>1. request' = [request EXCEPT ![h] = new] /\ ReadSchedules
    BY <1>5 DEF RefreshAfterDelete
  <2>2. new.at = "refreshing" /\ new.id = r.id /\ new # NoRequest
    BY <1>2 DEF NoRequest
  <2>3. new \in Requests
    BY <1>2 DEF Requests
  <2> HIDE DEF new
  <2>4. ServicesInv'
    BY <1>1, <1>3, <1>4, <1>5, <2>1, <2>2, <2>3, RequestStep
  <2> QED
    BY <2>1, <2>4, ReadSchedulesInv
<1>6. CASE r.at = "refreshing"
  <2>1. request' = [request EXCEPT ![h] = NoRequest] /\ NoRequest \in Requests
        /\ RefreshSchedules
    BY <1>6 DEF RefreshAfterDelete, Requests
  <2>2. ServicesInv'
    BY <1>1, <1>3, <1>4, <1>6, <2>1, RequestStep
  <2> QED
    BY <2>1, <2>2, RefreshSchedulesInv
<1> QED
  BY <1>1, <1>5, <1>6
\* A demoted server's client still follows its row.
LEMMA StaysSettled ==
  ASSUME ServicesTyped, NEW d \in Settled, UNCHANGED <<client, main, failed>>,
         config'[d] = config[d] \/ config'[d] = Demoted(config[d])
  PROVE  d \in Settled'
<1>1. d \in Config
  BY DEF Settled
<1>2. CASE config'[d] = config[d]
  BY <1>1, <1>2 DEF Settled, ClientOf, Mains
<1>3. CASE config'[d] = Demoted(config[d]) /\ config[d] \in Savable
  <2>1. config[d].exists = TRUE /\ config'[d] = [config[d] EXCEPT !.main = FALSE]
    BY <1>3, SavableType DEF Demoted
  <2>2. /\ config'[d].exists = config[d].exists /\ config'[d].enabled = config[d].enabled
        /\ config'[d].url = config[d].url /\ config'[d].main = FALSE
    BY <1>3, <2>1 DEF Savable, Stored
  <2>3. d \notin Mains'
    BY <2>2 DEF Mains
  <2>4. ClientOf(d)' = ClientOf(d)
    BY <2>2 DEF ClientOf
  <2> QED
    BY <1>1, <2>3, <2>4 DEF Settled
<1>4. CASE config[d] = Absent
  <2>1. Demoted(config[d]) = config[d]
    BY <1>1, <1>4, RowType, SavableType DEF Demoted
  <2> QED
    BY <2>1, <1>2
<1> QED
  BY <1>1, <1>2, <1>3, <1>4, RowType

\* UpsertServiceConfig: the saved row and the demotion of the others are one
\* transaction.  A server on its way that is demoted by it has been passed over.
LEMMA UpsertServiceConfigInv ==
  ASSUME ServicesInv, NEW h \in Handler, UpsertServiceConfig(h)
  PROVE  ServicesInv'
<1> USE DEF ServicesInv
<1> DEFINE r == request[h]
<1>1. /\ h \in Serving /\ r.at = "checked"
      /\ request' = [request EXCEPT ![h].at = "saved"]
      /\ config' = Saved(r, config)
      /\ passedOver' = passedOver \cup {c \in OnTheWay \ {r.id} : config'[c] # config[c]}
      /\ UNCHANGED <<queue, toggle, client, main, failed, resync>>
  BY DEF UpsertServiceConfig, Serving
<1>2. r \in [at : {"checked", "saved", "found"}, id : Config, row : Savable,
             update : BOOLEAN, resync : BOOLEAN]
  BY <1>1, RequestType
<1>3. /\ request' \in [Handler -> Requests]
      /\ request'[h].at = "saved" /\ request'[h].id = r.id /\ request'[h].row = r.row
      /\ request'[h] # NoRequest
      /\ \A k \in Handler : k # h => request'[k] = request[k]
  <2>1. [r EXCEPT !.at = "saved"] \in Requests
    BY <1>2 DEF Requests
  <2>2. request' = [request EXCEPT ![h] = [r EXCEPT !.at = "saved"]]
    BY <1>1
  <2> QED
    BY <1>2, <2>1, <2>2 DEF ServicesTyped, NoRequest
<1>4. Serving' = Serving /\ \A k \in Serving' : k = h \/ request'[k] = request[k]
  BY <1>1, <1>3 DEF Serving
<1>5. \A k \in Serving : request'[k].id = request[k].id
  BY <1>3, <1>4
<1>6. Queued' = Queued /\ Toggled' = Toggled /\ Jobs(queue') = Jobs(queue)
  BY <1>1 DEF Queued, Toggled
<1>7. OnTheWay' = OnTheWay
  <2>1. OnTheWay' = {request'[k].id : k \in Serving'} \cup Queued' \cup Toggled'
    BY DEF OnTheWay, Queued, Jobs, Toggled
  <2> QED
    BY <2>1, <1>4, <1>5, <1>6, Carriers
<1>8. /\ config'[r.id] \in Savable \cup {Absent}
      /\ config'[r.id] = Absent \/ config'[r.id] = r.row
      /\ r.id \notin passedOver => config'[r.id] = r.row
  <2>1. config'[r.id] = IF r.update /\ ~config[r.id].exists THEN Absent ELSE r.row
    BY <1>1, <1>2 DEF Saved
  <2>2. r.id \notin passedOver => r.update = config[r.id].exists
    BY <1>1 DEF RequestsKeep
  <2> QED
    BY <1>2, <2>1, <2>2
<1>9. \A d \in Config \ {r.id} :
        config'[d] = IF r.row.main THEN Demoted(config[d]) ELSE config[d]
  BY <1>1 DEF Saved
<1>10. \A d \in Config : /\ Demoted(config[d]) \in Savable \cup {Absent}
                         /\ ~(Demoted(config[d]).exists /\ Demoted(config[d]).main)
  <2> TAKE d \in Config
  <2>1. CASE config[d] \in Savable
    <3>1. Demoted(config[d]) = [config[d] EXCEPT !.main = FALSE]
      BY <2>1, SavableType DEF Demoted
    <3> QED
      BY <2>1, <3>1 DEF Savable, Stored
  <2>2. CASE config[d] = Absent /\ config[d].exists = FALSE
    BY <2>2 DEF Demoted
  <2> QED
    BY <2>1, <2>2, RowType
<1>11. ServicesTyped'
  <2>1. config' \in [Config -> Savable \cup {Absent}]
    <3>1. DOMAIN config' = Config /\ config' = [c \in Config |-> config'[c]]
      BY <1>1 DEF Saved
    <3>2. \A c \in Config : config'[c] \in Savable \cup {Absent}
      BY <1>8, <1>9, <1>10 DEF ServicesTyped
    <3> QED
      BY <3>1, <3>2
  <2>2. passedOver' \subseteq Config
    <3>1. {c \in OnTheWay \ {r.id} : config'[c] # config[c]} \subseteq OnTheWay
      OBVIOUS
    <3>2. {request[k].id : k \in Serving} \subseteq Config
      BY RequestType
    <3>3. Queued \subseteq Config
      BY JobType DEF Queued
    <3>4. Toggled \subseteq Config
      BY ToggleType DEF Toggled
    <3> QED
      BY <1>1, <3>1, <3>2, <3>3, <3>4, Carriers DEF ServicesTyped
  <2> QED
    BY <1>1, <1>3, <2>1, <2>2 DEF ServicesTyped
<1>12. \A d \in Config \ {r.id} : d \in Mains' => d \in Mains /\ config'[d] = config[d]
  BY <1>9, <1>10 DEF Mains
<1>13. OneMainServer'
  <2>1. r.id \in Mains' => r.row.main
    BY <1>8, RowType DEF Mains, Absent
  <2>2. r.row.main => Mains' \subseteq {r.id}
    BY <1>9, <1>10 DEF Mains
  <2>3. ~r.row.main => Mains' \subseteq Mains
    BY <2>1, <1>12 DEF Mains
  <2>4. r.row.main \in BOOLEAN
    BY <1>2, SavableType
  <2> QED
    BY <2>2, <2>3, <2>4 DEF OneMainServer
<1>14. QueuedOnce'
  BY <1>1 DEF QueuedOnce
<1>15. passedOver \subseteq passedOver'
  BY <1>1
<1>16. OneCarrier'
  BY <1>3, <1>4, <1>5, <1>6, <1>15 DEF OneCarrier
<1>17. \A d \in OnTheWay : d # r.id /\ d \notin passedOver' =>
         config'[d] = config[d] /\ (d \in Settled => d \in Settled')
  BY <1>1, StaysSettled
<1>18. RequestsKeep'
  <2> SUFFICES ASSUME NEW k \in Serving', request'[k].id \notin passedOver'
               PROVE  /\ request'[k].at \in {"tested", "checked"} =>
                           request'[k].update = config'[request'[k].id].exists
                      /\ request'[k].at \in {"saved", "found"} =>
                           config'[request'[k].id] = request'[k].row
                      /\ request'[k].at \in {"deleted", "cleared", "refreshing"} =>
                           config'[request'[k].id] = Absent
                      /\ request'[k].at \in {"cleared", "refreshing"} =>
                           request'[k].id \in Settled'
      BY DEF RequestsKeep
  <2>1. CASE k = h
    BY <2>1, <1>3, <1>8, <1>15
  <2>2. CASE k # h
    <3>1. k \in Serving /\ request'[k] = request[k]
      BY <2>2, <1>4
    <3>2. request[k].id # r.id /\ request[k].id \in OnTheWay
      BY <2>2, <3>1, <1>1, <1>15, Carriers DEF OneCarrier
    <3> QED
      BY <3>1, <3>2, <1>15, <1>17 DEF RequestsKeep
  <2> QED
    BY <2>1, <2>2
<1>19. QueueKeeps'
  <2> SUFFICES ASSUME NEW job \in Jobs(queue), job.id \notin passedOver'
               PROVE  config'[job.id] = job.row \/ job.id \in Settled'
      BY <1>6 DEF QueueKeeps
  <2>1. job.id \in Queued /\ job.id # r.id /\ job.id \in OnTheWay
    BY <1>1, <1>15, Carriers DEF Queued, OneCarrier
  <2> QED
    BY <2>1, <1>15, <1>17 DEF QueueKeeps
<1>20. ToggleKeeps'
  <2> SUFFICES ASSUME toggle # NoToggle PROVE ToggleKeeps'
      BY <1>1 DEF ToggleKeeps
  <2>1. toggle.job.id \in Toggled /\ toggle.job.id \in OnTheWay
    BY Carriers DEF Toggled
  <2>2. toggle.job.id \notin passedOver' => toggle.job.id # r.id
    BY <2>1, <1>1, <1>15 DEF OneCarrier
  <2> QED
    BY <1>1, <1>15, <1>17, <2>1, <2>2 DEF ToggleKeeps
<1>21. PromotionsComeAfter'
  <2> SUFFICES ASSUME toggle.at \in {"matched", "cleared"}, toggle.job.row.main,
                      NEW d \in Mains' \ {toggle.job.id}, d \notin passedOver',
                      ~\E job \in Jobs(queue) : job.id = d /\ job.row = config'[d]
               PROVE  \E k \in Serving' :
                        request'[k].id = d /\ request'[k].at \in {"saved", "found"}
      BY <1>1, <1>6 DEF PromotionsComeAfter
  <2>1. CASE d = r.id
    BY <2>1, <1>1, <1>3, <1>4
  <2>2. CASE d # r.id
    <3>1. d \in Mains /\ config'[d] = config[d]
      BY <2>2, <1>12 DEF Mains
    <3>2. PICK k \in Serving : request[k].id = d /\ request[k].at \in {"saved", "found"}
      BY <3>1, <1>15 DEF PromotionsComeAfter
    <3> QED
      BY <3>2, <1>1, <1>4
  <2> QED
    BY <2>1, <2>2
<1>22. OthersFollow'
  <2> SUFFICES ASSUME NEW d \in Config, d \notin OnTheWay, d \notin passedOver'
               PROVE  d \in Settled'
      BY <1>7 DEF OthersFollow
  <2>1. d # r.id /\ d \in Settled
    BY <1>1, <1>15, Carriers DEF OthersFollow
  <2> QED
    BY <2>1, <1>1, <1>9, StaysSettled
<1>23. MainHasClient'
  BY <1>1 DEF MainHasClient
<1> QED
  BY <1>11, <1>13, <1>14, <1>16, <1>18, <1>19, <1>20, <1>21, <1>22, <1>23
\* EnqueueToggle: the job that waited for the same configuration is replaced,
\* and the change is carried by the new one.
LEMMA EnqueueToggleInv ==
  ASSUME ServicesInv, NEW h \in Handler, EnqueueToggle(h)
  PROVE  ServicesInv'
<1> USE DEF ServicesInv
<1> DEFINE r == request[h]
           new == [id |-> r.id, row |-> r.row, resync |-> r.resync]
<1>1. /\ h \in Serving /\ r.at = "found"
      /\ queue' = Append(Others(r.id), new)
      /\ request' = [request EXCEPT ![h] = NoRequest]
      /\ UNCHANGED <<config, toggle, client, main, failed, resync, passedOver>>
  BY DEF EnqueueToggle, Serving
<1>2. r \in [at : {"checked", "saved", "found"}, id : Config, row : Savable,
             update : BOOLEAN, resync : BOOLEAN]
  BY <1>1, RequestType
<1>3. new \in Payload /\ new.id = r.id /\ new.row = r.row
  BY <1>2 DEF Payload, Savable
<1> HIDE DEF new
<1>4. /\ Others(r.id) \in Seq(Payload) /\ Distinct(Others(r.id))
      /\ Jobs(Others(r.id)) = {job \in Jobs(queue) : job.id # r.id}
  BY OthersProperties DEF ServicesTyped
<1>5. /\ queue' \in Seq(Payload) /\ QueuedOnce'
      /\ Jobs(queue') = {job \in Jobs(queue) : job.id # r.id} \cup {new}
  <2>1. \A other \in Jobs(Others(r.id)) : other.id # new.id
    BY <1>3, <1>4
  <2>2. /\ Append(Others(r.id), new) \in Seq(Payload)
        /\ Distinct(Append(Others(r.id), new))
        /\ Jobs(Append(Others(r.id), new)) = Jobs(Others(r.id)) \cup {new}
    BY <1>3, <1>4, <2>1, AppendJobProperties
  <2>3. QueuedOnce' <=> Distinct(queue')
    BY DEF QueuedOnce
  <2> QED
    BY <1>1, <1>4, <2>2, <2>3
<1>6. Queued' = Queued \cup {r.id} /\ Toggled' = Toggled
  BY <1>1, <1>3, <1>5 DEF Queued, Toggled
<1>7. /\ Serving' = Serving \ {h} /\ request' \in [Handler -> Requests]
      /\ \A k \in Serving' : k # h /\ request'[k] = request[k]
  BY <1>1, <1>2 DEF Serving, ServicesTyped, Requests, NoRequest
<1>8. OnTheWay' = OnTheWay
  <2>1. OnTheWay' = {request'[k].id : k \in Serving'} \cup Queued' \cup Toggled'
    BY DEF OnTheWay, Queued, Jobs, Toggled
  <2> QED
    BY <2>1, <1>1, <1>6, <1>7, Carriers
<1>9. Mains' = Mains /\ OneMainServer' /\ Settled' = Settled /\ MainHasClient'
  BY <1>1, SameRuntime
<1>10. ServicesTyped'
  BY <1>1, <1>5, <1>7 DEF ServicesTyped
<1>11. OneCarrier'
  <2>1. \A k, l \in Serving' : k # l /\ request'[k].id = request'[l].id
          => request'[k].id \in passedOver'
    BY <1>1, <1>7 DEF OneCarrier
  <2>2. \A k \in Serving' : request'[k].id \in Queued' \cup Toggled'
          => request'[k].id \in passedOver'
    BY <1>1, <1>6, <1>7 DEF OneCarrier
  <2>3. Toggled' \cap Queued' \subseteq passedOver'
    BY <1>1, <1>6 DEF OneCarrier
  <2> QED
    BY <2>1, <2>2, <2>3 DEF OneCarrier
<1>12. RequestsKeep'
  BY <1>1, <1>7, <1>9 DEF RequestsKeep
<1>13. r.id \notin passedOver => config[r.id] = r.row
  BY <1>1 DEF RequestsKeep
<1>14. QueueKeeps'
  BY <1>1, <1>3, <1>5, <1>9, <1>13 DEF QueueKeeps
<1>15. ToggleKeeps'
  BY <1>1, <1>9 DEF ToggleKeeps
<1>16. PromotionsComeAfter'
  <2> SUFFICES ASSUME toggle.at \in {"matched", "cleared"}, toggle.job.row.main,
                      NEW d \in Mains \ {toggle.job.id}, d \notin passedOver,
                      ~\E job \in Jobs(queue') : job.id = d /\ job.row = config[d]
               PROVE  \E k \in Serving' :
                        request'[k].id = d /\ request'[k].at \in {"saved", "found"}
      BY <1>1, <1>9 DEF PromotionsComeAfter
  <2>1. d # r.id
    BY <1>3, <1>5, <1>13
  <2>2. PICK k \in Serving : request[k].id = d /\ request[k].at \in {"saved", "found"}
    BY <2>1, <1>5 DEF PromotionsComeAfter
  <2> QED
    BY <2>1, <2>2, <1>1, <1>7
<1>17. OthersFollow'
  BY <1>1, <1>8, <1>9 DEF OthersFollow
<1> QED
  BY <1>5, <1>9, <1>10, <1>11, <1>12, <1>14, <1>15, <1>16, <1>17

\* DeleteServiceConfig: the row goes with the job that waits for it.
LEMMA DeleteServiceConfigInv ==
  ASSUME ServicesInv, NEW h \in Handler, DeleteServiceConfig(h)
  PROVE  ServicesInv'
<1> USE DEF ServicesInv
<1> DEFINE r == request[h]
<1>1. /\ h \in Serving /\ r.at = "deleting"
      /\ config' = [config EXCEPT ![r.id] = Absent]
      /\ queue' = Others(r.id)
      /\ request' = [request EXCEPT ![h].at = "deleted"]
      /\ UNCHANGED <<toggle, client, main, failed, resync, passedOver>>
  BY DEF DeleteServiceConfig, Serving
<1>2. r \in [at : {"deleting", "deleted", "cleared", "refreshing"}, id : Config]
  BY <1>1, RequestType
<1>3. /\ request' \in [Handler -> Requests]
      /\ request'[h].at = "deleted" /\ request'[h].id = r.id /\ request'[h] # NoRequest
      /\ \A k \in Handler : k # h => request'[k] = request[k]
  <2>1. [r EXCEPT !.at = "deleted"] \in Requests
    BY <1>2 DEF Requests
  <2>2. request' = [request EXCEPT ![h] = [r EXCEPT !.at = "deleted"]]
    BY <1>1
  <2> QED
    BY <1>2, <2>1, <2>2 DEF ServicesTyped, NoRequest
<1>4. Serving' = Serving /\ \A k \in Serving' : k = h \/ request'[k] = request[k]
  BY <1>1, <1>3 DEF Serving
<1>5. \A k \in Serving : request'[k].id = request[k].id
  BY <1>3, <1>4
<1>6. /\ queue' \in Seq(Payload) /\ QueuedOnce'
      /\ Jobs(queue') = {job \in Jobs(queue) : job.id # r.id}
  <2>1. QueuedOnce' <=> Distinct(queue')
    BY DEF QueuedOnce
  <2> QED
    BY <1>1, <2>1, OthersProperties DEF ServicesTyped
<1>7. Queued' = Queued \ {r.id} /\ Toggled' = Toggled
  BY <1>1, <1>6 DEF Queued, Toggled
<1>8. /\ config' \in [Config -> Savable \cup {Absent}] /\ config'[r.id] = Absent
      /\ \A d \in Config : d # r.id => config'[d] = config[d]
  BY <1>1, <1>2 DEF ServicesTyped
<1>9. OnTheWay' = OnTheWay
  <2>1. OnTheWay' = {request'[k].id : k \in Serving'} \cup Queued' \cup Toggled'
    BY DEF OnTheWay, Queued, Jobs, Toggled
  <2>2. {request'[k].id : k \in Serving'} = {request[k].id : k \in Serving}
    BY <1>4, <1>5
  <2> QED
    BY <2>1, <2>2, <1>1, <1>7, Carriers
<1>10. ServicesTyped'
  BY <1>1, <1>3, <1>6, <1>8 DEF ServicesTyped
<1>11. /\ Mains' \subseteq Mains \ {r.id} /\ OneMainServer'
       /\ \A d \in Settled : d # r.id => d \in Settled'
  <2>1. r.id \notin Mains'
    BY <1>8, <1>2 DEF Mains, Absent
  <2>2. \A d \in Settled : d # r.id => d \in Settled'
    BY <1>1, <1>8, StaysSettled DEF Settled
  <2> QED
    BY <2>1, <2>2, <1>8 DEF Mains, OneMainServer
<1>12. OneCarrier'
  BY <1>1, <1>4, <1>5, <1>7 DEF OneCarrier
<1>13. RequestsKeep'
  <2> SUFFICES ASSUME NEW k \in Serving', request'[k].id \notin passedOver'
               PROVE  /\ request'[k].at \in {"tested", "checked"} =>
                           request'[k].update = config'[request'[k].id].exists
                      /\ request'[k].at \in {"saved", "found"} =>
                           config'[request'[k].id] = request'[k].row
                      /\ request'[k].at \in {"deleted", "cleared", "refreshing"} =>
                           config'[request'[k].id] = Absent
                      /\ request'[k].at \in {"cleared", "refreshing"} =>
                           request'[k].id \in Settled'
      BY DEF RequestsKeep
  <2>1. CASE k = h
    BY <2>1, <1>3, <1>8
  <2>2. CASE k # h
    <3>1. k \in Serving /\ request'[k] = request[k] /\ request[k].id \in Config
      BY <2>2, <1>4, RequestType
    <3>2. request[k].id # r.id
      BY <2>2, <3>1, <1>1 DEF OneCarrier
    <3> QED
      BY <3>1, <3>2, <1>1, <1>8, <1>11 DEF RequestsKeep
  <2> QED
    BY <2>1, <2>2
<1>14. QueueKeeps'
  <2> SUFFICES ASSUME NEW job \in Jobs(queue), job.id # r.id, job.id \notin passedOver
               PROVE  config'[job.id] = job.row \/ job.id \in Settled'
      BY <1>1, <1>6 DEF QueueKeeps
  <2>1. job.id \in Config
    BY JobType
  <2> QED
    BY <2>1, <1>8, <1>11 DEF QueueKeeps
<1>15. ToggleKeeps'
  <2> SUFFICES ASSUME toggle # NoToggle PROVE ToggleKeeps'
      BY <1>1 DEF ToggleKeeps
  <2>1. toggle.job.id \in Toggled /\ toggle.job.id \in Config
    BY ToggleType DEF Toggled
  <2>2. toggle.job.id \notin passedOver' => toggle.job.id # r.id
    BY <2>1, <1>1 DEF OneCarrier
  <2> QED
    BY <1>1, <1>8, <1>11, <2>1, <2>2 DEF ToggleKeeps
<1>16. PromotionsComeAfter'
  <2> SUFFICES ASSUME toggle.at \in {"matched", "cleared"}, toggle.job.row.main,
                      NEW d \in Mains' \ {toggle.job.id}, d \notin passedOver,
                      ~\E job \in Jobs(queue') : job.id = d /\ job.row = config'[d]
               PROVE  \E k \in Serving' :
                        request'[k].id = d /\ request'[k].at \in {"saved", "found"}
      BY <1>1 DEF PromotionsComeAfter
  <2>1. d \in Mains /\ d # r.id /\ config'[d] = config[d]
    BY <1>8, <1>11 DEF Mains
  <2>2. PICK k \in Serving : request[k].id = d /\ request[k].at \in {"saved", "found"}
    BY <2>1, <1>6 DEF PromotionsComeAfter
  <2> QED
    BY <2>1, <2>2, <1>1, <1>4
<1>17. OthersFollow'
  <2>1. r.id \in OnTheWay
    BY <1>1, Carriers
  <2> QED
    BY <2>1, <1>1, <1>9, <1>11 DEF OthersFollow
<1>18. MainHasClient'
  BY <1>1 DEF MainHasClient
<1> QED
  BY <1>6, <1>10, <1>11, <1>12, <1>13, <1>14, <1>15, <1>16, <1>17, <1>18
\* clear_plex and its like touch one client and, if it was its, the main server.
LEMMA ClearKeeps ==
  ASSUME ServicesTyped, NEW c \in Config, ClearServiceRuntime(c), config' = config,
         failed' = failed \ {c} \/ failed' = failed
  PROVE  /\ client' \in [Config -> Url \cup {None}] /\ main' \in Config \cup {None}
         /\ client'[c] = None /\ Mains' = Mains
         /\ \A d \in Settled : d # c => d \in Settled'
         /\ MainHasClient => MainHasClient'
<1>1. /\ client' = [client EXCEPT ![c] = None]
      /\ main' = IF main = c THEN None ELSE main
  BY DEF ClearServiceRuntime
<1>2. /\ client' \in [Config -> Url \cup {None}] /\ main' \in Config \cup {None}
      /\ client'[c] = None /\ Mains' = Mains
      /\ \A d \in Config : d # c => client'[d] = client[d]
  BY <1>1 DEF ServicesTyped, Mains
<1>3. \A d \in Settled : d # c => d \in Settled'
  BY <1>1, <1>2 DEF Settled, ClientOf
<1>4. MainHasClient => MainHasClient'
  BY <1>1, <1>2 DEF MainHasClient, ServicesTyped
<1> QED
  BY <1>2, <1>3, <1>4

\* ClearDeletedRuntime: nobody else holds the toggle lock.
LEMMA ClearDeletedRuntimeInv ==
  ASSUME ServicesInv, NEW h \in Handler, ClearDeletedRuntime(h)
  PROVE  ServicesInv'
<1> USE DEF ServicesInv
<1> DEFINE r == request[h]
<1>1. /\ h \in Serving /\ r.at = "deleted" /\ ~Locked
      /\ ClearServiceRuntime(r.id)
      /\ request' = [request EXCEPT ![h].at = "cleared"]
      /\ UNCHANGED <<config, queue, toggle, failed, resync, passedOver>>
  BY DEF ClearDeletedRuntime, Serving
<1>2. r \in [at : {"deleting", "deleted", "cleared", "refreshing"}, id : Config]
  BY <1>1, RequestType
<1>3. /\ request' \in [Handler -> Requests]
      /\ request'[h].at = "cleared" /\ request'[h].id = r.id /\ request'[h] # NoRequest
      /\ \A k \in Handler : k # h => request'[k] = request[k]
  <2>1. [r EXCEPT !.at = "cleared"] \in Requests
    BY <1>2 DEF Requests
  <2>2. request' = [request EXCEPT ![h] = [r EXCEPT !.at = "cleared"]]
    BY <1>1
  <2> QED
    BY <1>2, <2>1, <2>2 DEF ServicesTyped, NoRequest
<1>4. Serving' = Serving /\ \A k \in Serving' : k = h \/ request'[k] = request[k]
  BY <1>1, <1>3 DEF Serving
<1>5. \A k \in Serving : request'[k].id = request[k].id
  BY <1>3, <1>4
<1>6. Queued' = Queued /\ Toggled' = Toggled /\ Jobs(queue') = Jobs(queue)
  BY <1>1 DEF Queued, Toggled
<1>7. OnTheWay' = OnTheWay
  <2>1. OnTheWay' = {request'[k].id : k \in Serving'} \cup Queued' \cup Toggled'
    BY DEF OnTheWay, Queued, Jobs, Toggled
  <2> QED
    BY <2>1, <1>4, <1>5, <1>6, Carriers
<1>8. /\ client' \in [Config -> Url \cup {None}] /\ main' \in Config \cup {None}
      /\ client'[r.id] = None /\ Mains' = Mains
      /\ \A d \in Settled : d # r.id => d \in Settled'
      /\ MainHasClient'
  BY <1>1, <1>2, ClearKeeps
<1>9. ServicesTyped' /\ OneMainServer' /\ QueuedOnce'
  BY <1>1, <1>3, <1>8 DEF ServicesTyped, OneMainServer, QueuedOnce
<1>10. OneCarrier'
  BY <1>1, <1>4, <1>5, <1>6 DEF OneCarrier
<1>11. r.id \notin passedOver => config[r.id] = Absent /\ r.id \in Settled'
  <2> SUFFICES ASSUME r.id \notin passedOver
               PROVE  config[r.id] = Absent /\ r.id \in Settled'
      OBVIOUS
  <2>1. config[r.id] = Absent
    BY <1>1 DEF RequestsKeep
  <2>2. ~config'[r.id].exists /\ r.id \notin Mains'
    BY <1>1, <2>1 DEF Absent, Mains
  <2> QED
    BY <1>2, <1>8, <2>1, <2>2 DEF Settled, ClientOf
<1>12. RequestsKeep'
  <2> SUFFICES ASSUME NEW k \in Serving', request'[k].id \notin passedOver
               PROVE  /\ request'[k].at \in {"tested", "checked"} =>
                           request'[k].update = config[request'[k].id].exists
                      /\ request'[k].at \in {"saved", "found"} =>
                           config[request'[k].id] = request'[k].row
                      /\ request'[k].at \in {"deleted", "cleared", "refreshing"} =>
                           config[request'[k].id] = Absent
                      /\ request'[k].at \in {"cleared", "refreshing"} =>
                           request'[k].id \in Settled'
      BY <1>1 DEF RequestsKeep
  <2>1. CASE k = h
    BY <2>1, <1>3, <1>11
  <2>2. CASE k # h
    <3>1. k \in Serving /\ k \in Handler /\ request'[k] = request[k]
      BY <2>2, <1>4 DEF Serving
    <3>2. request[k].at \notin {"cleared", "refreshing"}
      BY <3>1, <1>1 DEF Locked
    <3> QED
      BY <3>1, <3>2 DEF RequestsKeep
  <2> QED
    BY <2>1, <2>2
<1>13. QueueKeeps'
  <2> SUFFICES ASSUME NEW job \in Jobs(queue), job.id \notin passedOver
               PROVE  config[job.id] = job.row \/ job.id \in Settled'
      BY <1>1, <1>6 DEF QueueKeeps
  <2>1. job.id # r.id
    BY <1>1 DEF OneCarrier, Queued
  <2> QED
    BY <2>1, <1>8 DEF QueueKeeps
<1>14. ToggleKeeps'
  <2> SUFFICES ASSUME toggle # NoToggle PROVE ToggleKeeps'
      BY <1>1 DEF ToggleKeeps
  <2>1. toggle.at = "claimed"
    BY <1>1, ToggleType DEF Locked
  <2>2. toggle.job.id \notin passedOver => toggle.job.id # r.id
    BY <1>1 DEF OneCarrier, Toggled
  <2> QED
    BY <1>1, <1>8, <2>1, <2>2 DEF ToggleKeeps
<1>15. PromotionsComeAfter'
  BY <1>1 DEF Locked, PromotionsComeAfter
<1>16. OthersFollow'
  <2>1. r.id \in OnTheWay
    BY <1>1, Carriers
  <2> QED
    BY <2>1, <1>1, <1>7, <1>8 DEF OthersFollow
<1> QED
  BY <1>8, <1>9, <1>10, <1>12, <1>13, <1>14, <1>15, <1>16

(***************************************************************************)
(* The toggle.  Its steps leave the requests alone.                        *)
(***************************************************************************)
\* ClaimToggle: the job goes from the queue to the worker.
LEMMA ClaimToggleInv ==
  ASSUME ServicesInv, ClaimToggle
  PROVE  ServicesInv'
<1> USE DEF ServicesInv
<1> DEFINE job == Head(queue)
<1>1. /\ toggle = NoToggle /\ toggle' = [at |-> "claimed", job |-> job]
      /\ queue # <<>> /\ queue' = Tail(queue)
      /\ UNCHANGED <<config, request, client, main, failed, resync, passedOver>>
  BY DEF ClaimToggle
<1>2. /\ job \in Payload /\ job \in Jobs(queue) /\ queue' \in Seq(Payload) /\ QueuedOnce'
      /\ Jobs(queue) = Jobs(queue') \cup {job}
      /\ \A other \in Jobs(queue') : other.id # job.id
  <2>1. QueuedOnce' <=> Distinct(queue')
    BY DEF QueuedOnce
  <2> QED
    BY <1>1, <2>1, TailProperties DEF ServicesTyped
<1> HIDE DEF job
<1>3. toggle' # NoToggle /\ toggle'.at = "claimed" /\ toggle'.job = job
  BY <1>1 DEF NoToggle
<1>4. /\ Toggled = {} /\ Toggled' = {job.id}
      /\ Queued = Queued' \cup {job.id} /\ job.id \notin Queued'
  BY <1>1, <1>2, <1>3 DEF Toggled, Queued
<1>5. Serving' = Serving /\ Settled' = Settled /\ OneMainServer' /\ MainHasClient'
  BY <1>1, SameRuntime DEF Serving
<1>6. OnTheWay' = OnTheWay
  <2>1. OnTheWay' = {request'[k].id : k \in Serving'} \cup Queued' \cup Toggled'
    BY DEF OnTheWay, Queued, Jobs, Toggled
  <2> QED
    BY <2>1, <1>1, <1>4, <1>5, Carriers
<1>7. ServicesTyped'
  BY <1>1, <1>2 DEF ServicesTyped, Toggles
<1>8. OneCarrier'
  BY <1>1, <1>4, <1>5 DEF OneCarrier
<1>9. RequestsKeep' /\ OthersFollow'
  BY <1>1, <1>5, <1>6 DEF RequestsKeep, OthersFollow
<1>10. QueueKeeps' /\ ToggleKeeps' /\ PromotionsComeAfter'
  BY <1>1, <1>2, <1>3, <1>5 DEF QueueKeeps, ToggleKeeps, PromotionsComeAfter
<1> QED
  BY <1>2, <1>5, <1>7, <1>8, <1>9, <1>10
(***************************************************************************)
(* A step of the toggle of c that leaves the rows, the requests and the    *)
(* queue alone, and the clients of all others.                             *)
(***************************************************************************)
LEMMA ToggleStep ==
  ASSUME ServicesInv, toggle # NoToggle,
         UNCHANGED <<config, queue, request, passedOver>>,
         toggle' \in Toggles,
         toggle' # NoToggle => toggle'.job = toggle.job,
         client' \in [Config -> Url \cup {None}], main' \in Config \cup {None},
         failed' \subseteq Config, resync' \in BOOLEAN,
         MainHasClient', ToggleKeeps', PromotionsComeAfter',
         \A d \in Settled : d # toggle.job.id => d \in Settled' \/ d \in passedOver
           \/ (\E job \in Jobs(queue) : job.id = d /\ job.row = config[d])
           \/ (\E h \in Serving : request[h].id = d /\ request[h].at \in {"saved", "found"}),
         toggle' = NoToggle => toggle.job.id \in passedOver \cup Settled'
  PROVE  ServicesInv'
<1> USE DEF ServicesInv
<1> DEFINE c == toggle.job.id
<1>1. /\ Serving' = Serving /\ Queued' = Queued /\ Mains' = Mains /\ OneMainServer'
      /\ QueuedOnce' /\ Jobs(queue') = Jobs(queue)
  BY DEF Serving, Queued, Mains, OneMainServer, QueuedOnce
<1>2. Toggled = {c} /\ Toggled' = IF toggle' = NoToggle THEN {} ELSE {c}
  BY DEF Toggled
<1>3. ServicesTyped'
  BY DEF ServicesTyped
<1>4. OneCarrier'
  BY <1>1, <1>2 DEF OneCarrier
<1>5. RequestsKeep'
  <2> SUFFICES ASSUME NEW k \in Serving, request[k].id \notin passedOver,
                      request[k].at \in {"cleared", "refreshing"}
               PROVE  request[k].id \in Settled'
      BY <1>1 DEF RequestsKeep
  <2>1. request[k].id \in Settled /\ config[request[k].id] = Absent /\ request[k].id # c
    BY <1>2 DEF RequestsKeep, OneCarrier
  <2>2. ~\E h \in Serving : request[h].id = request[k].id /\ request[h].at \in {"saved", "found"}
    BY DEF OneCarrier
  <2>3. request[k].id \notin Queued
    BY DEF OneCarrier
  <2> QED
    BY <2>1, <2>2, <2>3 DEF Queued
<1>6. QueueKeeps'
  <2> SUFFICES ASSUME NEW job \in Jobs(queue), job.id \notin passedOver, config[job.id] # job.row
               PROVE  job.id \in Settled'
      BY <1>1 DEF QueueKeeps
  <2>1. job.id \in Settled /\ job.id \in Queued /\ job.id # c
    BY <1>2 DEF QueueKeeps, Queued, OneCarrier
  <2>2. \A other \in Jobs(queue) : other.id = job.id => other = job
    BY DEF QueuedOnce, Distinct, Jobs
  <2>3. ~\E h \in Serving : request[h].id = job.id /\ request[h].at \in {"saved", "found"}
    BY <2>1 DEF OneCarrier
  <2> QED
    BY <2>1, <2>2, <2>3
<1>7. OthersFollow'
  <2> SUFFICES ASSUME NEW d \in Config, d \notin OnTheWay', d \notin passedOver
               PROVE  d \in Settled'
      BY DEF OthersFollow
  <2>1. OnTheWay' = {request'[k].id : k \in Serving'} \cup Queued' \cup Toggled'
    BY DEF OnTheWay, Queued, Jobs, Toggled
  <2>2. CASE d = c
    BY <2>1, <2>2, <1>2
  <2>3. CASE d # c
    <3>1. d \notin OnTheWay
      BY <2>1, <2>3, <1>1, <1>2, Carriers
    <3>2. d \in Settled
      BY <3>1 DEF OthersFollow
    <3> QED
      BY <3>1, <3>2, <2>3, Carriers DEF Queued
  <2> QED
    BY <2>2, <2>3
<1> QED
  BY <1>1, <1>3, <1>4, <1>5, <1>6, <1>7

\* ReadToggled: a copy that is not the stored row is dropped.
LEMMA ReadToggledInv ==
  ASSUME ServicesInv, ReadToggled
  PROVE  ServicesInv'
<1> USE DEF ServicesInv
<1>1. /\ toggle.at = "claimed"
      /\ toggle' = IF Stale(toggle.job) THEN NoToggle ELSE [toggle EXCEPT !.at = "matched"]
      /\ UNCHANGED <<config, queue, request, client, main, resync, passedOver, failed>>
  BY DEF ReadToggled
<1>2. toggle # NoToggle
  BY <1>1, ToggleIdle
<1>3. /\ Serving' = Serving /\ Mains' = Mains /\ Settled' = Settled /\ MainHasClient'
      /\ Jobs(queue') = Jobs(queue)
  BY <1>1, SameRuntime DEF Serving
<1>4. /\ client' \in [Config -> Url \cup {None}] /\ main' \in Config \cup {None}
      /\ failed' \subseteq Config /\ resync' \in BOOLEAN
  BY <1>1 DEF ServicesTyped
<1>5. CASE Stale(toggle.job)
  <2>1. toggle' = NoToggle /\ toggle' \in Toggles /\ toggle'.at = "idle"
    BY <1>1, <1>5 DEF Toggles, NoToggle
  <2>2. ToggleKeeps' /\ PromotionsComeAfter'
    BY <2>1 DEF ToggleKeeps, PromotionsComeAfter
  <2>3. toggle.job.id \in passedOver \cup Settled'
    BY <1>1, <1>2, <1>3, <1>5 DEF ToggleKeeps, Stale
  <2> QED
    BY <1>1, <1>2, <1>3, <1>4, <2>1, <2>2, <2>3, ToggleStep
<1>6. CASE ~Stale(toggle.job)
  <2>1. /\ toggle' \in Toggles /\ toggle' # NoToggle
        /\ toggle'.at = "matched" /\ toggle'.job = toggle.job
    BY <1>1, <1>2, <1>6, ToggleType DEF Toggles, NoToggle
  <2>2. config[toggle.job.id] = toggle.job.row
    BY <1>6 DEF Stale
  <2>3. ToggleKeeps'
    BY <1>1, <2>1, <2>2 DEF ToggleKeeps
  <2>4. PromotionsComeAfter'
    <3>1. toggle.job.row.main => toggle.job.id \in Mains
      BY <1>2, <2>2, ToggleType DEF Mains, Stored
    <3> QED
      BY <1>3, <2>1, <3>1 DEF PromotionsComeAfter, OneMainServer
  <2> QED
    BY <1>1, <1>2, <1>3, <1>4, <2>1, <2>3, <2>4, ToggleStep
<1> QED
  BY <1>5, <1>6

\* ClearToggled: the old client goes; a disabled server gets no other.
LEMMA ClearToggledInv ==
  ASSUME ServicesInv, ClearToggled
  PROVE  ServicesInv'
<1> USE DEF ServicesInv
<1> DEFINE c == toggle.job.id
           row == toggle.job.row
<1>1. /\ toggle.at = "matched" /\ ClearServiceRuntime(c) /\ failed' = failed \ {c}
      /\ toggle' = [toggle EXCEPT !.at = IF row.enabled THEN "cleared" ELSE "applied"]
      /\ UNCHANGED <<config, queue, request, resync, passedOver>>
  BY DEF ClearToggled
<1>2. toggle # NoToggle /\ c \in Config
  BY <1>1, ToggleIdle, ToggleType
<1>3. /\ client' \in [Config -> Url \cup {None}] /\ main' \in Config \cup {None}
      /\ client'[c] = None /\ Mains' = Mains /\ c \notin failed'
      /\ \A d \in Settled : d # c => d \in Settled'
      /\ MainHasClient'
  BY <1>1, <1>2, ClearKeeps
<1>4. /\ toggle' \in Toggles /\ toggle' # NoToggle /\ toggle'.job = toggle.job
      /\ toggle'.at = IF row.enabled THEN "cleared" ELSE "applied"
  BY <1>1, <1>2, ToggleType DEF Toggles, NoToggle
<1>5. ToggleKeeps'
  <2> SUFFICES ASSUME c \notin passedOver
               PROVE  /\ row.enabled => config'[c] = row
                      /\ ~row.enabled => c \in Settled'
      BY <1>1, <1>3, <1>4 DEF ToggleKeeps
  <2>1. config[c] = row
    BY <1>1, <1>2 DEF ToggleKeeps
  <2> QED
    BY <1>1, <1>2, <1>3, <2>1 DEF Settled, ClientOf
<1>6. PromotionsComeAfter'
  BY <1>1, <1>3, <1>4 DEF PromotionsComeAfter, Serving
<1>7. failed' \subseteq Config /\ resync' \in BOOLEAN
  BY <1>1 DEF ServicesTyped
<1> QED
  BY <1>1, <1>2, <1>3, <1>4, <1>5, <1>6, <1>7, ToggleStep

\* InitializeToggled: the new client is that of the row, and the main server
\* moves to it only if no server promoted since has settled.
LEMMA InitializeToggledInv ==
  ASSUME ServicesInv, InitializeToggled
  PROVE  ServicesInv'
<1> USE DEF ServicesInv
<1> DEFINE c == toggle.job.id
           row == toggle.job.row
<1>1. /\ toggle.at = "cleared" /\ toggle' = [toggle EXCEPT !.at = "applied"]
      /\ UNCHANGED <<config, queue, request, resync, passedOver>>
  BY DEF InitializeToggled
<1>2. /\ toggle # NoToggle /\ c \in Config /\ row.enabled /\ row.url \in Url
      /\ resync' \in BOOLEAN
  BY <1>1, ToggleIdle, ToggleType DEF ToggleKeeps, Stored, ServicesTyped
<1>3. /\ toggle' \in Toggles /\ toggle' # NoToggle /\ toggle'.job = toggle.job
      /\ toggle'.at = "applied"
  BY <1>1, <1>2, ToggleType DEF Toggles, NoToggle
<1>4. PromotionsComeAfter'
  BY <1>3 DEF PromotionsComeAfter
<1>5. c \notin passedOver => config[c] = row /\ client[c] = None /\ c \notin failed
  BY <1>1, <1>2 DEF ToggleKeeps
<1>6. Mains' = Mains
  BY <1>1 DEF Mains
<1>7. CASE /\ client' = [client EXCEPT ![c] = row.url]
           /\ main' = IF row.main THEN c ELSE main
           /\ UNCHANGED <<failed, faults>>
  <2>1. /\ client' \in [Config -> Url \cup {None}] /\ main' \in Config \cup {None}
        /\ failed' \subseteq Config /\ client'[c] = row.url
        /\ \A d \in Config : d # c => client'[d] = client[d]
    BY <1>2, <1>7 DEF ServicesTyped
  <2>2. MainHasClient'
    BY <1>2, <1>7, <2>1, UrlAssumption DEF MainHasClient, ServicesTyped
  <2>3. c \notin passedOver => c \in Settled'
    <3> SUFFICES ASSUME c \notin passedOver PROVE c \in Settled'
      OBVIOUS
    <3>1. config'[c] = row /\ c \notin failed'
      BY <1>1, <1>5, <1>7
    <3>2. row.exists
      BY <1>2, ToggleType DEF Stored
    <3>3. c \in Mains' => main' = c
      BY <3>1, <1>7 DEF Mains
    <3> QED
      BY <1>2, <2>1, <3>1, <3>2, <3>3 DEF Settled, ClientOf
  <2>4. ToggleKeeps'
    BY <1>1, <1>3, <2>3 DEF ToggleKeeps
  <2>5. \A d \in Settled : d # c => d \in Settled' \/ d \in passedOver
           \/ (\E job \in Jobs(queue) : job.id = d /\ job.row = config[d])
           \/ (\E h \in Serving : request[h].id = d /\ request[h].at \in {"saved", "found"})
    <3> SUFFICES ASSUME NEW d \in Settled, d # c, d \notin passedOver,
                        ~\E job \in Jobs(queue) : job.id = d /\ job.row = config[d],
                        ~\E h \in Serving :
                           request[h].id = d /\ request[h].at \in {"saved", "found"}
                 PROVE  d \in Settled'
        OBVIOUS
    <3>1. row.main => d \notin Mains
      BY <1>1 DEF PromotionsComeAfter
    <3>2. d \in Config /\ (d \in Mains /\ client[d] # None => main = d) /\ client[d] = ClientOf(d)
      BY DEF Settled
    <3>3. ClientOf(d)' = ClientOf(d)
      BY <1>1, <1>7 DEF ClientOf
    <3> QED
      BY <1>6, <1>7, <2>1, <3>1, <3>2, <3>3 DEF Settled
  <2> QED
    BY <1>1, <1>2, <1>3, <1>4, <2>1, <2>2, <2>4, <2>5, ToggleStep
<1>8. CASE failed' = failed \cup {c} /\ UNCHANGED <<client, main>>
  <2>1. /\ client' \in [Config -> Url \cup {None}] /\ main' \in Config \cup {None}
        /\ failed' \subseteq Config /\ MainHasClient'
    BY <1>2, <1>8 DEF ServicesTyped, MainHasClient
  <2>2. \A d \in Settled : d # c => d \in Settled'
    BY <1>1, <1>6, <1>8 DEF Settled, ClientOf
  <2>3. c \notin passedOver => c \in Settled'
    BY <1>2, <1>5, <1>8 DEF Settled, ClientOf
  <2>4. ToggleKeeps'
    BY <1>1, <1>3, <2>3 DEF ToggleKeeps
  <2> QED
    BY <1>1, <1>2, <1>3, <1>4, <2>1, <2>2, <2>4, ToggleStep
<1> QED
  BY <1>7, <1>8 DEF InitializeToggled

\* RefreshAfterToggle: the schedules of the task module.
LEMMA RefreshAfterToggleInv ==
  ASSUME Inv, RefreshAfterToggle
  PROVE  Inv'
<1> USE DEF Inv, ServicesInv
<1>1. /\ toggle.at \in {"applied", "refreshing"}
      /\ \/ toggle' = [toggle EXCEPT !.at = "refreshing"]
         \/ toggle' = [toggle EXCEPT !.at = "done"]
      /\ UNCHANGED <<config, queue, request, client, main, resync, passedOver, failed>>
  BY DEF RefreshAfterToggle
<1>2. toggle # NoToggle
  BY <1>1, ToggleIdle
<1>3. /\ toggle' \in Toggles /\ toggle' # NoToggle /\ toggle'.job = toggle.job
      /\ toggle'.at \in {"refreshing", "done"}
  BY <1>1, <1>2, ToggleType DEF Toggles, NoToggle
<1>4. Settled' = Settled /\ MainHasClient'
  BY <1>1, SameRuntime
<1>5. ToggleKeeps' /\ PromotionsComeAfter'
  BY <1>1, <1>2, <1>3, <1>4 DEF ToggleKeeps, PromotionsComeAfter
<1>6. /\ client' \in [Config -> Url \cup {None}] /\ main' \in Config \cup {None}
      /\ failed' \subseteq Config /\ resync' \in BOOLEAN
  BY <1>1 DEF ServicesTyped
<1>7. ServicesInv'
  BY <1>1, <1>2, <1>3, <1>4, <1>5, <1>6, ToggleStep
<1>8. SchedulesInv'
  BY ReadSchedulesInv, RefreshSchedulesInv DEF RefreshAfterToggle
<1> QED
  BY <1>7, <1>8

\* FinishToggle: nothing is on its way any more.
LEMMA FinishToggleInv ==
  ASSUME ServicesInv, FinishToggle
  PROVE  ServicesInv'
<1> USE DEF ServicesInv
<1>1. /\ toggle.at = "done" /\ toggle' = NoToggle
      /\ resync' = (resync \/ toggle.job.resync)
      /\ UNCHANGED <<config, queue, request, client, main, passedOver, failed>>
  BY DEF FinishToggle
<1>2. toggle # NoToggle
  BY <1>1, ToggleIdle
<1>3. Settled' = Settled /\ MainHasClient'
  BY <1>1, SameRuntime
<1>4. toggle' \in Toggles /\ toggle'.at = "idle"
  BY <1>1 DEF Toggles, NoToggle
<1>5. ToggleKeeps' /\ PromotionsComeAfter'
  BY <1>1, <1>4 DEF ToggleKeeps, PromotionsComeAfter
<1>6. toggle.job.id \in passedOver \cup Settled'
  BY <1>1, <1>2, <1>3 DEF ToggleKeeps
<1>7. /\ client' \in [Config -> Url \cup {None}] /\ main' \in Config \cup {None}
      /\ failed' \subseteq Config /\ resync' \in BOOLEAN
  BY <1>1, <1>2, ToggleType DEF ServicesTyped
<1> QED
  BY <1>1, <1>2, <1>3, <1>4, <1>5, <1>6, <1>7, ToggleStep
(***************************************************************************)
(* The start of the process brings the clients into line with the rows,    *)
(* whatever was on its way when it ended.                                  *)
(***************************************************************************)
LEMMA RestartInv ==
  ASSUME Inv, Restart
  PROVE  Inv'
<1> USE DEF Inv, ServicesInv
<1> DEFINE enabled == {c \in Config : config[c].exists /\ config[c].enabled}
<1>1. PICK down \in SUBSET enabled :
        /\ failed' = down
        /\ client' = [c \in Config |->
             IF config[c].exists /\ config[c].enabled /\ c \notin down
             THEN config[c].url ELSE None]
        /\ main' = IF Mains \ down = {} THEN None ELSE CHOOSE c \in Mains : TRUE
  BY DEF Restart
<1>2. /\ toggle' = NoToggle /\ request' = [h \in Handler |-> NoRequest] /\ passedOver' = {}
      /\ UNCHANGED <<config, queue, resync>>
  BY DEF Restart
<1>3. /\ Serving' = {} /\ Toggled' = {} /\ Mains' = Mains /\ toggle'.at = "idle"
      /\ QueuedOnce' /\ OneMainServer'
  BY <1>2 DEF Serving, Toggled, Mains, NoToggle, NoRequest, QueuedOnce, OneMainServer
<1>4. Mains \subseteq enabled
  BY RowType, SavableType DEF Mains
<1>5. \A c \in Mains \ down : main' = c
  BY <1>1 DEF OneMainServer
<1>6. \A c \in Config : client'[c] = ClientOf(c)'
  BY <1>1, <1>2 DEF ClientOf
<1>7. Settled' = Config
  <2> SUFFICES ASSUME NEW c \in Config, c \in Mains, client'[c] # None
               PROVE  main' = c
      BY <1>3, <1>6 DEF Settled
  <2>1. c \notin down
    BY <1>1
  <2> QED
    BY <2>1, <1>5
<1>8. MainHasClient'
  <2> SUFFICES ASSUME main' # None PROVE client'[main'] # None
    BY DEF MainHasClient
  <2>1. PICK c \in Mains \ down : TRUE
    BY <1>1
  <2>2. c \in Config /\ c \in enabled /\ main' = c
    BY <2>1, <1>4, <1>5 DEF Mains
  <2>3. client'[c] = config[c].url /\ config[c].url \in Url
    BY <1>1, <2>1, <2>2, RowType, SavableType
  <2> QED
    BY <2>2, <2>3, UrlAssumption
<1>9. ServicesTyped'
  <2>1. client' \in [Config -> Url \cup {None}]
    <3> SUFFICES ASSUME NEW c \in Config, config[c].exists PROVE config[c].url \in Url
      BY <1>1
    <3> QED
      BY RowType, SavableType
  <2>2. main' \in Config \cup {None}
    BY <1>1 DEF Mains
  <2>3. NoToggle \in Toggles /\ NoRequest \in Requests
    BY DEF Toggles, Requests
  <2> QED
    BY <1>1, <1>2, <2>1, <2>2, <2>3 DEF ServicesTyped
<1>10. OneCarrier' /\ RequestsKeep' /\ PromotionsComeAfter' /\ OthersFollow'
  BY <1>3, <1>7 DEF OneCarrier, RequestsKeep, PromotionsComeAfter, OthersFollow
<1>11. ToggleKeeps'
  BY <1>2 DEF ToggleKeeps
<1>12. QueueKeeps'
  BY <1>2, <1>7, JobType DEF QueueKeeps
<1>13. SchedulesInv'
  BY SetupSchedulerInv DEF Restart
<1> QED
  BY <1>3, <1>8, <1>9, <1>10, <1>11, <1>12, <1>13

\* Steps of the schedules leave the services alone.
LEMMA ServicesUnchanged ==
  ASSUME ServicesInv, UNCHANGED <<config, queue, toggle, request, client, main,
                                  passedOver, failed>>,
         resync' \in BOOLEAN
  PROVE  ServicesInv'
<1> USE DEF ServicesInv
<1>1. /\ Settled' = Settled /\ Mains' = Mains /\ OneMainServer' /\ MainHasClient'
      /\ Serving' = Serving /\ Queued' = Queued /\ Toggled' = Toggled
      /\ Jobs(queue') = Jobs(queue) /\ QueuedOnce'
  BY SameRuntime DEF Serving, Queued, Toggled, QueuedOnce
<1>2. OnTheWay' = OnTheWay
  BY DEF OnTheWay, Serving
<1>3. ServicesTyped' /\ OneCarrier' /\ ToggleKeeps'
  BY <1>1 DEF ServicesTyped, OneCarrier, ToggleKeeps
<1>4. RequestsKeep' /\ QueueKeeps' /\ PromotionsComeAfter' /\ OthersFollow'
  BY <1>1, <1>2 DEF RequestsKeep, QueueKeeps, PromotionsComeAfter, OthersFollow
<1> QED
  BY <1>1, <1>3, <1>4

LEMMA ServicesInitInv == Init => ServicesInv
<1> SUFFICES ASSUME Init PROVE ServicesInv
  OBVIOUS
<1>1. PICK c \in Config, linked \in SUBSET Config, u \in Url :
        /\ c \in linked
        /\ config = [x \in Config |->
             IF x \in linked
             THEN [exists |-> TRUE, enabled |-> TRUE, url |-> u, main |-> x = c]
             ELSE Absent]
        /\ client = [x \in Config |-> IF x \in linked THEN u ELSE None]
        /\ main = c
  BY DEF Init
<1>2. /\ queue = <<>> /\ toggle = NoToggle /\ request = [h \in Handler |-> NoRequest]
      /\ resync = FALSE /\ passedOver = {} /\ failed = {}
  BY DEF Init
<1>3. /\ \A x \in linked : config[x].exists /\ config[x].enabled /\ config[x].url = u
                           /\ (config[x].main <=> x = c)
      /\ \A x \in Config : x \notin linked => config[x] = Absent /\ ~config[x].exists
  BY <1>1 DEF Absent
<1>4. Mains = {c} /\ OneMainServer
  <2>1. c \in Config /\ linked \subseteq Config
    BY <1>1
  <2>2. ASSUME NEW x \in Config
        PROVE  config[x].exists /\ config[x].main <=> x = c
    BY <1>1, <1>3
  <2>3. Mains = {c}
    BY <2>1, <2>2 DEF Mains
  <2>. QED
    BY <2>3 DEF OneMainServer
<1>5. Settled = Config
  <2>1. ASSUME NEW x \in Config PROVE client[x] = ClientOf(x)
    <3>1. CASE x \in linked
      BY <1>1, <1>2, <1>3, <3>1 DEF ClientOf
    <3>2. CASE x \notin linked
      BY <1>1, <1>3, <3>2 DEF ClientOf
    <3> QED
      BY <3>1, <3>2
  <2>. QED
    BY <1>1, <1>4, <2>1 DEF Settled
<1>6. Serving = {} /\ Jobs(queue) = {} /\ Queued = {} /\ Toggled = {} /\ QueuedOnce
  BY <1>2 DEF Serving, Jobs, Queued, Toggled, NoRequest, QueuedOnce, Distinct
<1>7. ServicesTyped
  <2>1. config \in [Config -> Savable \cup {Absent}]
    BY <1>1 DEF Savable, Stored
  <2>2. queue \in Seq(Payload)
    BY <1>2
  <2> QED
    BY <1>1, <1>2, <2>1, <2>2 DEF ServicesTyped, Toggles, Requests
<1>8. OneCarrier /\ RequestsKeep /\ QueueKeeps /\ OthersFollow
  BY <1>5, <1>6 DEF OneCarrier, RequestsKeep, QueueKeeps, OthersFollow
<1>9. ToggleKeeps /\ PromotionsComeAfter
  BY <1>2 DEF ToggleKeeps, PromotionsComeAfter, NoToggle
<1>10. MainHasClient
  BY <1>1, UrlAssumption DEF MainHasClient
<1> QED
  BY <1>4, <1>6, <1>7, <1>8, <1>9, <1>10 DEF ServicesInv

-----------------------------------------------------------------------------
(***************************************************************************)
(* The invariant and what follows from it.                                 *)
(***************************************************************************)
LEMMA ServeRequestInv ==
  ASSUME Inv, NEW h \in Handler, ServeRequest(h)
  PROVE  Inv'
<1> USE DEF Inv
<1>1. CASE RefreshAfterDelete(h)
  BY <1>1, RefreshAfterDeleteInv
<1>2. CASE \/ StartSave(h) \/ ReadMain(h) \/ UpsertServiceConfig(h) \/ ReadSaved(h)
           \/ EnqueueToggle(h) \/ StartDelete(h) \/ DeleteServiceConfig(h)
           \/ ClearDeletedRuntime(h)
  <2>1. UNCHANGED scheduleVars
    BY <1>2 DEF StartSave, ReadMain, UpsertServiceConfig, ReadSaved, EnqueueToggle,
       StartDelete, DeleteServiceConfig, ClearDeletedRuntime
  <2>2. SchedulesInv'
    BY <2>1, SchedulesUnchanged
  <2>3. ServicesInv'
    BY <1>2, StartSaveInv, ReadMainInv, UpsertServiceConfigInv, ReadSavedInv,
       EnqueueToggleInv, StartDeleteInv, DeleteServiceConfigInv, ClearDeletedRuntimeInv
  <2> QED
    BY <2>2, <2>3
<1> QED
  BY <1>1, <1>2 DEF ServeRequest

LEMMA RunToggleInv ==
  ASSUME Inv, RunToggle
  PROVE  Inv'
<1> USE DEF Inv
<1>1. CASE RefreshAfterToggle
  BY <1>1, RefreshAfterToggleInv
<1>2. CASE ClaimToggle \/ ReadToggled \/ ClearToggled \/ InitializeToggled \/ FinishToggle
  <2>1. UNCHANGED scheduleVars
    BY <1>2 DEF ClaimToggle, ReadToggled, ClearToggled, InitializeToggled, FinishToggle
  <2>2. SchedulesInv'
    BY <2>1, SchedulesUnchanged
  <2>3. ServicesInv'
    BY <1>2, ClaimToggleInv, ReadToggledInv, ClearToggledInv, InitializeToggledInv,
       FinishToggleInv
  <2> QED
    BY <2>2, <2>3
<1> QED
  BY <1>1, <1>2 DEF RunToggle

LEMMA EditScheduleInv ==
  ASSUME Inv, NEW u \in Updater, EditSchedule(u)
  PROVE  Inv'
<1> USE DEF Inv
<1>1. ServicesInv'
  <2>1. /\ UNCHANGED <<config, queue, toggle, request, client, main, passedOver, failed>>
        /\ resync' \in BOOLEAN
    BY DEF EditSchedule, serviceVars, ServicesInv, ServicesTyped
  <2> QED
    BY <2>1, ServicesUnchanged
<1>2. SchedulesInv'
  BY ReadScheduleInv, CommitScheduleInv, CancelQueuedRunsInv, ApplyScheduleInv
  DEF EditSchedule, UpdateSchedule
<1> QED
  BY <1>1, <1>2

\* The strengthened invariant holds at a start and is kept by every step.
THEOREM Invariance == Spec => []Inv
<1>1. Init => Inv
  BY ServicesInitInv, ScheduleInitInv DEF Init, Inv
<1>2. Inv /\ [Next]_vars => Inv'
  <2> SUFFICES ASSUME Inv, [Next]_vars PROVE Inv'
    OBVIOUS
  <2>1. ASSUME NEW h \in Handler, ServeRequest(h) PROVE Inv'
    BY <2>1, ServeRequestInv
  <2>2. CASE RunToggle
    BY <2>2, RunToggleInv
  <2>3. ASSUME NEW u \in Updater, EditSchedule(u) PROVE Inv'
    BY <2>3, EditScheduleInv
  <2>4. CASE ResyncMedia
    BY <2>4, ServicesUnchanged, SchedulesUnchanged DEF ResyncMedia, Inv
  <2>5. CASE Restart
    BY <2>5, RestartInv
  <2>6. CASE UNCHANGED vars
    BY <2>6, ServicesUnchanged, SchedulesUnchanged
    DEF vars, serviceVars, Inv, ServicesInv, ServicesTyped
  <2> QED
    BY <2>1, <2>2, <2>3, <2>4, <2>5, <2>6 DEF Next
<1> QED
  BY <1>1, <1>2, PTL DEF Spec

(***************************************************************************)
(* TypeOK: what every request, toggle and edit carries at each of its      *)
(* steps is what services.py and scheduler.py put there.                   *)
(***************************************************************************)
THEOREM TypeCorrectness == Spec => []TypeOK
<1>1. Inv => TypeOK
  <2> SUFFICES ASSUME Inv PROVE TypeOK
    OBVIOUS
  <2> USE DEF Inv, SchedulesInv, ServicesInv
  <2>1. ScheduleTypeOK
    <3>1. snapshot.reading => snapshot # NoSnapshot
      BY DEF NoSnapshot
    <3>2. snapshot.reading => snapshot.rows \in [Task -> Row] /\ snapshot.alone \subseteq Task
      BY <3>1 DEF SchedulesTyped, Snapshots
    <3> QED
      BY <3>2, EditingType DEF SchedulesTyped, ScheduleTypeOK
  <2>2. config \in [Config -> Stored \cup {Absent}]
    BY DEF ServicesTyped, Savable
  <2>3. /\ toggle # NoToggle => toggle.job \in Payload
        /\ \A h \in Serving : request[h].id \in Config
    BY ToggleType, RequestType
  <2> QED
    BY <2>1, <2>2, <2>3 DEF TypeOK, ServicesTyped
<1> QED
  BY <1>1, Invariance, PTL

(***************************************************************************)
(* OneMainServer: however many administrators save at the same time, the   *)
(* transaction of _upsert_service_config leaves one main server.           *)
(***************************************************************************)
THEOREM OneMain == Spec => []OneMainServer
<1>1. Inv => OneMainServer
  BY DEF Inv, ServicesInv
<1> QED
  BY <1>1, Invariance, PTL

(***************************************************************************)
(* RuntimeFollowsRows: where no change is on its way, the service manager  *)
(* holds what the rows say, after any overlap of saves, deletes, toggles,  *)
(* failed initialisations and restarts.                                    *)
(***************************************************************************)
THEOREM RuntimeFollows == Spec => []RuntimeFollowsRows
<1>1. Inv => RuntimeFollowsRows
  BY DEF Inv, ServicesInv, OthersFollow, MainHasClient, Settled, ClientOf,
     RuntimeFollowsRows
<1> QED
  BY <1>1, Invariance, PTL

(***************************************************************************)
(* SchedulerFollowsRows: where no edit or refresh overlapped another, the  *)
(* scheduler holds the jobs that the rows of task_schedules call for.      *)
(***************************************************************************)
THEOREM SchedulerFollows == Spec => []SchedulerFollowsRows
<1>1. Inv => SchedulerFollowsRows
  BY DEF Inv, SchedulesInv
<1> QED
  BY <1>1, Invariance, PTL
=============================================================================
