-------------------------- MODULE AutoDelete_proofs --------------------------
(***************************************************************************)
(* For every set of titles and rules and all bounds: the types, and that a *)
(* hold placed before a deletion run is honoured by it.                    *)
(***************************************************************************)
EXTENDS AutoDelete, TLAPS

RuleRow == [on: BOOLEAN, auto: BOOLEAN]
CandRow == [exists: BOOLEAN, rules: SUBSET Rule, timer: Day,
            until: Nat, cancelled: BOOLEAN, announced: BOOLEAN]
TaskRow == [at: {"idle", "scanning", "selected", "deleting"},
            rules: [Rule -> RuleRow], existing: SUBSET Title,
            chosen: SUBSET Title, barred: SUBSET Title]

\* Where everything is.
Typed ==
  /\ rule \in [Rule -> RuleRow]
  /\ matches \in [Title -> SUBSET Rule]
  /\ cand \in [Title -> CandRow]
  /\ file \in SUBSET Title
  /\ protected \in SUBSET Title
  /\ asked \in SUBSET Title
  /\ now \in Day
  /\ task \in TaskRow
  /\ since \in [Title -> Nat]
  /\ barUntil \in [Title -> Nat]
  /\ events \in Nat

\* A row that is not there is empty, one that is there has a file and a rule.
RowsInv ==
  \A t \in Title : IF cand[t].exists THEN t \in file /\ cand[t].rules # {}
                                     ELSE cand[t] = NoCandidate

TaskInv ==
  /\ task.at = "idle" => task = Idle
  /\ task.chosen \subseteq file
  /\ task.at \in {"selected", "deleting"} <=> task.chosen # {}

\* The candidate's own fields carry every hold: its timer is the start of the
\* review, and it waits for the day its holders named or is cancelled.
CarriesHolds ==
  \A t \in Title : cand[t].exists =>
    /\ since[t] = cand[t].timer
    /\ cand[t].cancelled \/ barUntil[t] <= cand[t].until

\* A run never has a title among its chosen that it must leave alone.
ChosenClear == task.chosen \cap task.barred = {}

Inv == Typed /\ RowsInv /\ TaskInv /\ CarriesHolds /\ ChosenClear

-----------------------------------------------------------------------------
(***************************************************************************)
(* Rows.                                                                   *)
(***************************************************************************)
\* The empty row and the idle task have their types.
LEMMA EmptyRows == NoCandidate \in CandRow /\ Idle \in TaskRow
BY RuleAssumption DEF NoCandidate, CandRow, Idle, TaskRow, RuleRow, Day

LEMMA InitInv == Init => Inv
<1> SUFFICES ASSUME Init PROVE Inv
  OBVIOUS
<1> USE RuleAssumption, EmptyRows
<1>1. Typed
  BY DEF Init, Typed, RuleRow, Day
<1>2. RowsInv
  BY DEF Init, RowsInv, NoCandidate
<1>3. TaskInv
  BY DEF Init, TaskInv, Idle
<1>4. CarriesHolds
  BY DEF Init, CarriesHolds, NoCandidate
<1>5. ChosenClear
  BY DEF Init, ChosenClear, Idle
<1> QED BY <1>1, <1>2, <1>3, <1>4, <1>5 DEF Inv

\* The steps of the world and of the routes that leave candidates and the
\* running task alone.
LEMMA OutsideSteps ==
  ASSUME Inv, Typed', UNCHANGED <<cand, task, since, barUntil>>,
         file \subseteq file'
  PROVE  Inv'
BY DEF Inv, RowsInv, TaskInv, CarriesHolds, ChosenClear

LEMMA EditRuleKeeps ==
  ASSUME Inv, NEW r \in Rule, EditRule(r) PROVE Inv'
<1>1. Typed'
  BY DEF Inv, Typed, EditRule, Event, libraryVars, history, RuleRow
<1> QED BY <1>1, OutsideSteps DEF EditRule, libraryVars, history

LEMMA LibraryChangesKeeps ==
  ASSUME Inv, NEW t \in Title, LibraryChanges(t) PROVE Inv'
<1>1. Typed'
  BY DEF Inv, Typed, LibraryChanges, Event, history
<1> QED BY <1>1, OutsideSteps DEF LibraryChanges, history

LEMMA TickKeeps == ASSUME Inv, Tick PROVE Inv'
<1>1. Typed'
  BY RuleAssumption DEF Inv, Typed, Tick, Day, libraryVars, history, CandRow
<1> QED BY <1>1, OutsideSteps DEF Tick, libraryVars, history

\* Protections and requests that come and go without touching a candidate.
LEMMA GuardsKeep ==
  ASSUME Inv, NEW t \in Title,
         Protect(t) \/ Unprotect(t) \/ Ask(t) \/ Answer(t)
  PROVE  Inv'
<1>1. Typed'
  BY DEF Inv, Typed, Protect, Unprotect, Ask, Answer, Event, history
<1> QED BY <1>1, OutsideSteps DEF Protect, Unprotect, Ask, Answer, history

-----------------------------------------------------------------------------
(***************************************************************************)
(* The routes that hold a candidate.                                       *)
(***************************************************************************)
LEMMA HoldKeeps ==
  ASSUME Inv, NEW t \in Title, NEW row \in CandRow, NEW from \in Nat,
         NEW until \in Nat, Hold(t, row, from, until),
         row.exists, row.rules = cand[t].rules, from = row.timer,
         row.cancelled \/ until <= row.until
  PROVE  Inv'
<1>1. Typed'
  BY DEF Inv, Typed, Hold, Event, libraryVars
<1>2. RowsInv'
  BY DEF Inv, Typed, RowsInv, Hold, libraryVars
<1>3. TaskInv'
  BY DEF Inv, TaskInv, Hold, libraryVars
<1>4. CarriesHolds'
  BY DEF Inv, Typed, CarriesHolds, Hold
<1>5. ChosenClear'
  BY DEF Inv, ChosenClear, Hold
<1> QED BY <1>1, <1>2, <1>3, <1>4, <1>5 DEF Inv

LEMMA CancelKeeps == ASSUME Inv, NEW t \in Title, Cancel(t) PROVE Inv'
<1> DEFINE row == [cand[t] EXCEPT !.cancelled = TRUE]
<1>0. Never \in Nat
  BY RuleAssumption DEF Never
<1>1. row \in CandRow /\ since[t] \in Nat /\ cand[t].exists
  BY DEF Inv, Typed, CandRow, Cancel, Hold
<1>2. /\ row.exists /\ row.rules = cand[t].rules /\ row.cancelled
      /\ since[t] = row.timer
  BY <1>1 DEF Inv, Typed, CandRow, CarriesHolds
<1>3. Hold(t, row, since[t], Never)
  BY DEF Cancel
<1> QED BY <1>0, <1>1, <1>2, <1>3, HoldKeeps

LEMMA PostponeKeeps ==
  ASSUME Inv, NEW t \in Title, NEW until \in Day, Postpone(t, until) PROVE Inv'
<1> DEFINE row == [cand[t] EXCEPT !.cancelled = FALSE, !.until = until]
<1>0. until \in Nat
  BY RuleAssumption DEF Day
<1>1. row \in CandRow /\ since[t] \in Nat /\ cand[t].exists
  BY <1>0 DEF Inv, Typed, CandRow, Postpone, Hold
<1>2. /\ row.exists /\ row.rules = cand[t].rules
      /\ since[t] = row.timer /\ until <= row.until
  BY <1>0, <1>1 DEF Inv, Typed, CandRow, CarriesHolds
<1>3. Hold(t, row, since[t], until)
  BY DEF Postpone
<1> QED BY <1>0, <1>1, <1>2, <1>3, HoldKeeps

LEMMA ResetTimerKeeps == ASSUME Inv, NEW t \in Title, ResetTimer(t) PROVE Inv'
<1> DEFINE row == [cand[t] EXCEPT !.cancelled = FALSE, !.until = 0, !.timer = now]
<1>0. now \in Nat
  BY RuleAssumption DEF Inv, Typed, Day
<1>1. row \in CandRow /\ cand[t].exists
  BY <1>0 DEF Inv, Typed, CandRow, ResetTimer, Hold
<1>2. /\ row.exists /\ row.rules = cand[t].rules /\ now = row.timer
      /\ 0 <= row.until
  BY <1>0, <1>1 DEF Inv, Typed, CandRow
<1>3. Hold(t, row, now, 0)
  BY DEF ResetTimer
<1> QED BY <1>0, <1>1, <1>2, <1>3, HoldKeeps

\* Dropping a candidate keeps what is said of rows.
LEMMA DropKeeps ==
  ASSUME Inv, NEW t \in Title, Drop(t), file \ {t} \subseteq file'
  PROVE  /\ cand' \in [Title -> CandRow]
         /\ since' \in [Title -> Nat] /\ barUntil' \in [Title -> Nat]
         /\ RowsInv' /\ CarriesHolds'
<1>1. /\ cand' \in [Title -> CandRow]
      /\ since' \in [Title -> Nat] /\ barUntil' \in [Title -> Nat]
  BY EmptyRows DEF Inv, Typed, Drop
<1>2. RowsInv'
  BY DEF Inv, Typed, RowsInv, Drop, NoCandidate
<1>3. CarriesHolds'
  BY DEF Inv, Typed, CarriesHolds, Drop, NoCandidate
<1> QED BY <1>1, <1>2, <1>3

LEMMA GrantKeeps == ASSUME Inv, NEW t \in Title, Grant(t) PROVE Inv'
<1>1. /\ cand' \in [Title -> CandRow]
      /\ since' \in [Title -> Nat] /\ barUntil' \in [Title -> Nat]
      /\ RowsInv' /\ CarriesHolds'
  <2>1. CASE Drop(t)
    BY <2>1, DropKeeps DEF Grant
  <2>2. CASE UNCHANGED <<cand, history>>
    BY <2>2 DEF Inv, Typed, RowsInv, CarriesHolds, history, Grant
  <2> QED BY <2>1, <2>2 DEF Grant
<1>2. Typed'
  BY <1>1 DEF Inv, Typed, Grant
<1>3. TaskInv' /\ ChosenClear'
  BY DEF Inv, TaskInv, ChosenClear, Grant
<1> QED BY <1>1, <1>2, <1>3 DEF Inv

-----------------------------------------------------------------------------
(***************************************************************************)
(* The scan.                                                               *)
(***************************************************************************)
LEMMA StartScanKeeps == ASSUME Inv, StartScan PROVE Inv'
<1>1. /\ task' \in TaskRow /\ task'.at = "scanning"
      /\ task'.chosen = {} /\ task'.barred = {}
  BY EmptyRows DEF Inv, Typed, StartScan, Idle, TaskRow
<1>2. Typed'
  BY <1>1 DEF Inv, Typed, StartScan, libraryVars, history
<1>3. RowsInv' /\ CarriesHolds'
  BY DEF Inv, RowsInv, CarriesHolds, StartScan, history, libraryVars
<1>4. TaskInv' /\ ChosenClear'
  BY <1>1 DEF TaskInv, ChosenClear
<1> QED BY <1>2, <1>3, <1>4 DEF Inv

\* What the synchronisation writes for a title: nothing when no rule matches,
\* the old row with its holds, or a new row that starts its review today.
LEMMA SyncedRows ==
  ASSUME Inv, NEW t \in Title, NEW found \in SUBSET Rule
  PROVE  /\ Synced(t, found) \in CandRow
         /\ found = {} => Synced(t, found) = NoCandidate
         /\ found # {} /\ cand[t].exists =>
              /\ Synced(t, found).exists
              /\ Synced(t, found).rules # {}
              /\ Synced(t, found).timer = cand[t].timer
              /\ Synced(t, found).until = cand[t].until
              /\ Synced(t, found).cancelled = cand[t].cancelled
         /\ found # {} /\ ~cand[t].exists =>
              /\ Synced(t, found).exists
              /\ Synced(t, found).rules # {}
              /\ Synced(t, found).timer = now
<1>0. cand[t] \in CandRow /\ now \in Day
  BY DEF Inv, Typed
<1>1. CASE found = {}
  BY <1>1, EmptyRows DEF Synced
<1>2. CASE found # {} /\ cand[t].exists
  BY <1>0, <1>2 DEF Synced, CandRow
<1>3. CASE found # {} /\ ~cand[t].exists
  BY <1>0, <1>3 DEF Synced, CandRow, NoCandidate
<1> QED BY <1>1, <1>2, <1>3

\* The spike guard only ever sets the day a new row waits for.
LEMMA PostponedRows ==
  ASSUME Inv, NEW t \in Title, NEW row \in CandRow, NEW new \in SUBSET Title
  PROVE  /\ Postponed(t, row, new) \in CandRow
         /\ t \notin new => Postponed(t, row, new) = row
         /\ Postponed(t, row, new).exists = row.exists
         /\ Postponed(t, row, new).rules = row.rules
         /\ Postponed(t, row, new).timer = row.timer
         /\ Postponed(t, row, new).cancelled = row.cancelled
<1>1. now + SpikeDays \in Nat
  BY RuleAssumption DEF Inv, Typed, Day
<1> QED BY <1>1 DEF Postponed, CandRow

\* The reconciliation only ever writes the announcement, and none for a row
\* that is not there.
LEMMA ReconciledRows ==
  ASSUME NEW row \in CandRow
  PROVE  /\ Reconciled(row) \in CandRow
         /\ Reconciled(row).exists = row.exists
         /\ Reconciled(row).rules = row.rules
         /\ Reconciled(row).timer = row.timer
         /\ Reconciled(row).until = row.until
         /\ Reconciled(row).cancelled = row.cancelled
         /\ row = NoCandidate => Reconciled(row) = NoCandidate
<1>1. /\ Reconciled(row) \in CandRow
      /\ Reconciled(row).exists = row.exists
      /\ Reconciled(row).rules = row.rules
      /\ Reconciled(row).timer = row.timer
      /\ Reconciled(row).until = row.until
      /\ Reconciled(row).cancelled = row.cancelled
  BY DEF Reconciled, CandRow
<1>2. ASSUME row = NoCandidate PROVE Reconciled(row) = NoCandidate
  <2>1. OptedIn(row, task.rules) = {} /\ ~Announces(row)
    BY <1>2 DEF OptedIn, Announces, NoCandidate
  <2> QED BY <1>2, <2>1 DEF Reconciled, NoCandidate
<1> QED BY <1>1, <1>2

LEMMA CommitScanKeeps ==
  ASSUME Inv, NEW outage \in BOOLEAN, CommitScan(outage) PROVE Inv'
<1> DEFINE found == [t \in Title |-> Matched(t, outage)]
           new   == {t \in Title : ~cand[t].exists /\ found[t] # {}}
           row   == [t \in Title |-> Postponed(t, Synced(t, found[t]), new)]
<1>1. /\ cand' = [t \in Title |-> Reconciled(row[t])]
      /\ since' = [t \in Title |-> CASE t \in new       -> now
                                     [] found[t] = {}  -> 0
                                     [] OTHER          -> since[t]]
      /\ barUntil' = [t \in Title |-> CASE t \in new      -> row[t].until
                                        [] found[t] = {} -> 0
                                        [] OTHER         -> barUntil[t]]
      /\ task' = Idle
      /\ UNCHANGED <<rule, libraryVars, now>>
  BY DEF CommitScan
<1>2. events' \in Nat
  BY DEF Inv, Typed, CommitScan, Outage, Event
<1>3. /\ found \in [Title -> SUBSET Rule]
      /\ new \subseteq Title
      /\ \A t \in Title : t \in new => found[t] # {} /\ ~cand[t].exists
      /\ \A t \in Title : t \notin new => found[t] = {} \/ cand[t].exists
  BY DEF Inv, Typed, Matched
<1> HIDE DEF found, new
<1>4. ASSUME NEW t \in Title
      PROVE  /\ cand'[t] \in CandRow /\ row[t].until \in Nat
             /\ IF found[t] = {} THEN cand'[t] = NoCandidate
                ELSE cand'[t].exists /\ cand'[t].rules # {}
             /\ t \in new => cand'[t].timer = now /\ cand'[t].until = row[t].until
             /\ t \notin new /\ found[t] # {} =>
                  /\ cand'[t].timer = cand[t].timer
                  /\ cand'[t].until = cand[t].until
                  /\ cand'[t].cancelled = cand[t].cancelled
  <2> DEFINE synced == Synced(t, found[t])
  <2>1. /\ synced \in CandRow
        /\ found[t] = {} => synced = NoCandidate
        /\ found[t] # {} => synced.exists /\ synced.rules # {}
        /\ t \in new => synced.timer = now
        /\ t \notin new /\ found[t] # {} =>
             /\ synced.timer = cand[t].timer
             /\ synced.until = cand[t].until
             /\ synced.cancelled = cand[t].cancelled
    BY <1>3, SyncedRows
  <2> HIDE DEF synced
  <2>2. /\ row[t] \in CandRow
        /\ t \notin new => row[t] = synced
        /\ row[t].exists = synced.exists /\ row[t].rules = synced.rules
        /\ row[t].timer = synced.timer
    <3>1. row[t] = Postponed(t, synced, new)
      BY DEF synced
    <3> HIDE DEF row
    <3> QED BY <1>3, <2>1, <3>1, PostponedRows
  <2>3. cand'[t] = Reconciled(row[t])
    BY <1>1
  <2> HIDE DEF row
  <2>4. /\ cand'[t] \in CandRow
        /\ cand'[t].exists = row[t].exists /\ cand'[t].rules = row[t].rules
        /\ cand'[t].timer = row[t].timer /\ cand'[t].until = row[t].until
        /\ cand'[t].cancelled = row[t].cancelled
        /\ row[t] = NoCandidate => cand'[t] = NoCandidate
    BY <2>2, <2>3, ReconciledRows
  <2>5. row[t].until \in Nat
    BY <2>2 DEF CandRow
  <2>6. found[t] = {} => t \notin new
    BY <1>3
  <2> QED BY <2>1, <2>2, <2>4, <2>5, <2>6
<1> HIDE DEF row
<1>5. Typed'
  <2>1. cand' \in [Title -> CandRow]
    BY <1>1, <1>4
  <2>2. since' \in [Title -> Nat]
    <3>1. now \in Nat /\ since \in [Title -> Nat]
      BY RuleAssumption DEF Inv, Typed, Day
    <3> QED BY <1>1, <3>1
  <2>3. barUntil' \in [Title -> Nat]
    BY <1>1, <1>4 DEF Inv, Typed
  <2> QED BY <1>1, <1>2, <2>1, <2>2, <2>3, EmptyRows
       DEF Inv, Typed, libraryVars
<1>6. RowsInv'
  <2>1. \A t \in Title : found[t] # {} => t \in file'
    BY <1>1 DEF found, Matched, libraryVars
  <2> QED BY <1>4, <2>1 DEF RowsInv, NoCandidate
<1>7. TaskInv' /\ ChosenClear'
  BY <1>1 DEF TaskInv, ChosenClear, Idle
<1>8. CarriesHolds'
  <2> SUFFICES ASSUME NEW t \in Title, cand'[t].exists
               PROVE  /\ since'[t] = cand'[t].timer
                      /\ cand'[t].cancelled \/ barUntil'[t] <= cand'[t].until
    BY DEF CarriesHolds
  <2>1. found[t] # {}
    BY <1>4 DEF NoCandidate
  <2>2. CASE t \in new
    <3>1. since'[t] = now /\ barUntil'[t] = row[t].until
      BY <1>1, <1>3, <2>2
    <3>2. /\ cand'[t].timer = now /\ cand'[t].until = row[t].until
          /\ row[t].until \in Nat
      BY <1>4, <2>2
    <3> QED BY <3>1, <3>2
  <2>3. CASE t \notin new
    <3>1. since'[t] = since[t] /\ barUntil'[t] = barUntil[t]
      BY <1>1, <2>1, <2>3
    <3>2. cand[t].exists
      BY <1>3, <2>1, <2>3
    <3> QED BY <1>4, <2>1, <2>3, <3>1, <3>2 DEF Inv, CarriesHolds
  <2> QED BY <2>2, <2>3
<1> QED BY <1>5, <1>6, <1>7, <1>8 DEF Inv

-----------------------------------------------------------------------------
(***************************************************************************)
(* The deletion task.                                                      *)
(***************************************************************************)
\* A due candidate is under no hold: each deadline its row carries is one of
\* those that were asked for.
LEMMA DueIsFree ==
  ASSUME Inv, NEW t \in Title, cand[t].exists, ~Blocked(t),
         Eligible(cand[t], Applicable(t))
  PROVE  t \notin Kept
<1>1. /\ since[t] = cand[t].timer /\ barUntil[t] <= cand[t].until
      /\ ~cand[t].cancelled
  BY DEF Inv, CarriesHolds, Eligible
<1>2. /\ now \in Nat /\ barUntil[t] \in Nat
      /\ cand[t].until \in Nat /\ cand[t].timer \in Nat
  BY RuleAssumption DEF Inv, Typed, CandRow, Day
<1>3. ~(now < barUntil[t])
  <2>1. cand[t].until \in Deadlines(cand[t], Applicable(t))
    BY DEF Deadlines
  <2>2. cand[t].until <= now
    BY <2>1 DEF Eligible
  <2> QED BY <1>1, <1>2, <2>2
<1>4. ASSUME NEW r \in Applicable(t) PROVE ~(now < since[t] + Delay[r])
  <2>1. cand[t].timer + Delay[r] \in Deadlines(cand[t], Applicable(t))
    BY DEF Deadlines
  <2>2. cand[t].timer + Delay[r] <= now
    BY <2>1 DEF Eligible
  <2>3. Delay[r] \in Nat
    BY RuleAssumption DEF Inv, Typed, CandRow, Applicable, OptedIn
  <2> QED BY <1>1, <1>2, <2>2, <2>3
<1> QED BY <1>3, <1>4 DEF Kept, Blocked

LEMMA SelectKeeps == ASSUME Inv, Select PROVE Inv'
<1> DEFINE ready == {t \in Title : /\ cand[t].exists
                                   /\ ~Blocked(t)
                                   /\ Eligible(cand[t], Applicable(t))}
<1>1. /\ task.at = "idle"
      /\ ready # {}
      /\ task' = [Idle EXCEPT !.at = "selected", !.chosen = ready,
                              !.barred = Kept]
      /\ UNCHANGED <<rule, cand, libraryVars, now, history, events>>
  BY DEF Select
<1>2. ready \subseteq file /\ Kept \subseteq Title /\ ready \cap Kept = {}
  BY DueIsFree DEF Inv, RowsInv, Kept
<1> HIDE DEF ready
<1>3. /\ task' \in TaskRow /\ task'.at = "selected"
      /\ task'.chosen = ready /\ task'.barred = Kept
  BY <1>1, <1>2, EmptyRows DEF TaskRow, Idle, Inv, Typed
<1>4. Typed'
  BY <1>1, <1>3 DEF Inv, Typed, libraryVars, history
<1>5. RowsInv' /\ CarriesHolds'
  BY <1>1 DEF Inv, RowsInv, CarriesHolds, history, libraryVars
<1>6. ChosenClear'
  BY <1>2, <1>3 DEF ChosenClear
<1>7. TaskInv'
  BY <1>1, <1>2, <1>3 DEF TaskInv, libraryVars
<1> QED BY <1>4, <1>5, <1>6, <1>7 DEF Inv

\* Going on with fewer titles keeps what is said of the task.
LEMMA GoOnKeeps ==
  ASSUME Inv, NEW chosen \in SUBSET Title, NEW barred \in SUBSET Title,
         task.at \in {"selected", "deleting"}, GoOn(chosen, barred),
         chosen \subseteq file', chosen \cap barred = {}
  PROVE  task' \in TaskRow /\ TaskInv' /\ ChosenClear'
<1>1. CASE chosen = {}
  BY <1>1, EmptyRows DEF GoOn, TaskInv, ChosenClear, Idle
<1>2. CASE chosen # {}
  <2>1. /\ task' \in TaskRow /\ task'.at = "deleting"
        /\ task'.chosen = chosen /\ task'.barred = barred
    BY <1>2 DEF Inv, Typed, GoOn, TaskRow
  <2> QED BY <1>2, <2>1 DEF TaskInv, ChosenClear
<1> QED BY <1>1, <1>2

LEMMA RevalidateKeeps ==
  ASSUME Inv, NEW outage \in BOOLEAN, Revalidate(outage) PROVE Inv'
<1> DEFINE left   == {t \in task.chosen : Retained(t, outage)}
           barred == task.barred \cup Unmatched
<1>0. task.chosen \in SUBSET Title /\ task.barred \in SUBSET Title
  BY DEF Inv, Typed, TaskRow
<1>1. /\ GoOn(left, barred) /\ task.at = "selected"
      /\ UNCHANGED <<rule, cand, libraryVars, now, history>>
  BY DEF Revalidate
<1>2. left \cap Unmatched = {}
  BY DEF Retained, Affected, StillMatches, Unmatched
<1>3. /\ left \in SUBSET Title /\ barred \in SUBSET Title
      /\ left \subseteq file' /\ left \cap barred = {}
  BY <1>0, <1>1, <1>2 DEF Inv, TaskInv, ChosenClear, Unmatched, libraryVars
<1> HIDE DEF left, barred
<1>4. task' \in TaskRow /\ TaskInv' /\ ChosenClear'
  BY <1>1, <1>3, GoOnKeeps
<1>5. events' \in Nat
  BY DEF Inv, Typed, Revalidate, Outage, Event
<1>6. Typed'
  BY <1>1, <1>4, <1>5 DEF Inv, Typed, libraryVars, history
<1>7. RowsInv' /\ CarriesHolds'
  BY <1>1 DEF Inv, RowsInv, CarriesHolds, libraryVars, history
<1> QED BY <1>4, <1>6, <1>7 DEF Inv

LEMMA DeleteKeeps == ASSUME Inv, NEW t \in Title, Delete(t) PROVE Inv'
<1>0. task.chosen \in SUBSET Title /\ task.barred \in SUBSET Title
  BY DEF Inv, Typed, TaskRow
<1>1. task' \in TaskRow /\ TaskInv' /\ ChosenClear'
  <2>1. /\ task.chosen \ {t} \subseteq file'
        /\ (task.chosen \ {t}) \cap task.barred = {}
    BY DEF Inv, TaskInv, ChosenClear, Delete
  <2> QED BY <1>0, <2>1, GoOnKeeps DEF Delete
<1>2. /\ cand' \in [Title -> CandRow]
      /\ since' \in [Title -> Nat] /\ barUntil' \in [Title -> Nat]
      /\ RowsInv' /\ CarriesHolds'
  BY DropKeeps DEF Delete
<1>3. Typed'
  BY <1>1, <1>2 DEF Inv, Typed, Delete
<1> QED BY <1>1, <1>2, <1>3 DEF Inv

\* Steps that only take a title from the run.
LEMMA SparingKeeps ==
  ASSUME Inv, NEW t \in Title, PassOver(t) \/ Spare(t) PROVE Inv'
<1>0. task.chosen \in SUBSET Title /\ task.barred \in SUBSET Title
  BY DEF Inv, Typed, TaskRow
<1>1. /\ GoOn(task.chosen \ {t}, task.barred) /\ task.at = "deleting"
      /\ UNCHANGED <<rule, cand, libraryVars, now, history>>
      /\ events' \in Nat
  BY DEF Inv, Typed, PassOver, Spare, Event
<1>2. task' \in TaskRow /\ TaskInv' /\ ChosenClear'
  <2>1. /\ task.chosen \ {t} \subseteq file'
        /\ (task.chosen \ {t}) \cap task.barred = {}
    BY <1>1 DEF Inv, TaskInv, ChosenClear, libraryVars
  <2> QED BY <1>0, <1>1, <2>1, GoOnKeeps
<1>3. Typed'
  BY <1>1, <1>2 DEF Inv, Typed, libraryVars, history
<1>4. RowsInv' /\ CarriesHolds'
  BY <1>1 DEF Inv, RowsInv, CarriesHolds, libraryVars, history
<1> QED BY <1>2, <1>3, <1>4 DEF Inv

LEMMA KilledKeeps == ASSUME Inv, Killed PROVE Inv'
<1>1. Typed'
  BY EmptyRows DEF Inv, Typed, Killed, Event, libraryVars, history
<1>2. RowsInv' /\ CarriesHolds'
  BY DEF Inv, RowsInv, CarriesHolds, Killed, libraryVars, history
<1>3. TaskInv' /\ ChosenClear'
  BY DEF TaskInv, ChosenClear, Killed, Idle
<1> QED BY <1>1, <1>2, <1>3 DEF Inv

-----------------------------------------------------------------------------
(***************************************************************************)
(* The theorems.                                                           *)
(***************************************************************************)
LEMMA NextKeeps == Inv /\ [Next]_vars => Inv'
<1> SUFFICES ASSUME Inv, [Next]_vars PROVE Inv'
  OBVIOUS
<1>1. CASE UNCHANGED vars
  BY <1>1 DEF vars, libraryVars, history, Inv, Typed, RowsInv, TaskInv,
              CarriesHolds, ChosenClear
<1>2. ASSUME NEW r \in Rule, EditRule(r) PROVE Inv'
  BY <1>2, EditRuleKeeps
<1>3. ASSUME NEW t \in Title, LibraryChanges(t) \/ Spare(t) PROVE Inv'
  BY <1>3, LibraryChangesKeeps, SparingKeeps
<1>4. CASE Tick
  BY <1>4, TickKeeps
<1>5. CASE Users
  BY <1>5, CancelKeeps, PostponeKeeps, ResetTimerKeeps, GuardsKeep, GrantKeeps
     DEF Users
<1>6. CASE StartScan
  BY <1>6, StartScanKeeps
<1>7. ASSUME NEW outage \in BOOLEAN, CommitScan(outage) PROVE Inv'
  BY <1>7, CommitScanKeeps
<1>8. CASE Select
  BY <1>8, SelectKeeps
<1>9. CASE DeletionStep
  BY <1>9, RevalidateKeeps, DeleteKeeps, SparingKeeps DEF DeletionStep
<1>10. CASE Killed
  BY <1>10, KilledKeeps
<1> QED BY <1>1, <1>2, <1>3, <1>4, <1>5, <1>6, <1>7, <1>8, <1>9, <1>10 DEF Next

\* Every candidate row, hold and task stays where TypeOK says: a row that is
\* there has a file and a rule, and a run at work has somebody to work on.
THEOREM TypeCorrect == Spec => []TypeOK
<1>1. Inv => TypeOK
  BY DEF Inv, Typed, RowsInv, TaskInv, TypeOK, RuleRow, CandRow, TaskRow
<1> QED BY <1>1, InitInv, NextKeeps, PTL DEF Spec

\* No automatic deletion takes a file from under a cancellation, a
\* postponement, a review period, a protection or a pending request that stood
\* when the run chose its candidates, nor on a rule no longer met when it
\* checked.
THEOREM HoldsHonoured == Spec => HoldsAreHonoured
<1>1. Inv /\ [Next]_vars => [(file \ file') \cap task.barred = {}]_vars
  <2> SUFFICES ASSUME Inv, Next PROVE (file \ file') \cap task.barred = {}
    OBVIOUS
  <2>1. ASSUME NEW t \in Title, Delete(t)
        PROVE  (file \ file') \cap task.barred = {}
    BY <2>1 DEF Delete, Inv, ChosenClear
  <2>2. CASE ~\E t \in Title : Delete(t)
    <3>1. file \subseteq file'
      BY <2>2 DEF Next, Users, DeletionStep, EditRule, LibraryChanges, Spare,
         Tick, Cancel, Postpone, ResetTimer, Hold, Protect, Unprotect, Ask,
         Answer, Grant, StartScan, CommitScan, Select, Revalidate, PassOver,
         Killed, libraryVars
    <3> QED BY <3>1
  <2> QED BY <2>1, <2>2
<1> QED BY <1>1, InitInv, NextKeeps, PTL DEF Spec, HoldsAreHonoured

-----------------------------------------------------------------------------
(***************************************************************************)
(* One scheduled event per spell.                                          *)
(***************************************************************************)
\* Whoever was told of a candidate finds it marked as announced.
AnnouncedOnce ==
  /\ told \in [Title -> {0, 1}]
  /\ \A t \in Title : told[t] = 1 => cand[t].announced

\* A scan tells of a row it finds unannounced, and marks it; a row it writes
\* anew or over an old one is announced only if the old one was.
LEMMA ScanTellsOnce ==
  ASSUME Inv, AnnouncedOnce, NEW outage \in BOOLEAN, CommitScan(outage)
  PROVE  AnnouncedOnce'
<1> DEFINE found == [t \in Title |-> Matched(t, outage)]
           new   == {t \in Title : ~cand[t].exists /\ found[t] # {}}
           row   == [t \in Title |-> Postponed(t, Synced(t, found[t]), new)]
<1>1. /\ cand' = [t \in Title |-> Reconciled(row[t])]
      /\ told' = [t \in Title |->
                    IF OptedIn(row[t], task.rules) = {} THEN 0
                    ELSE IF Announces(row[t]) THEN told[t] + 1 ELSE told[t]]
  BY DEF CommitScan
<1>2. ASSUME NEW t \in Title
      PROVE  /\ row[t] \in CandRow
             /\ OptedIn(row[t], task.rules) = {} \/ row[t].announced = cand[t].announced
  <2>1. found[t] \in SUBSET Rule /\ cand[t] \in CandRow /\ now \in Day /\ new \in SUBSET Title
    BY DEF Inv, Typed, Matched
  <2> HIDE DEF found, new
  <2> DEFINE synced == Synced(t, found[t])
  <2>2. synced \in CandRow
    BY <2>1, SyncedRows
  <2>3. found[t] = {} \/ synced.announced = cand[t].announced
    BY <2>1 DEF Synced, CandRow, NoCandidate, Inv, RowsInv
  <2>4. found[t] = {} => synced = NoCandidate
    BY DEF Synced
  <2>5. row[t] = Postponed(t, synced, new)
    OBVIOUS
  <2> HIDE DEF synced, row
  <2>6. row[t] \in CandRow /\ row[t].rules = synced.rules
    BY <2>1, <2>2, <2>5, PostponedRows
  <2>7. row[t].announced = synced.announced
    BY <2>2, <2>5 DEF Postponed, CandRow
  <2>8. found[t] = {} => OptedIn(row[t], task.rules) = {}
    BY <2>4, <2>6 DEF OptedIn, NoCandidate
  <2> QED BY <2>3, <2>6, <2>7, <2>8
<1> HIDE DEF row
<1> SUFFICES ASSUME NEW t \in Title
             PROVE  told'[t] \in {0, 1} /\ (told'[t] = 1 => cand'[t].announced)
  BY <1>1 DEF AnnouncedOnce
<1>3. /\ told[t] \in {0, 1} /\ (told[t] = 1 => cand[t].announced)
      /\ cand'[t] = Reconciled(row[t])
      /\ told'[t] = IF OptedIn(row[t], task.rules) = {} THEN 0
                    ELSE IF Announces(row[t]) THEN told[t] + 1 ELSE told[t]
  BY <1>1 DEF AnnouncedOnce
<1>4. CASE OptedIn(row[t], task.rules) = {}
  BY <1>3, <1>4
<1>5. CASE OptedIn(row[t], task.rules) # {} /\ Announces(row[t])
  <2>1. cand'[t].announced = TRUE
    BY <1>2, <1>3, <1>5 DEF Reconciled, CandRow
  <2>2. ~row[t].announced
    BY <1>5 DEF Announces
  <2> QED BY <1>2, <1>3, <1>5, <2>1, <2>2
<1>6. CASE OptedIn(row[t], task.rules) # {} /\ ~Announces(row[t])
  <2>1. cand'[t] = row[t]
    BY <1>3, <1>6 DEF Reconciled
  <2> QED BY <1>2, <1>3, <1>6, <2>1
<1> QED BY <1>4, <1>5, <1>6

\* A hold rewrites a row with the announcement it has.
LEMMA HoldTellsNobody ==
  ASSUME Inv, AnnouncedOnce, NEW t \in Title,
         Cancel(t) \/ (\E until \in Day : Postpone(t, until)) \/ ResetTimer(t)
  PROVE  AnnouncedOnce'
<1>1. cand[t] \in CandRow
  BY DEF Inv, Typed
<1>2. told' = told /\ \E row : row.announced = cand[t].announced
                        /\ cand' = [cand EXCEPT ![t] = row]
  BY <1>1 DEF Cancel, Postpone, ResetTimer, Hold, CandRow
<1> QED BY <1>2 DEF Inv, Typed, AnnouncedOnce

LEMMA NextTellsOnce == Inv /\ AnnouncedOnce /\ [Next]_vars => AnnouncedOnce'
<1> SUFFICES ASSUME Inv, AnnouncedOnce, [Next]_vars PROVE AnnouncedOnce'
  OBVIOUS
<1>1. ASSUME UNCHANGED <<cand, told>> PROVE AnnouncedOnce'
  BY <1>1 DEF AnnouncedOnce
<1>2. ASSUME NEW t \in Title, Drop(t) PROVE AnnouncedOnce'
  BY <1>2 DEF Drop, AnnouncedOnce, Inv, Typed
<1>3. ASSUME NEW t \in Title, Delete(t) \/ Grant(t) PROVE AnnouncedOnce'
  BY <1>1, <1>2, <1>3 DEF Delete, Grant, history
<1>4. CASE Users
  <2>1. PICK t \in Title :
          \/ Cancel(t) \/ (\E until \in Day : Postpone(t, until)) \/ ResetTimer(t)
          \/ Protect(t) \/ Unprotect(t) \/ Ask(t) \/ Answer(t) \/ Grant(t)
    BY <1>4 DEF Users
  <2> QED BY <2>1, <1>1, <1>3, HoldTellsNobody
       DEF Protect, Unprotect, Ask, Answer, history
<1>5. ASSUME NEW outage \in BOOLEAN, CommitScan(outage) PROVE AnnouncedOnce'
  BY <1>5, ScanTellsOnce
<1>6. CASE DeletionStep
  BY <1>1, <1>3, <1>6 DEF DeletionStep, Revalidate, PassOver, history
<1>7. CASE \/ \E r \in Rule : EditRule(r)
           \/ \E t \in Title : LibraryChanges(t) \/ Spare(t)
           \/ Tick \/ StartScan \/ Select \/ Killed \/ UNCHANGED vars
  BY <1>1, <1>7 DEF EditRule, LibraryChanges, Spare, Tick, StartScan, Select, Killed,
     history, vars
<1> QED BY <1>4, <1>5, <1>6, <1>7 DEF Next

\* One scheduled event per spell of automatic deletion: the announcement in the
\* row goes with every hold and every scan that rewrites it, and is taken back
\* only with the spell.
THEOREM ToldAtMostOnce == Spec => []ToldOnce
<1>1. Init => AnnouncedOnce
  BY DEF Init, AnnouncedOnce
<1>2. AnnouncedOnce => ToldOnce
  BY DEF AnnouncedOnce, ToldOnce
<1> QED BY <1>1, <1>2, InitInv, NextKeeps, NextTellsOnce, PTL DEF Spec

=============================================================================
