----------------------------- MODULE AutoDelete -----------------------------
(***************************************************************************)
(* Automatic deletion: the scan that turns matching titles into            *)
(* candidates and the task that deletes the candidates whose review period *)
(* is over (tasks/cleanup.py), the policy both follow                      *)
(* (core/auto_delete.py), the scheduled event                              *)
(* (services/candidate_lifecycle.py) and the routes that hold a candidate  *)
(* back (api/routes/v1/candidates.py).                                     *)
(*                                                                         *)
(* Both tasks run in a child process, one at a time (JobPolicy!Resources). *)
(* The routes run in the server under a lock the child has its own copy    *)
(* of, so they come between any two steps of a task.  The scan reads the   *)
(* rules when it starts and writes everything in one transaction at its    *)
(* end; the deletion task reads in two transactions and then deletes by    *)
(* candidate id.  A title is a movie version or a whole series with a      *)
(* protection of its own; deleting one is the choice of its outcome, whose *)
(* crash between file and row is DeleteRequests' subject.                  *)
(***************************************************************************)
EXTENDS Integers, FiniteSets

CONSTANTS
  Title,
  Rule,
  WatchRule,    \* the rules that depend on who watched the title
  Delay,        \* auto_delete_delay_days of each rule,
  GlobalDelay,  \* and the days when no rule says
  SpikeMin,     \* CANDIDATE_SPIKE_MIN_NEW
  SpikeDays,    \* CANDIDATE_SPIKE_POSTPONE_DAYS
  MaxTime,      \* bounds on the days that pass and on the events: edits of
  MaxEvents     \* rules, changes of the library, requests, outages, kills
                \* and failed deletions

ASSUME RuleAssumption ==
  /\ WatchRule \subseteq Rule
  /\ Delay \in [Rule -> Nat]
  /\ GlobalDelay \in Nat /\ SpikeDays \in Nat /\ MaxTime \in Nat
  /\ SpikeMin \in Nat \ {0}

VARIABLES
  rule,       \* reclaim_rules: enabled, action.auto_delete_enabled
  matches,    \* the rules whose conditions a title meets just now
  cand,       \* reclaim_candidates by title
  file,       \* titles in the library
  protected,  \* titles with an active protection
  asked,      \* titles with a pending protection or deletion request
  now,        \* the day
  task,       \* the scan or deletion being run; barred is a history of
              \* the titles it must leave alone
  since,      \* history: when the review of a candidate last began,
  barUntil,   \* history: the day before which users or the scan kept it,
  told,       \* history: scheduled events of its present spell
  events      \* those that happened

history == <<since, barUntil, told>>
libraryVars == <<file, protected, asked, matches>>
vars == <<rule, cand, libraryVars, now, task, history, events>>

Day == 0..MaxTime
Never == MaxTime + 1   \* of barUntil: not until the candidate is let go again
NoCandidate ==
  [exists |-> FALSE, rules |-> {}, timer |-> 0, until |-> 0,
   cancelled |-> FALSE, announced |-> FALSE]
Idle == [at |-> "idle", rules |-> [r \in Rule |-> [on |-> FALSE, auto |-> FALSE]],
         existing |-> {}, chosen |-> {}, barred |-> {}]

TypeOK ==
  /\ rule \in [Rule -> [on: BOOLEAN, auto: BOOLEAN]]
  /\ matches \in [Title -> SUBSET Rule]
  /\ cand \in [Title -> [exists: BOOLEAN, rules: SUBSET Rule, timer: Day,
                         until: Nat, cancelled: BOOLEAN, announced: BOOLEAN]]
  /\ \A t \in Title : IF cand[t].exists THEN t \in file /\ cand[t].rules # {}
                                        ELSE cand[t] = NoCandidate
  /\ file \subseteq Title /\ protected \subseteq Title /\ asked \subseteq Title
  /\ now \in Day
  /\ task.at \in {"idle", "scanning", "selected", "deleting"}
  /\ task.at = "idle" => task = Idle
  /\ task.chosen \subseteq file
  /\ task.at \in {"selected", "deleting"} <=> task.chosen # {}

Init ==
  /\ rule = [r \in Rule |-> [on |-> TRUE, auto |-> TRUE]]
  /\ matches \in [Title -> {{}, Rule}]
  /\ cand = [t \in Title |-> NoCandidate]
  /\ file = Title
  /\ protected = {}
  /\ asked = {}
  /\ now = 0
  /\ task = Idle
  /\ since = [t \in Title |-> 0]
  /\ barUntil = [t \in Title |-> 0]
  /\ told = [t \in Title |-> 0]
  /\ events = 0

Event ==
  /\ events < MaxEvents
  /\ events' = events + 1

Outage(happens) ==
  IF happens THEN Event ELSE events' = events

-----------------------------------------------------------------------------
(***************************************************************************)
(* The policy.                                                             *)
(***************************************************************************)
\* The candidate's rules that opt in to automatic deletion.
OptedIn(row, rules) == {r \in row.rules : rules[r].auto}

\* The candidate is eligible at the latest of these days.
Deadlines(row, opted) ==
  {row.until} \cup
  {row.timer + d : d \in IF opted = {} THEN {GlobalDelay}
                                       ELSE {Delay[r] : r \in opted}}

Eligible(row, opted) ==
  /\ opted # {}
  /\ ~row.cancelled
  /\ \A day \in Deadlines(row, opted) : day <= now

\* The deletion task counts only enabled rules.
Applicable(t) == {r \in OptedIn(cand[t], rule) : rule[r].on}

-----------------------------------------------------------------------------
(***************************************************************************)
(* The world: administrators, viewers, the media servers and the clock.    *)
(***************************************************************************)
EditRule(r) ==
  /\ Event
  /\ \E row \in [on: BOOLEAN, auto: BOOLEAN] \ {rule[r]} :
       rule' = [rule EXCEPT ![r] = row]
  /\ UNCHANGED <<cand, libraryVars, now, task, history>>

\* Somebody watches a title, its metadata change, or it is imported again.
LibraryChanges(t) ==
  /\ Event
  /\ \E S \in SUBSET Rule :
       /\ t \in file => S # matches[t]
       /\ matches' = [matches EXCEPT ![t] = S]
  /\ file' = file \cup {t}
  /\ UNCHANGED <<rule, cand, protected, asked, now, task, history>>

Tick ==
  /\ now < MaxTime
  /\ now' = now + 1
  /\ UNCHANGED <<rule, cand, libraryVars, task, history, events>>

-----------------------------------------------------------------------------
(***************************************************************************)
(* The routes.  Each answers in one transaction.                           *)
(***************************************************************************)
Hold(t, row, from, until) ==
  /\ cand[t].exists
  /\ Event
  /\ cand' = [cand EXCEPT ![t] = row]
  /\ since' = [since EXCEPT ![t] = from]
  /\ barUntil' = [barUntil EXCEPT ![t] = until]
  /\ UNCHANGED <<rule, libraryVars, now, task, told>>

Cancel(t) ==
  Hold(t, [cand[t] EXCEPT !.cancelled = TRUE], since[t], Never)

\* A postponement also takes a cancellation back.
Postpone(t, until) ==
  /\ until > now
  /\ \A day \in Deadlines(cand[t], OptedIn(cand[t], rule)) : day < until
  /\ Hold(t, [cand[t] EXCEPT !.cancelled = FALSE, !.until = until],
          since[t], until)

ResetTimer(t) ==
  Hold(t, [cand[t] EXCEPT !.cancelled = FALSE, !.until = 0, !.timer = now],
       now, 0)

\* Protecting a candidate, or any title, leaves its candidate row alone.
Protect(t) ==
  /\ t \in file \ protected
  /\ Event
  /\ protected' = protected \cup {t}
  /\ UNCHANGED <<rule, cand, file, asked, matches, now, task, history>>

Unprotect(t) ==
  /\ t \in protected
  /\ protected' = protected \ {t}
  /\ UNCHANGED <<rule, cand, file, asked, matches, now, task, history, events>>

\* A request is filed, and answered without a protection.
Ask(t) ==
  /\ t \in file \ asked
  /\ Event
  /\ asked' = asked \cup {t}
  /\ UNCHANGED <<rule, cand, file, protected, matches, now, task, history>>

Answer(t) ==
  /\ t \in asked
  /\ asked' = asked \ {t}
  /\ UNCHANGED <<rule, cand, file, protected, matches, now, task, history, events>>


\* History and row of a title that is no longer a candidate.
Drop(t) ==
  /\ cand' = [cand EXCEPT ![t] = NoCandidate]
  /\ since' = [since EXCEPT ![t] = 0]
  /\ barUntil' = [barUntil EXCEPT ![t] = 0]
  /\ told' = [told EXCEPT ![t] = 0]

\* Or it is granted: the title is protected and the candidate the request was
\* filed for, if that is still the title's, dropped.
Grant(t) ==
  /\ t \in asked
  /\ asked' = asked \ {t}
  /\ protected' = protected \cup {t}
  /\ Drop(t) \/ UNCHANGED <<cand, history>>
  /\ UNCHANGED <<rule, file, matches, now, task, events>>

-----------------------------------------------------------------------------
(***************************************************************************)
(* The scan.                                                               *)
(***************************************************************************)
StartScan ==
  /\ task.at = "idle"
  /\ task' = [Idle EXCEPT !.at = "scanning", !.rules = rule,
                          !.existing = {t \in Title : cand[t].exists}]
  /\ UNCHANGED <<rule, cand, libraryVars, now, history, events>>

\* The rules that make t a candidate; without provider data the rules that
\* need it take no part.
Matched(t, outage) ==
  {r \in matches[t] : /\ task.rules[r].on
                      /\ t \in file \ protected
                      /\ outage => r \notin WatchRule}

\* Seeded fault: a matched candidate is written anew with its old timer.
SyncedAnew(t, found) ==
  IF found = {} THEN NoCandidate
  ELSE [NoCandidate EXCEPT !.exists = TRUE, !.rules = found,
          !.timer = IF cand[t].exists THEN cand[t].timer ELSE now]

\* An existing row keeps its timer, its postponement and its cancellation.
Synced(t, found) ==
  IF found = {} THEN NoCandidate
  ELSE IF cand[t].exists THEN [cand[t] EXCEPT !.rules = found]
  ELSE [NoCandidate EXCEPT !.exists = TRUE, !.rules = found, !.timer = now]

Spike(new) ==
  Cardinality(new) >= SpikeMin /\ Cardinality(new) > Cardinality(task.existing)

Postponed(t, row, new) ==
  IF t \in new /\ Spike(new) THEN [row EXCEPT !.until = now + SpikeDays] ELSE row

\* reconcile_candidate_schedule_events, with the rules the scan read.
Announces(row) == ~row.announced /\ ~row.cancelled /\ OptedIn(row, task.rules) # {}
\* Seeded fault: a cancellation ends the announcement as an opt-out does.
ReconciledByState(row) ==
  CASE Announces(row)                           -> [row EXCEPT !.announced = TRUE]
    [] row.cancelled \/ OptedIn(row, task.rules) = {}
                                                -> [row EXCEPT !.announced = FALSE]
    [] OTHER                                    -> row
Reconciled(row) ==
  CASE Announces(row)                   -> [row EXCEPT !.announced = TRUE]
    [] OptedIn(row, task.rules) = {}    -> [row EXCEPT !.announced = FALSE]
    [] OTHER                            -> row

CommitScan(outage) ==
  LET found == [t \in Title |-> Matched(t, outage)]
      new   == {t \in Title : ~cand[t].exists /\ found[t] # {}}
      row   == [t \in Title |-> Postponed(t, Synced(t, found[t]), new)]
  IN
  /\ task.at = "scanning"
  /\ Outage(outage)
  /\ cand' = [t \in Title |-> Reconciled(row[t])]
  /\ since' = [t \in Title |-> CASE t \in new       -> now
                                [] found[t] = {}  -> 0
                                [] OTHER          -> since[t]]
  /\ barUntil' = [t \in Title |-> CASE t \in new      -> row[t].until
                                   [] found[t] = {} -> 0
                                   [] OTHER         -> barUntil[t]]
  /\ told' = [t \in Title |->
                IF OptedIn(row[t], task.rules) = {} THEN 0
                ELSE IF Announces(row[t]) THEN told[t] + 1 ELSE told[t]]
  /\ task' = Idle
  /\ UNCHANGED <<rule, libraryVars, now>>

-----------------------------------------------------------------------------
(***************************************************************************)
(* The deletion task.                                                      *)
(***************************************************************************)
Blocked(t) == t \in protected \cup asked

\* What nobody may lose to this run, in terms of what was asked for.
Kept ==
  {t \in Title :
     \/ now < barUntil[t]
     \/ \E r \in Applicable(t) : now < since[t] + Delay[r]
     \/ t \in protected \cup asked}

Select ==
  LET ready == {t \in Title : /\ cand[t].exists
                              /\ ~Blocked(t)
                              /\ Eligible(cand[t], Applicable(t))}
  IN
  /\ task.at = "idle"
  /\ ready # {}
  /\ task' = [Idle EXCEPT !.at = "selected", !.chosen = ready, !.barred = Kept]
  /\ UNCHANGED <<rule, cand, libraryVars, now, history, events>>

\* A candidate without a watch-sensitive rule in force passes unchecked.
Affected(t) == Applicable(t) \cap WatchRule # {}

\* The preview evaluates the rules afresh and leaves protected titles out.
StillMatches(t) == t \notin protected /\ matches[t] \cap Applicable(t) # {}

\* Seeded fault: every rule must still match, not any one of them.
RetainedByAll(t, outage) ==
  /\ cand[t].exists
  /\ Affected(t) => /\ ~outage /\ t \notin protected
                    /\ Applicable(t) \subseteq matches[t]

Retained(t, outage) ==
  /\ cand[t].exists
  /\ Affected(t) => ~outage /\ StillMatches(t)

GoOn(chosen, barred) ==
  task' = IF chosen = {} THEN Idle
          ELSE [task EXCEPT !.at = "deleting", !.chosen = chosen, !.barred = barred]

Unmatched ==
  {t \in Title : /\ Applicable(t) \cap WatchRule # {}
                 /\ \A r \in Applicable(t) : r \notin matches[t]}

Revalidate(outage) ==
  /\ task.at = "selected"
  /\ outage => \E t \in task.chosen : Affected(t)
  /\ Outage(outage)
  /\ GoOn({t \in task.chosen : Retained(t, outage)}, task.barred \cup Unmatched)
  /\ UNCHANGED <<rule, cand, libraryVars, now, history>>

\* Candidates are read again by id, and nothing but the playback guard is
\* asked about them.
Delete(t) ==
  /\ task.at = "deleting"
  /\ t \in task.chosen
  /\ cand[t].exists
  /\ file' = file \ {t}
  /\ Drop(t)
  /\ GoOn(task.chosen \ {t}, task.barred)
  /\ UNCHANGED <<rule, protected, asked, matches, now, events>>

\* A chosen candidate that is gone is passed over.
PassOver(t) ==
  /\ task.at = "deleting"
  /\ t \in task.chosen
  /\ ~cand[t].exists
  /\ GoOn(task.chosen \ {t}, task.barred)
  /\ UNCHANGED <<rule, cand, libraryVars, now, history, events>>

\* The guard defers the title, or its deletion fails.
Spare(t) ==
  /\ task.at = "deleting"
  /\ t \in task.chosen
  /\ Event
  /\ GoOn(task.chosen \ {t}, task.barred)
  /\ UNCHANGED <<rule, cand, libraryVars, now, history>>

\* The child is killed: a scan is rolled back, a deletion stays half done.
Killed ==
  /\ task.at # "idle"
  /\ Event
  /\ task' = Idle
  /\ UNCHANGED <<rule, cand, libraryVars, now, history>>

-----------------------------------------------------------------------------
Users == \E t \in Title :
  \/ Cancel(t)
  \/ \E until \in Day : Postpone(t, until)
  \/ ResetTimer(t)
  \/ Protect(t)
  \/ Unprotect(t)
  \/ Ask(t)
  \/ Answer(t)
  \/ Grant(t)

DeletionStep ==
  \/ \E outage \in BOOLEAN : Revalidate(outage)
  \/ \E t \in Title : Delete(t) \/ PassOver(t)

Next ==
  \/ \E r \in Rule : EditRule(r)
  \/ \E t \in Title : LibraryChanges(t) \/ Spare(t)
  \/ Tick
  \/ Users
  \/ StartScan
  \/ \E outage \in BOOLEAN : CommitScan(outage)
  \/ Select
  \/ DeletionStep
  \/ Killed

Spec == Init /\ [][Next]_vars

\* A running task goes on; the queue, which runs commands in the order of
\* their turn (JobQueue!EveryJobEnds), does not leave the deletion task out
\* for ever, though scans may run in between.
Fairness ==
  /\ WF_vars(\E outage \in BOOLEAN : CommitScan(outage))
  /\ WF_vars(DeletionStep)
  /\ SF_vars(Select)

FairSpec == Spec /\ Fairness

-----------------------------------------------------------------------------
(***************************************************************************)
(* Properties.                                                             *)
(***************************************************************************)
\* No file goes automatically that, when the run chose its candidates, was
\* cancelled or postponed by a user or the spike guard in its present spell,
\* still in the review period of any opted-in rule, protected, or the subject
\* of a pending request; nor one whose watch-sensitive rule had in force had
\* no longer a matching rule when the run checked.  Scans between the hold and
\* the run rewrite the same candidate.
HoldsAreHonoured == [][(file \ file') \cap task.barred = {}]_vars

\* One scheduled event per continuous transition into automatic deletion, over
\* scans, edits of the rules, cancellations and resets.
ToldOnce == \A t \in Title : told[t] <= 1

\* A candidate that is due, free of holds and still matches is not left due
\* for ever: outages, kills and failures only delay it.
Due(t) ==
  /\ cand[t].exists
  /\ ~Blocked(t)
  /\ Eligible(cand[t], Applicable(t))
  /\ matches[t] \cap Applicable(t) # {}

DueIsDeleted == \A t \in Title : Due(t) ~> ~Due(t)
=============================================================================
