------------------------------ MODULE RuleScan ------------------------------
(***************************************************************************)
(* One scan of the enabled rules over whole series (tasks/cleanup.py): the *)
(* scan loads its rules, asks Seerr, the Sonarr instances and the playback *)
(* sources in turn, each of which may fail to answer, and then reconciles  *)
(* the protections and the candidates of the rules in one transaction.     *)
(* Admins switch rules and protect series while it runs.                   *)
(*                                                                         *)
(* Sonarr is asked in two steps: the list of its series gives the status   *)
(* and the next air date; the episodes of the latest season are fetched    *)
(* for those series only for which some rule cannot be decided yet.        *)
(***************************************************************************)
EXTENDS RuleVerdicts, Naturals

CONSTANTS
  Series,
  Instance,         \* the Sonarr instances
  RefsOf,           \* RefsOf[s]: the instances that hold series s (SeriesArrRef)
  Rule,
  Outcome,          \* Outcome[r]: what the rule is for
  Root,             \* Root[r]: its definition
  Status,           \* what Sonarr may say of the state of a series
  Shows,            \* what an instance may hold of a series, of the records Show
  Sources,          \* what the services may answer at first
  MaxEvents,        \* bound on what happens around the scans
  MaxScans          \* bound on the scans that are carried through

YesNo == {"yes", "no"}
EpisodeFields == {"unaired", "finale"}
SonarrFields == EpisodeFields \cup {"status"}
Fields == SonarrFields \cup {"played", "requested"}
Values == YesNo \cup Status \cup {Unavailable}

\* What an instance may hold of a series: whether its list names an air date to
\* come, and what the episodes of the latest season say.
Show == {w \in [airs : YesNo, unaired : YesNo, finale : YesNo, status : Status] :
           w.airs = "yes" => w.unaired = "yes"}

Source == [shows : [Series -> [Instance -> Shows]],
           played : [Series -> YesNo], requested : [Series -> YesNo]]

ASSUME ScanAssumption ==
  /\ RefsOf \in [Series -> SUBSET Instance]
  /\ Outcome \in [Rule -> {"candidate", "protect", "match"}]
  /\ Root \in [Rule -> Definition(Fields, Values)]
  /\ Status \cap YesNo = {}
  /\ Unavailable \notin YesNo \cup Status
  /\ Shows \subseteq Show /\ Sources \subseteq Source
  /\ MaxEvents \in Nat /\ MaxScans \in Nat

VARIABLES
  source,       \* what the services would answer
  enabled,      \* ReclaimRule.enabled
  managed,      \* protections of rules: <<rule, series>>
  manual,       \* series an admin protects
  candidates,   \* matched_rule_ids of the candidate of a series, {} without one
  run,          \* the scan under way
  events,
  scans

vars == <<source, enabled, managed, manual, candidates, run, events, scans>>

Unheard == [season |-> FALSE, unaired |-> Unavailable, finale |-> Unavailable,
            status |-> Unavailable]

Idle == [at |-> "idle", loaded |-> {}, rules |-> {}, asked |-> FALSE,
         states |-> [s \in Series |-> [i \in Instance |-> Unheard]],
         needed |-> {}, readable |-> {}, preserved |-> {}, spared |-> {}]

-----------------------------------------------------------------------------
(* What a scan knows of a series.                                          *)

\* One instance that proves it is enough; to deny it takes all of them.
Aggregated(states, refs, field) ==
  IF \E i \in refs : states[i][field] = "yes" THEN "yes"
  ELSE IF refs # {} /\ \A i \in refs : states[i][field] = "no" THEN "no"
  ELSE Unavailable

\* A seeded fault: an instance that did not say is left out.
StatusOfThoseHeard(states, refs) ==
  LET heard == {i \in refs : states[i].status # Unavailable} IN
  IF \E i \in heard : \A j \in heard : states[j].status = states[i].status
  THEN states[CHOOSE i \in heard : TRUE].status ELSE Unavailable

AggregatedStatus(states, refs) ==
  IF \E i \in refs : \A j \in refs : states[j].status = states[i].status
  THEN states[CHOOSE i \in refs : TRUE].status ELSE Unavailable

\* The context a rule is evaluated in, from what each instance was heard to
\* say of the series and whether it was played and requested.
Context(states, refs, played, requested) ==
  [unaired |-> Aggregated(states, refs, "unaired"),
   finale |-> Aggregated(states, refs, "finale"),
   status |-> AggregatedStatus(states, refs),
   played |-> played,
   requested |-> requested]

Seen(s) ==
  Context(run.states[s], RefsOf[s],
          IF s \in run.readable THEN source.played[s] ELSE Unavailable,
          IF run.asked THEN source.requested[s] ELSE Unavailable)

\* What a scan would see that every source answered in full.
Truth(s) ==
  Context(source.shows[s], RefsOf[s], source.played[s], source.requested[s])

Uses(r, fields) == UsesAny(Root[r], fields)
EpisodeRules(rules) == {r \in rules : Uses(r, EpisodeFields)}
StatusRules(rules) == {r \in rules : Uses(r, {"status"})}
Protecting(rules) == {r \in rules : Outcome[r] = "protect"}

-----------------------------------------------------------------------------
(* The scan.                                                               *)

\* _scan_with_db_impl: the enabled rules are loaded once.  Without any the
\* scan clears what rules have made and ends.
StartScan ==
  LET rules == {r \in enabled : Outcome[r] # "match"} IN
  /\ run.at = "idle" /\ scans < MaxScans
  /\ IF rules = {}
     THEN /\ managed' = {}
          /\ candidates' = [s \in Series |-> {}]
          /\ scans' = scans + 1
          /\ UNCHANGED run
     ELSE /\ run' = [Idle EXCEPT !.at = "seerr", !.loaded = rules, !.rules = rules]
          /\ UNCHANGED <<managed, candidates, scans>>
  /\ UNCHANGED <<source, enabled, manual, events>>

\* Without the answer of Seerr the rules that need it sit this scan out, and
\* their protections stay.
AskSeerr ==
  LET needing == {r \in run.rules : Uses(r, {"requested"})} IN
  /\ run.at = "seerr"
  /\ \E answered \in BOOLEAN :
       run' = [run EXCEPT !.at = "list",
                          !.asked = answered /\ needing # {},
                          !.rules = IF answered THEN @ ELSE @ \ needing,
                          !.preserved = IF answered THEN {} ELSE Protecting(needing)]
  /\ UNCHANGED <<source, enabled, managed, manual, candidates, events, scans>>

\* What an item of the list of an instance says: nothing when the list did not
\* arrive or lacks the series, and either part may be missing.
Listed(show, part) ==
  [season |-> part \in {"season", "both"},
   unaired |-> IF part \in {"season", "both"} /\ show.airs = "yes"
               THEN "yes" ELSE Unavailable,
   finale |-> Unavailable,
   status |-> IF part \in {"status", "both"} THEN show.status ELSE Unavailable]

\* First half of _activate_sonarr_rule_data_for_rules.  The playback data of
\* this scan is not loaded yet: a rule that reads it is undecided here unless
\* the rest of it decides.
ListShows ==
  /\ run.at = "list"
  /\ IF StatusRules(run.rules) \cup EpisodeRules(run.rules) = {}
     THEN run' = [run EXCEPT !.at = "playback"]
     ELSE \E part \in [Series -> [Instance -> {"none", "status", "season", "both"}]] :
            /\ \A s \in Series : \A i \in Instance \ RefsOf[s] : part[s][i] = "none"
            /\ run' = [run EXCEPT !.at = "undecided",
                         !.states = [s \in Series |-> [i \in Instance |->
                            Listed(source.shows[s][i], part[s][i])]]]
  /\ UNCHANGED <<source, enabled, managed, manual, candidates, events, scans>>

PickUndecided ==
  /\ run.at = "undecided"
  /\ run' = [run EXCEPT !.at = "episodes",
               !.needed = {s \in Series : \E r \in EpisodeRules(run.rules) :
                             RuleState(Root[r], Seen(s)) = "unknown"}]
  /\ UNCHANGED <<source, enabled, managed, manual, candidates, events, scans>>

\* load_latest_season for the series picked, any of which may fail.
LoadEpisodes ==
  /\ run.at = "episodes"
  /\ \E got \in SUBSET {si \in run.needed \X Instance :
                          si[2] \in RefsOf[si[1]] /\ run.states[si[1]][si[2]].season} :
       run' = [run EXCEPT !.at = "spare",
                 !.states = [s \in Series |-> [i \in Instance |->
                    IF <<s, i>> \in got
                    THEN [run.states[s][i] EXCEPT
                            !.unaired = source.shows[s][i].unaired,
                            !.finale = source.shows[s][i].finale]
                    ELSE run.states[s][i]]]]
  /\ UNCHANGED <<source, enabled, managed, manual, candidates, events, scans>>

\* The protections that Sonarr's silence must not lift.
SpareUndecided ==
  /\ run.at = "spare"
  /\ run' = [run EXCEPT !.at = "playback",
               !.spared = {rs \in Protecting(run.rules) \X Series :
                  \/ /\ rs[1] \in EpisodeRules(run.rules)
                     /\ RuleState(Root[rs[1]], Seen(rs[2])) = "unknown"
                  \/ /\ rs[1] \in StatusRules(run.rules)
                     /\ Seen(rs[2]).status = Unavailable}]
  /\ UNCHANGED <<source, enabled, managed, manual, candidates, events, scans>>

\* _activate_playback_history_for_rules.  A source that failed blocks the rules
\* that read playback; titles no source observes leave them in with those
\* titles unknown.  Their protections stay either way.
AskPlayback ==
  LET needing == {r \in run.rules : Uses(r, {"played"})} IN
  /\ run.at = "playback"
  /\ IF needing = {} THEN run' = [run EXCEPT !.at = "reconcile"]
     ELSE \E readable \in SUBSET Series, blocking \in BOOLEAN :
            run' = [run EXCEPT !.at = "reconcile",
                      !.readable = readable,
                      !.rules = IF blocking THEN @ \ needing ELSE @,
                      !.preserved = IF blocking \/ readable # Series
                                    THEN @ \cup Protecting(needing) ELSE @]
  /\ UNCHANGED <<source, enabled, managed, manual, candidates, events, scans>>

\* _reconcile_rule_managed_protections, then _collect_series_candidate_records
\* and _sync_series_candidates, which skip what is protected by now.
Reconcile ==
  LET matching(r, s) == RuleMatches(Root[r], Seen(s))
      desired == {rs \in Protecting(run.rules) \X Series : matching(rs[1], rs[2])}
      kept == {rs \in managed : rs[1] \in run.preserved \/ rs \in run.spared}
      exempt == manual \cup {rs[2] : rs \in desired \cup kept}
  IN
  /\ run.at = "reconcile"
  /\ managed' = desired \cup kept
  /\ candidates' =
       [s \in Series |->
          {r \in run.rules : Outcome[r] = "candidate" /\ s \notin exempt /\ matching(r, s)}]
  /\ scans' = scans + 1
  /\ run' = Idle
  /\ UNCHANGED <<source, enabled, manual, events>>

\* Any step may raise: the transaction is rolled back.
ScanFails ==
  /\ run.at # "idle"
  /\ run' = Idle
  /\ UNCHANGED <<source, enabled, managed, manual, candidates, events, scans>>

-----------------------------------------------------------------------------
(* Around the scan.  The services' data changes between scans only.        *)

Event == events < MaxEvents /\ events' = events + 1

ShowChanges(s, i) ==
  /\ Event /\ run.at = "idle" /\ i \in RefsOf[s]
  /\ \E w \in Shows : source' = [source EXCEPT !.shows[s][i] = w]
  /\ UNCHANGED <<enabled, managed, manual, candidates, run, scans>>

UserActs(s) ==
  /\ Event /\ run.at = "idle"
  /\ \E v \in YesNo : \/ source' = [source EXCEPT !.played[s] = v]
                      \/ source' = [source EXCEPT !.requested[s] = v]
  /\ UNCHANGED <<enabled, managed, manual, candidates, run, scans>>

\* update_rule: the protections and candidates of the rule wait for a scan.
SwitchRule(r) ==
  /\ Event
  /\ enabled' = IF r \in enabled THEN enabled \ {r} ELSE enabled \cup {r}
  /\ UNCHANGED <<source, managed, manual, candidates, run, scans>>

\* A candidate stays in the list until a scan finds the protection.
Protect(s) ==
  /\ Event
  /\ s \notin manual
  /\ manual' = manual \cup {s}
  /\ UNCHANGED <<source, enabled, managed, candidates, run, scans>>

Unprotect(s) ==
  /\ Event
  /\ s \in manual
  /\ manual' = manual \ {s}
  /\ UNCHANGED <<source, enabled, managed, candidates, run, scans>>

Init ==
  /\ source \in Sources
  /\ enabled = Rule
  /\ managed = {} /\ manual = {}
  /\ candidates = [s \in Series |-> {}]
  /\ run = Idle
  /\ events = 0 /\ scans = 0

Next ==
  \/ StartScan \/ AskSeerr \/ ListShows \/ PickUndecided \/ LoadEpisodes
  \/ SpareUndecided \/ AskPlayback \/ Reconcile \/ ScanFails
  \/ \E s \in Series : UserActs(s) \/ Protect(s) \/ Unprotect(s)
                       \/ \E i \in Instance : ShowChanges(s, i)
  \/ \E r \in Rule : SwitchRule(r)

Spec == Init /\ [][Next]_vars

-----------------------------------------------------------------------------
(* Properties.                                                             *)

ShowField == [unaired : YesNo \cup {Unavailable}, finale : YesNo \cup {Unavailable},
              status : Status \cup {Unavailable}, season : BOOLEAN]

TypeOK ==
  /\ source \in Source
  /\ enabled \subseteq Rule
  /\ managed \subseteq Rule \X Series
  /\ manual \subseteq Series
  /\ candidates \in [Series -> SUBSET Rule]
  /\ run \in [at : {"idle", "seerr", "list", "undecided", "episodes", "spare",
                   "playback", "reconcile"},
              loaded : SUBSET Rule, rules : SUBSET Rule, asked : BOOLEAN,
              states : [Series -> [Instance -> ShowField]],
              needed : SUBSET Series, readable : SUBSET Series,
              preserved : SUBSET Rule, spared : SUBSET (Rule \X Series)]
  /\ events \in 0..MaxEvents
  /\ scans \in 0..MaxScans

(* A candidate of a scan matches its rules on what the sources hold, not   *)
(* only on the part the scan got to hear, and no protection covers it, be  *)
(* it one the scan has just made or one it kept without being able to      *)
(* check it: an outage never puts a title on the list.                     *)
OnlyProvenTitlesAreFlagged ==
  [][scans' # scans =>
       \A s \in Series : \A r \in candidates'[s] :
         /\ RuleState(Root[r], Truth(s)) = "pass"
         /\ s \notin manual /\ ~\E p \in Rule : <<p, s>> \in managed']_vars

HeardInFull(s) ==
  \A i \in RefsOf[s] : /\ run.states[s][i].season
                       /\ run.states[s][i].status # Unavailable
                       /\ s \in run.needed => run.states[s][i].finale # Unavailable

\* Decided before the playback data is loaded, such a rule is taken for one
\* that Sonarr leaves open.
Mixed(r) == Uses(r, EpisodeFields) /\ Uses(r, {"played"})

(* What a rule protects stays protected as long as the rule is on and its  *)
(* condition holds, whatever fails in a scan; and it is released by the    *)
(* first scan that heard enough to know the condition fails, or that found *)
(* the rule switched off.                                                  *)
ProtectionsFollowTheirRules ==
  [][scans' # scans =>
       \A r \in Rule, s \in Series :
         /\ /\ <<r, s>> \in managed /\ r \in Protecting(run.loaded)
            /\ RuleState(Root[r], Truth(s)) = "pass"
            => <<r, s>> \in managed'
         /\ <<r, s>> \in managed' =>
              /\ r \in run.loaded
              /\ \/ RuleState(Root[r], Truth(s)) # "fail"
                 \/ r \in run.preserved \/ Mixed(r)
                 \/ Uses(r, SonarrFields)
                    /\ ~(HeardInFull(s) /\ Seen(s).status # Unavailable)]_vars
=============================================================================
