--------------------------- MODULE RuleScan_proofs ---------------------------
(***************************************************************************)
(* For any rules, series and instances, and whatever part of the services' *)
(* answers is missing: what a scan knows never contradicts what the        *)
(* services hold, so a verdict it reaches is the verdict of full answers,  *)
(* and a verdict it cannot reach is one the protections outlive.           *)
(***************************************************************************)
EXTENDS RuleScan, TLAPS

\* k leaves values of t out, and gets none wrong.
PartOf(k, t) == \A f \in Fields : k[f] = Unavailable \/ k[f] = t[f]

\* Nothing an instance was heard to say is made up; the episodes of a season
\* tell both of their fields at once.
Sound ==
  \A s \in Series, i \in Instance :
    /\ \A f \in SonarrFields : \/ run.states[s][i][f] = Unavailable
                               \/ run.states[s][i][f] = source.shows[s][i][f]
    /\ run.states[s][i].finale # Unavailable => run.states[s][i].unaired # Unavailable

\* A rule the scan has dropped keeps its protections.
Carried ==
  /\ run.at = "idle" => run = Idle
  /\ run.at # "idle" => scans < MaxScans
  /\ run.rules \subseteq run.loaded /\ run.preserved \subseteq run.loaded
  /\ run.spared \subseteq run.loaded \X Series
  /\ Protecting(run.loaded) \subseteq run.rules \cup run.preserved

\* What each stage of the scan has settled for the next.
Staged ==
  /\ run.at = "seerr" => run.preserved = {}
  /\ run.at \notin {"idle", "seerr"} =>
       \A r \in run.rules : Uses(r, {"requested"}) => run.asked
  /\ run.at # "reconcile" => run.readable = {}
  /\ run.at = "reconcile" =>
       \A r \in Protecting(run.rules) :
         Uses(r, {"played"}) => run.readable = Series \/ r \in run.preserved
  /\ run.at \notin {"playback", "reconcile"} => run.spared = {}

\* Series whose episodes are not fetched need none.
Picked ==
  run.at \in {"episodes", "spare"} =>
    \A s \in Series \ run.needed : \A r \in EpisodeRules(run.rules) :
      RuleState(Root[r], Seen(s)) # "unknown"

\* A protection Sonarr leaves open is spared ...
Spared ==
  run.at \in {"playback", "reconcile"} =>
    \A r \in Protecting(run.rules), s \in Series :
      /\ r \in EpisodeRules(run.rules) /\ RuleState(Root[r], Seen(s)) = "unknown"
         => <<r, s>> \in run.spared
      /\ r \in StatusRules(run.rules) /\ Seen(s).status = Unavailable
         => <<r, s>> \in run.spared

\* ... and no other, but for rules that mix in playback.
LeftOpen(r, s) ==
  Uses(r, SonarrFields) /\ ~(HeardInFull(s) /\ Seen(s).status # Unavailable)

SparedWithReason ==
  \A r \in Rule, s \in Series :
    <<r, s>> \in run.spared => Mixed(r) \/ LeftOpen(r, s)

Inv == TypeOK /\ Sound /\ Carried /\ Staged /\ Picked /\ Spared /\ SparedWithReason

-----------------------------------------------------------------------------
(***************************************************************************)
(* The two evaluators.                                                     *)
(***************************************************************************)
Verdicts == {"pass", "fail", "unknown"}

\* Verdicts that only get decided decide the same.
LEMMA JoinedGrows ==
  ASSUME NEW op \in {"and", "or"}, NEW N, NEW F \in [N -> Verdicts],
         NEW G \in [N -> Verdicts],
         \A n \in N : F[n] # "unknown" => G[n] = F[n],
         Joined(op, {F[n] : n \in N}) # "unknown"
  PROVE  Joined(op, {G[n] : n \in N}) = Joined(op, {F[n] : n \in N})
<1>1. {F[n] : n \in N} = {} <=> {G[n] : n \in N} = {}
  OBVIOUS
<1>2. "fail" \in {F[n] : n \in N} => "fail" \in {G[n] : n \in N}
  OBVIOUS
<1>3. "pass" \in {F[n] : n \in N} => "pass" \in {G[n] : n \in N}
  OBVIOUS
<1>4. "unknown" \notin {F[n] : n \in N} => {F[n] : n \in N} = {G[n] : n \in N}
  <2> SUFFICES ASSUME "unknown" \notin {F[n] : n \in N}
      PROVE {F[n] : n \in N} = {G[n] : n \in N}
      OBVIOUS
  <2>1. \A n \in N : F[n] # "unknown"
    OBVIOUS
  <2> QED
    BY <2>1
<1> QED
  BY <1>1, <1>2, <1>3, <1>4 DEF Joined, Verdicts

\* Joining decides a verdict, and knows nothing only where a node does not.
LEMMA JoinedType ==
  ASSUME NEW op \in {"and", "or"}, NEW S \in SUBSET Verdicts
  PROVE  /\ Joined(op, S) \in Verdicts
         /\ Joined(op, S) = "unknown" => "unknown" \in S
         /\ Joined(op, S) = "pass" <=>
              \/ S = {}
              \/ op = "and" /\ S \subseteq {"pass"}
              \/ op = "or" /\ "pass" \in S
BY DEF Joined, Verdicts

LEMMA GroupVerdict ==
  ASSUME NEW g \in Group(Fields, Values), NEW k
  PROVE  /\ GroupState(g, k) \in Verdicts
         /\ GroupState(g, k) = "unknown" =>
              \E c \in Active(g) : k[c.field] = Unavailable
         /\ GroupMatches(g, k) <=> GroupState(g, k) = "pass"
<1> DEFINE S == {ConditionState(c, k) : c \in Active(g)}
<1>1. g.op \in {"and", "or"} /\ Active(g) \subseteq Condition(Fields, Values)
  BY DEF Group, Active
<1>2. S \in SUBSET Verdicts
  BY DEF ConditionState, Verdicts
<1>3. "unknown" \in S => \E c \in Active(g) : k[c.field] = Unavailable
  BY DEF ConditionState
<1>4. \A c \in Active(g) : ConditionMatches(c, k) <=> ConditionState(c, k) = "pass"
  BY <1>1 DEF Condition, ConditionMatches, ConditionState
<1>5. S \subseteq {"pass"} <=> \A c \in Active(g) : ConditionMatches(c, k)
  BY <1>4
<1>6. "pass" \in S <=> \E c \in Active(g) : ConditionMatches(c, k)
  BY <1>4
<1>7. S = {} <=> Active(g) = {}
  OBVIOUS
<1>8. GroupState(g, k) = Joined(g.op, S)
  BY DEF GroupState
<1> HIDE DEF S
<1>9. /\ GroupState(g, k) \in Verdicts
      /\ GroupState(g, k) = "unknown" => "unknown" \in S
      /\ GroupState(g, k) = "pass" <=>
           \/ S = {}
           \/ g.op = "and" /\ S \subseteq {"pass"}
           \/ g.op = "or" /\ "pass" \in S
  BY <1>1, <1>2, <1>8, JoinedType
<1> QED
  BY <1>3, <1>5, <1>6, <1>7, <1>9 DEF GroupMatches

LEMMA GroupDecided ==
  ASSUME NEW g \in Group(Fields, Values), NEW k, NEW t, PartOf(k, t),
         GroupState(g, k) # "unknown"
  PROVE  GroupState(g, t) = GroupState(g, k)
<1> DEFINE N == Active(g)
           F == [c \in N |-> ConditionState(c, k)]
           G == [c \in N |-> ConditionState(c, t)]
<1>1. g.op \in {"and", "or"} /\ N \subseteq Condition(Fields, Values)
  BY DEF Group, Active
<1>2. F \in [N -> Verdicts] /\ G \in [N -> Verdicts]
  BY DEF ConditionState, Verdicts
<1>3. \A c \in N : F[c] # "unknown" => G[c] = F[c]
  BY <1>1 DEF Condition, ConditionState, PartOf
<1>4. GroupState(g, k) = Joined(g.op, {F[c] : c \in N})
  BY DEF GroupState
<1>5. GroupState(g, t) = Joined(g.op, {G[c] : c \in N})
  BY DEF GroupState
<1> HIDE DEF N, F, G
<1> QED
  BY <1>1, <1>2, <1>3, <1>4, <1>5, JoinedGrows

\* The rule as a whole: it matches where it is known to pass, and is open only
\* where a value it reads is missing.
LEMMA RuleVerdict ==
  ASSUME NEW root \in Definition(Fields, Values), NEW k
  PROVE  /\ RuleState(root, k) \in Verdicts
         /\ RuleState(root, k) = "unknown" =>
              \E f \in Fields : UsesAny(root, {f}) /\ k[f] = Unavailable
         /\ RuleMatches(root, k) <=> RuleState(root, k) = "pass"
<1> DEFINE S == {GroupState(g, k) : g \in Active(root)}
<1>1. root.op \in {"and", "or"} /\ Active(root) \subseteq Group(Fields, Values)
  BY DEF Definition, Active
<1>2. S \in SUBSET Verdicts
  BY <1>1, GroupVerdict
<1>3. "unknown" \in S =>
        \E g \in Active(root) : \E c \in Active(g) : k[c.field] = Unavailable
  BY <1>1, GroupVerdict
<1>4. S \subseteq {"pass"} <=> \A g \in Active(root) : GroupMatches(g, k)
  BY <1>1, GroupVerdict
<1>5. "pass" \in S <=> \E g \in Active(root) : GroupMatches(g, k)
  BY <1>1, GroupVerdict
<1>6. HasEnabledCondition(root) => S # {}
  BY DEF HasEnabledCondition
<1>7. \A g \in Active(root) : \A c \in Active(g) : c.field \in Fields
  BY <1>1 DEF Group, Condition, Active
<1>8. RuleState(root, k) = IF HasEnabledCondition(root) THEN Joined(root.op, S) ELSE "fail"
  BY DEF RuleState
<1> HIDE DEF S
<1>9. /\ Joined(root.op, S) \in Verdicts
      /\ Joined(root.op, S) = "unknown" => "unknown" \in S
      /\ Joined(root.op, S) = "pass" <=>
           \/ S = {}
           \/ root.op = "and" /\ S \subseteq {"pass"}
           \/ root.op = "or" /\ "pass" \in S
  BY <1>1, <1>2, JoinedType
<1>10. RuleState(root, k) \in Verdicts
  BY <1>8, <1>9 DEF Verdicts
<1>11. ASSUME RuleState(root, k) = "unknown"
       PROVE  \E f \in Fields : UsesAny(root, {f}) /\ k[f] = Unavailable
  <2>1. HasEnabledCondition(root) /\ "unknown" \in S
    BY <1>8, <1>9, <1>11
  <2>2. PICK g \in Active(root) : \E c \in Active(g) : k[c.field] = Unavailable
    BY <1>3, <2>1
  <2>3. PICK c \in Active(g) : k[c.field] = Unavailable
    BY <2>2
  <2> QED
    BY <1>7, <2>1, <2>3 DEF UsesAny, HasEnabledCondition
<1>12. RuleMatches(root, k) <=> RuleState(root, k) = "pass"
  BY <1>4, <1>5, <1>6, <1>8, <1>9, <1>1 DEF RuleMatches
<1> QED
  BY <1>10, <1>11, <1>12

\* What is decided on part of the values stands when the rest is known.
LEMMA RuleDecided ==
  ASSUME NEW root \in Definition(Fields, Values), NEW k, NEW t, PartOf(k, t),
         RuleState(root, k) # "unknown"
  PROVE  RuleState(root, t) = RuleState(root, k)
<1> DEFINE N == Active(root)
           F == [g \in N |-> GroupState(g, k)]
           G == [g \in N |-> GroupState(g, t)]
<1>1. root.op \in {"and", "or"} /\ N \subseteq Group(Fields, Values)
  BY DEF Definition, Active
<1>2. F \in [N -> Verdicts] /\ G \in [N -> Verdicts]
  BY <1>1, GroupVerdict
<1>3. \A g \in N : F[g] # "unknown" => G[g] = F[g]
  BY <1>1, GroupDecided
<1>4. RuleState(root, k) =
        IF HasEnabledCondition(root) THEN Joined(root.op, {F[g] : g \in N}) ELSE "fail"
  BY DEF RuleState
<1>5. RuleState(root, t) =
        IF HasEnabledCondition(root) THEN Joined(root.op, {G[g] : g \in N}) ELSE "fail"
  BY DEF RuleState
<1> HIDE DEF N, F, G
<1>6. CASE HasEnabledCondition(root)
  <2>1. Joined(root.op, {F[g] : g \in N}) # "unknown"
    BY <1>4, <1>6
  <2> QED
    BY <1>1, <1>2, <1>3, <1>4, <1>5, <1>6, <2>1, JoinedGrows
<1> QED
  BY <1>4, <1>5, <1>6

-----------------------------------------------------------------------------
(***************************************************************************)
(* What a scan knows.                                                      *)
(***************************************************************************)
\* Part of what the instances hold gives nothing, or the right answer.
LEMMA AggregatedPart ==
  ASSUME NEW refs, NEW a, NEW b, NEW f \in EpisodeFields,
         \A i \in refs : a[i][f] = Unavailable \/ a[i][f] = b[i][f]
  PROVE  \/ Aggregated(a, refs, f) = Unavailable
         \/ Aggregated(a, refs, f) = Aggregated(b, refs, f)
<1>1. Unavailable # "yes" /\ Unavailable # "no"
  BY ScanAssumption DEF YesNo
<1> QED
  BY <1>1 DEF Aggregated

LEMMA StatusPart ==
  ASSUME NEW refs, NEW a, NEW b,
         \A i \in refs : a[i].status = Unavailable \/ a[i].status = b[i].status
  PROVE  \/ AggregatedStatus(a, refs) = Unavailable
         \/ AggregatedStatus(a, refs) = AggregatedStatus(b, refs)
<1> SUFFICES ASSUME AggregatedStatus(a, refs) # Unavailable
    PROVE AggregatedStatus(a, refs) = AggregatedStatus(b, refs)
    OBVIOUS
<1> DEFINE i == CHOOSE x \in refs : TRUE
<1>1. PICK j \in refs : \A x \in refs : a[x].status = a[j].status
  BY DEF AggregatedStatus
<1>2. i \in refs
  BY <1>1
<1>3. AggregatedStatus(a, refs) = a[i].status
  BY <1>1 DEF AggregatedStatus
<1> HIDE DEF i
<1>4. \A x \in refs : a[x].status = a[i].status /\ b[x].status = a[i].status
  BY <1>1, <1>2, <1>3
<1>5. AggregatedStatus(b, refs) = b[i].status
  <2>1. \E x \in refs : \A y \in refs : b[y].status = b[x].status
    BY <1>2, <1>4
  <2> QED
    BY <2>1 DEF AggregatedStatus, i
<1> QED
  BY <1>2, <1>3, <1>4, <1>5

LEMMA FieldsOf == Fields = {"unaired", "finale", "status", "played", "requested"}
BY DEF Fields, SonarrFields, EpisodeFields

\* A context with part of the values of another.
LEMMA ContextPart ==
  ASSUME NEW refs \in SUBSET Instance, NEW a, NEW b, NEW p, NEW q, NEW u, NEW v,
         \A i \in Instance : \A f \in SonarrFields :
           a[i][f] = Unavailable \/ a[i][f] = b[i][f],
         p = Unavailable \/ p = q,
         u = Unavailable \/ u = v
  PROVE  PartOf(Context(a, refs, p, u), Context(b, refs, q, v))
<1>1. \A f \in EpisodeFields : \/ Aggregated(a, refs, f) = Unavailable
                               \/ Aggregated(a, refs, f) = Aggregated(b, refs, f)
  <2> TAKE f \in EpisodeFields
  <2>1. \A i \in refs : a[i][f] = Unavailable \/ a[i][f] = b[i][f]
    BY DEF SonarrFields
  <2> QED
    BY <2>1, AggregatedPart
<1>2. \/ AggregatedStatus(a, refs) = Unavailable
      \/ AggregatedStatus(a, refs) = AggregatedStatus(b, refs)
  <2>1. "status" \in SonarrFields
    BY DEF SonarrFields
  <2>2. \A i \in refs : a[i].status = Unavailable \/ a[i].status = b[i].status
    BY <2>1
  <2> QED
    BY <2>2, StatusPart
<1>3. "unaired" \in EpisodeFields /\ "finale" \in EpisodeFields
  BY DEF EpisodeFields
<1> QED
  BY <1>1, <1>2, <1>3, FieldsOf DEF PartOf, Context

\* What a scan has seen is part of the truth.
LEMMA SeenIsTrue ==
  ASSUME Sound, NEW s \in Series PROVE PartOf(Seen(s), Truth(s))
BY ScanAssumption, ContextPart DEF Sound, Seen, Truth

LEMMA RootType == \A r \in Rule : Root[r] \in Definition(Fields, Values)
BY ScanAssumption

\* A verdict of the scan is the verdict of full answers.
LEMMA VerdictIsTrue ==
  ASSUME Sound, NEW s \in Series, NEW r \in Rule,
         RuleState(Root[r], Seen(s)) # "unknown"
  PROVE  RuleState(Root[r], Truth(s)) = RuleState(Root[r], Seen(s))
BY RootType, RuleDecided, SeenIsTrue

\* A match of the scan is a match of full answers.
LEMMA MatchIsTrue ==
  ASSUME Sound, NEW s \in Series, NEW r \in Rule, RuleMatches(Root[r], Seen(s))
  PROVE  RuleState(Root[r], Truth(s)) = "pass"
<1>1. RuleState(Root[r], Seen(s)) = "pass"
  BY RootType, RuleVerdict
<1> QED
  BY <1>1, VerdictIsTrue

\* Nobody can tell without a value the rule reads.
LEMMA OpenWhereMissing ==
  ASSUME NEW s \in Series, NEW r \in Rule, RuleState(Root[r], Seen(s)) = "unknown"
  PROVE  \E f \in Fields : Uses(r, {f}) /\ Seen(s)[f] = Unavailable
BY RootType, RuleVerdict DEF Uses

LEMMA UsesMore ==
  ASSUME NEW r, NEW f, NEW fields, f \in fields, Uses(r, {f}) PROVE Uses(r, fields)
BY DEF Uses, UsesAny

-----------------------------------------------------------------------------
(***************************************************************************)
(* Between scans.                                                          *)
(***************************************************************************)
RunRow == [at : {"idle", "seerr", "list", "undecided", "episodes", "spare",
                 "playback", "reconcile"},
           loaded : SUBSET Rule, rules : SUBSET Rule, asked : BOOLEAN,
           states : [Series -> [Instance -> ShowField]],
           needed : SUBSET Series, readable : SUBSET Series,
           preserved : SUBSET Rule, spared : SUBSET (Rule \X Series)]

LEMMA UnheardType == Unheard \in ShowField
BY DEF Unheard, ShowField

LEMMA IdleType == Idle \in RunRow
BY UnheardType DEF Idle, RunRow

\* No scan under way has anything to keep.
LEMMA InitInv == Init => Inv
<1> SUFFICES ASSUME Init PROVE Inv
    OBVIOUS
<1>1. TypeOK
  BY IdleType, ScanAssumption DEF Init, TypeOK, RunRow
<1>2. Sound
  BY DEF Init, Sound, Idle, Unheard, SonarrFields, EpisodeFields
<1>3. Carried /\ Staged /\ Picked /\ Spared /\ SparedWithReason
  BY DEF Init, Idle, Carried, Staged, Picked, Spared, SparedWithReason, Protecting
<1> QED
  BY <1>1, <1>2, <1>3 DEF Inv

LEMMA IdleInv ==
  ASSUME TypeOK', run' = Idle PROVE Inv'
<1>1. Sound'
  BY DEF Sound, Idle, Unheard, SonarrFields, EpisodeFields
<1>2. Carried' /\ Staged' /\ Picked' /\ Spared' /\ SparedWithReason'
  BY DEF Idle, Carried, Staged, Picked, Spared, SparedWithReason, Protecting
<1> QED
  BY <1>1, <1>2 DEF Inv

\* What happens around a scan does not touch it.
LEMMA SameRunInv ==
  ASSUME Inv, TypeOK', UNCHANGED <<run, source, scans>> PROVE Inv'
<1>1. \A s : Seen(s)' = Seen(s) /\ HeardInFull(s)' = HeardInFull(s)
  BY DEF Seen, HeardInFull
<1>2. Sound' /\ Carried' /\ Staged'
  BY DEF Inv, Sound, Carried, Staged
<1>3. Picked' /\ Spared' /\ SparedWithReason'
  BY <1>1 DEF Inv, Picked, Spared, SparedWithReason, LeftOpen
<1> QED
  BY <1>2, <1>3 DEF Inv

LEMMA StutterInv ==
  ASSUME Inv, UNCHANGED vars PROVE Inv'
<1>1. TypeOK'
  BY DEF Inv, TypeOK, vars
<1> QED
  BY <1>1, SameRunInv DEF vars

LEMMA SwitchRuleInv ==
  ASSUME Inv, NEW r \in Rule, SwitchRule(r) PROVE Inv'
<1>1. TypeOK'
  BY ScanAssumption DEF Inv, TypeOK, SwitchRule, Event
<1> QED
  BY <1>1, SameRunInv DEF SwitchRule

LEMMA ProtectInv ==
  ASSUME Inv, NEW s \in Series, Protect(s) \/ Unprotect(s) PROVE Inv'
<1>1. TypeOK'
  BY ScanAssumption DEF Inv, TypeOK, Protect, Unprotect, Event
<1> QED
  BY <1>1, SameRunInv DEF Protect, Unprotect

LEMMA ShowChangesInv ==
  ASSUME Inv, NEW s \in Series, NEW i \in Instance, ShowChanges(s, i) PROVE Inv'
<1>1. PICK w \in Shows : source' = [source EXCEPT !.shows[s][i] = w]
  BY DEF ShowChanges
<1>2. source' \in Source
  <2>1. source \in Source /\ source.shows \in [Series -> [Instance -> Shows]]
    BY DEF Inv, TypeOK, Source
  <2>2. [source.shows[s] EXCEPT ![i] = w] \in [Instance -> Shows]
    BY <2>1
  <2>3. source' = [source EXCEPT !.shows =
                     [source.shows EXCEPT ![s] = [source.shows[s] EXCEPT ![i] = w]]]
    BY <1>1
  <2> QED
    BY <2>1, <2>2, <2>3 DEF Source
<1>3. TypeOK'
  BY <1>2, ScanAssumption DEF Inv, TypeOK, ShowChanges, Event
<1>4. run' = Idle
  BY DEF Inv, Carried, ShowChanges
<1> QED
  BY <1>3, <1>4, IdleInv

LEMMA UserActsInv ==
  ASSUME Inv, NEW s \in Series, UserActs(s) PROVE Inv'
<1>1. PICK v \in YesNo : \/ source' = [source EXCEPT !.played[s] = v]
                         \/ source' = [source EXCEPT !.requested[s] = v]
  BY DEF UserActs
<1>2. source' \in Source
  <2>1. source \in Source
    BY DEF Inv, TypeOK
  <2>2. [source.played EXCEPT ![s] = v] \in [Series -> YesNo]
    BY <2>1 DEF Source
  <2>3. [source.requested EXCEPT ![s] = v] \in [Series -> YesNo]
    BY <2>1 DEF Source
  <2>4. \/ source' = [source EXCEPT !.played = [source.played EXCEPT ![s] = v]]
        \/ source' = [source EXCEPT !.requested = [source.requested EXCEPT ![s] = v]]
    BY <1>1
  <2> QED
    BY <2>1, <2>2, <2>3, <2>4 DEF Source
<1>3. TypeOK'
  BY <1>2, ScanAssumption DEF Inv, TypeOK, UserActs, Event
<1>4. run' = Idle
  BY DEF Inv, Carried, UserActs
<1> QED
  BY <1>3, <1>4, IdleInv

-----------------------------------------------------------------------------
(***************************************************************************)
(* The scan.                                                               *)
(***************************************************************************)
LEMMA StartScanInv ==
  ASSUME Inv, StartScan PROVE Inv'
<1> DEFINE rules == {r \in enabled : Outcome[r] # "match"}
<1>1. rules \subseteq Rule
  BY DEF Inv, TypeOK
<1>2. run = Idle /\ scans < MaxScans
  BY DEF Inv, Carried, StartScan
<1>3. CASE rules = {}
  <2>1. TypeOK'
    BY <1>2, <1>3, ScanAssumption DEF Inv, TypeOK, StartScan
  <2> QED
    BY <1>2, <1>3, <2>1, IdleInv DEF StartScan
<1>4. CASE rules # {}
  <2>1. /\ run' = [Idle EXCEPT !.at = "seerr", !.loaded = rules, !.rules = rules]
        /\ UNCHANGED <<source, enabled, managed, manual, candidates, events, scans>>
    BY <1>4 DEF StartScan
  <2>2. run' \in RunRow
    BY <1>1, <2>1, IdleType DEF RunRow
  <2>3. TypeOK'
    BY <2>1, <2>2 DEF Inv, TypeOK, RunRow
  <2>4. Sound'
    BY <2>1 DEF Sound, Idle, Unheard, SonarrFields, EpisodeFields
  <2>5. Carried' /\ Staged' /\ Picked' /\ Spared' /\ SparedWithReason'
    BY <1>2, <2>1
       DEF Idle, Carried, Staged, Picked, Spared, SparedWithReason, Protecting
  <2> QED
    BY <2>3, <2>4, <2>5 DEF Inv
<1> QED
  BY <1>3, <1>4

LEMMA AskSeerrInv ==
  ASSUME Inv, AskSeerr PROVE Inv'
<1> DEFINE needing == {r \in run.rules : Uses(r, {"requested"})}
<1>1. PICK answered \in BOOLEAN :
        run' = [run EXCEPT !.at = "list",
                           !.asked = answered /\ needing # {},
                           !.rules = IF answered THEN @ ELSE @ \ needing,
                           !.preserved = IF answered THEN {} ELSE Protecting(needing)]
  BY DEF AskSeerr
<1>2. run \in RunRow /\ run.at = "seerr"
  BY DEF Inv, TypeOK, RunRow, AskSeerr
<1>3. needing \subseteq run.rules /\ Protecting(needing) \subseteq needing
  BY DEF Protecting
<1>4. /\ run'.at = "list" /\ run'.loaded = run.loaded
      /\ run'.states = run.states /\ run'.needed = run.needed
      /\ run'.readable = run.readable /\ run'.spared = run.spared
      /\ run'.asked = (answered /\ needing # {})
      /\ run'.rules = IF answered THEN run.rules ELSE run.rules \ needing
      /\ run'.preserved = IF answered THEN {} ELSE Protecting(needing)
  BY <1>1, <1>2 DEF RunRow
<1>5. run' \in RunRow
  BY <1>1, <1>2, <1>3 DEF RunRow
<1>6. TypeOK'
  BY <1>5 DEF Inv, TypeOK, RunRow, AskSeerr
<1>7. Sound'
  BY <1>4 DEF Inv, Sound, AskSeerr
<1>8. Protecting(run'.loaded) \subseteq run'.rules \cup run'.preserved
  <2>1. Protecting(run.loaded) \subseteq run.rules
    BY <1>2 DEF Inv, Carried, Staged
  <2> QED
    BY <1>4, <2>1 DEF Protecting
<1>9. Carried'
  BY <1>2, <1>3, <1>4, <1>8 DEF Inv, Carried, AskSeerr
<1>10. Staged'
  BY <1>2, <1>4 DEF Inv, Staged, Uses
<1>11. Picked' /\ Spared' /\ SparedWithReason'
  BY <1>2, <1>4 DEF Inv, Staged, Picked, Spared, SparedWithReason
<1> QED
  BY <1>6, <1>7, <1>9, <1>10, <1>11 DEF Inv

\* What a scan sees of a series depends on what was heard of it alone.
LEMMA SameSeen ==
  ASSUME NEW s, run'.states[s] = run.states[s], run'.readable = run.readable,
         run'.asked = run.asked, source' = source
  PROVE  Seen(s)' = Seen(s)
BY DEF Seen

LEMMA ListedType ==
  ASSUME NEW show \in Show, NEW part
  PROVE  /\ Listed(show, part) \in ShowField
         /\ \A f \in SonarrFields : \/ Listed(show, part)[f] = Unavailable
                                    \/ Listed(show, part)[f] = show[f]
         /\ Listed(show, part).finale = Unavailable
<1>1. /\ show.status \in Status /\ show.unaired \in YesNo
      /\ show.airs = "yes" => show.unaired = "yes"
  BY DEF Show
<1>2. Listed(show, part) \in ShowField
  BY <1>1 DEF Listed, ShowField, YesNo
<1> QED
  BY <1>1, <1>2 DEF Listed, SonarrFields, EpisodeFields

LEMMA ListShowsInv ==
  ASSUME Inv, ListShows PROVE Inv'
<1>1. run \in RunRow /\ run.at = "list"
  BY DEF Inv, TypeOK, RunRow, ListShows
<1>2. run.spared = {} /\ run.readable = {} /\ source' = source /\ scans' = scans
  BY <1>1 DEF Inv, Staged, ListShows
<1>3. CASE StatusRules(run.rules) \cup EpisodeRules(run.rules) = {}
  <2>1. run' = [run EXCEPT !.at = "playback"]
    BY <1>3 DEF ListShows
  <2>2. /\ run'.at = "playback" /\ run'.loaded = run.loaded /\ run'.rules = run.rules
        /\ run'.asked = run.asked /\ run'.states = run.states
        /\ run'.needed = run.needed /\ run'.readable = run.readable
        /\ run'.preserved = run.preserved /\ run'.spared = run.spared
    BY <1>1, <2>1 DEF RunRow
  <2>3. run' \in RunRow
    BY <1>1, <2>1 DEF RunRow
  <2>4. TypeOK'
    BY <2>3 DEF Inv, TypeOK, RunRow, ListShows
  <2>5. Sound' /\ Carried' /\ Staged'
    BY <1>1, <1>2, <2>2 DEF Inv, Sound, Carried, Staged
  <2>6. Spared'
    BY <1>3, <2>2 DEF Spared
  <2>7. Picked' /\ SparedWithReason'
    BY <1>2, <2>2 DEF Picked, SparedWithReason
  <2> QED
    BY <2>4, <2>5, <2>6, <2>7 DEF Inv
<1>4. CASE StatusRules(run.rules) \cup EpisodeRules(run.rules) # {}
  <2>1. PICK part \in [Series -> [Instance -> {"none", "status", "season", "both"}]] :
          run' = [run EXCEPT !.at = "undecided",
                    !.states = [s \in Series |-> [i \in Instance |->
                       Listed(source.shows[s][i], part[s][i])]]]
    BY <1>4 DEF ListShows
  <2>2. /\ run'.at = "undecided" /\ run'.loaded = run.loaded /\ run'.rules = run.rules
        /\ run'.asked = run.asked /\ run'.readable = run.readable
        /\ run'.preserved = run.preserved /\ run'.spared = run.spared
        /\ run'.states = [s \in Series |-> [i \in Instance |->
                            Listed(source.shows[s][i], part[s][i])]]
    BY <1>1, <2>1 DEF RunRow
  <2>3. \A s \in Series, i \in Instance : source.shows[s][i] \in Show
    BY ScanAssumption DEF Inv, TypeOK, Source
  <2>4. run'.states \in [Series -> [Instance -> ShowField]]
    BY <2>2, <2>3, ListedType
  <2>5. run' \in RunRow
    <3>1. run' = [run EXCEPT !.at = "undecided", !.states = run'.states]
      BY <2>1, <2>2
    <3> QED
      BY <1>1, <2>4, <3>1 DEF RunRow
  <2>6. TypeOK'
    BY <2>5 DEF Inv, TypeOK, RunRow, ListShows
  <2>7. Sound'
    <3> SUFFICES ASSUME NEW s \in Series, NEW i \in Instance
        PROVE  /\ \A f \in SonarrFields :
                    \/ run'.states[s][i][f] = Unavailable
                    \/ run'.states[s][i][f] = source.shows[s][i][f]
               /\ run'.states[s][i].finale = Unavailable
        BY <1>2 DEF Sound
    <3>1. run'.states[s][i] = Listed(source.shows[s][i], part[s][i])
      BY <2>2
    <3> QED
      BY <2>3, <3>1, ListedType
  <2>8. Carried' /\ Staged'
    BY <1>1, <1>2, <2>2 DEF Inv, Carried, Staged
  <2>9. Picked' /\ Spared' /\ SparedWithReason'
    BY <1>2, <2>2 DEF Picked, Spared, SparedWithReason
  <2> QED
    BY <2>6, <2>7, <2>8, <2>9 DEF Inv
<1> QED
  BY <1>3, <1>4

LEMMA PickUndecidedInv ==
  ASSUME Inv, PickUndecided PROVE Inv'
<1> DEFINE needed == {s \in Series : \E r \in EpisodeRules(run.rules) :
                        RuleState(Root[r], Seen(s)) = "unknown"}
<1>1. run \in RunRow /\ run.at = "undecided"
  BY DEF Inv, TypeOK, RunRow, PickUndecided
<1>2. run' = [run EXCEPT !.at = "episodes", !.needed = needed]
  BY DEF PickUndecided
<1>3. /\ run'.at = "episodes" /\ run'.loaded = run.loaded /\ run'.rules = run.rules
      /\ run'.asked = run.asked /\ run'.states = run.states
      /\ run'.needed = needed /\ run'.readable = run.readable
      /\ run'.preserved = run.preserved /\ run'.spared = run.spared
  BY <1>1, <1>2 DEF RunRow
<1>4. TypeOK'
  <2>1. run' \in RunRow
    BY <1>1, <1>2 DEF RunRow
  <2> QED
    BY <2>1 DEF Inv, TypeOK, RunRow, PickUndecided
<1>5. Sound' /\ Carried' /\ Staged'
  BY <1>1, <1>3 DEF Inv, Sound, Carried, Staged, PickUndecided
<1>6. Picked'
  <2> SUFFICES ASSUME NEW s \in Series \ needed, NEW r \in EpisodeRules(run.rules)
      PROVE  RuleState(Root[r], Seen(s)') # "unknown"
      BY <1>3 DEF Picked, EpisodeRules
  <2>1. Seen(s)' = Seen(s)
    BY <1>3, SameSeen DEF PickUndecided
  <2> QED
    BY <2>1
<1>7. Spared' /\ SparedWithReason'
  BY <1>1, <1>3 DEF Inv, Staged, Spared, SparedWithReason
<1> QED
  BY <1>4, <1>5, <1>6, <1>7 DEF Inv

LEMMA LoadEpisodesInv ==
  ASSUME Inv, LoadEpisodes PROVE Inv'
<1>1. run \in RunRow /\ run.at = "episodes" /\ source' = source /\ scans' = scans
  BY DEF Inv, TypeOK, RunRow, LoadEpisodes
<1> DEFINE Load(got, s, i) ==
             IF <<s, i>> \in got
             THEN [run.states[s][i] EXCEPT !.unaired = source.shows[s][i].unaired,
                                           !.finale = source.shows[s][i].finale]
             ELSE run.states[s][i]
           heard(got) == [s \in Series |-> [i \in Instance |-> Load(got, s, i)]]
<1>2. PICK got \in SUBSET (run.needed \X Instance) :
        run' = [run EXCEPT !.at = "spare", !.states = heard(got)]
  <2>1. PICK got \in SUBSET {si \in run.needed \X Instance :
                  si[2] \in RefsOf[si[1]] /\ run.states[si[1]][si[2]].season} :
          run' = [run EXCEPT !.at = "spare", !.states = heard(got)]
    BY DEF LoadEpisodes
  <2> HIDE DEF heard
  <2> QED
    BY <2>1
<1>3. /\ run'.at = "spare" /\ run'.loaded = run.loaded /\ run'.rules = run.rules
      /\ run'.asked = run.asked /\ run'.readable = run.readable
      /\ run'.needed = run.needed /\ run'.states = heard(got)
      /\ run'.preserved = run.preserved /\ run'.spared = run.spared
  <2> HIDE DEF heard
  <2> QED
    BY <1>1, <1>2 DEF RunRow
<1>4. \A s \in Series, i \in Instance :
        /\ run.states[s][i] \in ShowField
        /\ source.shows[s][i] \in Show
  BY <1>1, ScanAssumption DEF Inv, TypeOK, Source, RunRow
<1>5. \A s \in Series, i \in Instance : run'.states[s][i] = Load(got, s, i)
  <2> HIDE DEF Load
  <2> QED
    BY <1>3
<1>6. ASSUME NEW s \in Series, NEW i \in Instance
      PROVE  /\ Load(got, s, i) \in ShowField
             /\ Load(got, s, i).status = run.states[s][i].status
             /\ \/ Load(got, s, i) = run.states[s][i]
                \/ /\ Load(got, s, i).unaired = source.shows[s][i].unaired
                   /\ Load(got, s, i).finale = source.shows[s][i].finale
                   /\ source.shows[s][i].unaired \in YesNo
  <2>1. CASE <<s, i>> \in got
    <3>1. Load(got, s, i) =
            [run.states[s][i] EXCEPT !.unaired = source.shows[s][i].unaired,
                                     !.finale = source.shows[s][i].finale]
      BY <2>1
    <3>2. run.states[s][i] \in ShowField /\ source.shows[s][i] \in Show
      BY <1>4
    <3> DEFINE x == run.states[s][i]
               w == source.shows[s][i]
               y == [x EXCEPT !.unaired = w.unaired, !.finale = w.finale]
    <3>3. Load(got, s, i) = y
      BY <3>1
    <3> HIDE DEF x, w
    <3>4. x \in ShowField /\ w \in Show
      BY <3>2 DEF x, w
    <3>5. w.unaired \in YesNo /\ w.finale \in YesNo
      BY <3>4 DEF Show
    <3>6. /\ y \in ShowField /\ y.status = x.status
          /\ y.unaired = w.unaired /\ y.finale = w.finale
      BY <3>4, <3>5 DEF ShowField
    <3> HIDE DEF Load, y
    <3> QED
      BY <3>3, <3>5, <3>6 DEF x, w
  <2>2. CASE <<s, i>> \notin got
    BY <1>4, <2>2
  <2> QED
    BY <2>1, <2>2
<1>7. TypeOK'
  <2>1. heard(got) \in [Series -> [Instance -> ShowField]]
    <3> HIDE DEF Load
    <3> QED
      BY <1>6
  <2>2. run' \in RunRow
    <3> HIDE DEF heard
    <3> QED
      BY <1>1, <1>2, <2>1 DEF RunRow
  <2> QED
    BY <2>2 DEF Inv, TypeOK, RunRow, LoadEpisodes
<1>8. Sound'
  <2> SUFFICES ASSUME NEW s \in Series, NEW i \in Instance
      PROVE  /\ \A f \in SonarrFields : \/ run'.states[s][i][f] = Unavailable
                                        \/ run'.states[s][i][f] = source.shows[s][i][f]
             /\ run'.states[s][i].finale # Unavailable =>
                  run'.states[s][i].unaired # Unavailable
      BY <1>1 DEF Sound
  <2>1. Unavailable \notin YesNo
    BY ScanAssumption
  <2> HIDE DEF Load
  <2> QED
    BY <1>5, <1>6, <2>1 DEF Inv, Sound, SonarrFields, EpisodeFields
<1> HIDE DEF heard
<1>9. Carried' /\ Staged'
  BY <1>1, <1>3 DEF Inv, Carried, Staged
<1>10. Picked'
  <2> SUFFICES ASSUME NEW s \in Series \ run.needed, NEW r \in EpisodeRules(run.rules)
      PROVE  RuleState(Root[r], Seen(s)') # "unknown"
      BY <1>3 DEF Picked, EpisodeRules
  <2>1. run'.states[s] = run.states[s]
    <3>1. \A i \in Instance : run'.states[s][i] = run.states[s][i]
      BY <1>5
    <3>2. /\ run'.states[s] \in [Instance -> ShowField]
          /\ run.states[s] \in [Instance -> ShowField]
      BY <1>1, <1>7 DEF TypeOK, RunRow
    <3> QED
      BY <3>1, <3>2
  <2>2. Seen(s)' = Seen(s)
    BY <1>1, <1>3, <2>1, SameSeen
  <2> QED
    BY <1>1, <2>2 DEF Inv, Picked
<1>11. Spared' /\ SparedWithReason'
  BY <1>1, <1>3 DEF Inv, Staged, Spared, SparedWithReason
<1> QED
  BY <1>7, <1>8, <1>9, <1>10, <1>11 DEF Inv

\* A series whose episodes were fetched everywhere leaves no field of them open.
LEMMA EpisodesHeard ==
  ASSUME TypeOK, Sound, NEW s \in run.needed, HeardInFull(s),
         Seen(s).status # Unavailable, NEW f \in EpisodeFields
  PROVE  Seen(s)[f] # Unavailable
<1>1. s \in Series /\ RefsOf[s] \subseteq Instance
  BY ScanAssumption DEF TypeOK
<1>2. Unavailable \notin YesNo
  BY ScanAssumption
<1>3. \A i \in RefsOf[s] : run.states[s][i] \in ShowField
  BY <1>1 DEF TypeOK
<1>4. \A i \in RefsOf[s] :
        run.states[s][i].finale # Unavailable /\ run.states[s][i].unaired # Unavailable
  BY <1>1 DEF HeardInFull, Sound
<1>5. \A i \in RefsOf[s] : run.states[s][i][f] \in YesNo
  BY <1>3, <1>4 DEF ShowField, EpisodeFields
<1>6. Seen(s).status = AggregatedStatus(run.states[s], RefsOf[s])
  BY DEF Seen, Context
<1>7. RefsOf[s] # {}
  BY <1>6 DEF AggregatedStatus
<1>8. Aggregated(run.states[s], RefsOf[s], f) # Unavailable
  BY <1>2, <1>5, <1>7 DEF Aggregated, YesNo
<1>9. Seen(s)[f] = Aggregated(run.states[s], RefsOf[s], f)
  BY DEF Seen, Context, EpisodeFields
<1> QED
  BY <1>8, <1>9

LEMMA SpareUndecidedInv ==
  ASSUME Inv, SpareUndecided PROVE Inv'
<1> DEFINE spared == {rs \in Protecting(run.rules) \X Series :
              \/ /\ rs[1] \in EpisodeRules(run.rules)
                 /\ RuleState(Root[rs[1]], Seen(rs[2])) = "unknown"
              \/ /\ rs[1] \in StatusRules(run.rules)
                 /\ Seen(rs[2]).status = Unavailable}
<1>1. run \in RunRow /\ run.at = "spare" /\ source' = source /\ scans' = scans
  BY DEF Inv, TypeOK, RunRow, SpareUndecided
<1>2. run' = [run EXCEPT !.at = "playback", !.spared = spared]
  BY DEF SpareUndecided
<1>3. /\ run'.at = "playback" /\ run'.loaded = run.loaded /\ run'.rules = run.rules
      /\ run'.asked = run.asked /\ run'.states = run.states
      /\ run'.needed = run.needed /\ run'.readable = run.readable
      /\ run'.preserved = run.preserved /\ run'.spared = spared
  BY <1>1, <1>2 DEF RunRow
<1>4. Protecting(run.rules) \subseteq run.rules
  BY DEF Protecting
<1>5. spared \subseteq run.rules \X Series
  BY <1>4
<1>6. TypeOK'
  <2>1. run' \in RunRow
    BY <1>1, <1>2, <1>5 DEF RunRow
  <2> QED
    BY <2>1 DEF Inv, TypeOK, RunRow, SpareUndecided
<1>7. Sound' /\ Picked'
  BY <1>1, <1>3 DEF Inv, Sound, Picked
<1>8. Carried' /\ Staged'
  BY <1>1, <1>3, <1>5 DEF Inv, Carried, Staged
<1>9. \A s : Seen(s)' = Seen(s) /\ HeardInFull(s)' = HeardInFull(s)
  BY <1>1, <1>3 DEF Seen, HeardInFull
<1>10. Spared'
  BY <1>3, <1>9 DEF Spared
<1>11. SparedWithReason'
  <2> SUFFICES ASSUME NEW r \in Rule, NEW s \in Series, <<r, s>> \in spared, ~Mixed(r)
      PROVE  LeftOpen(r, s)
      BY <1>3, <1>9 DEF SparedWithReason, LeftOpen
  <2>1. CASE r \in StatusRules(run.rules) /\ Seen(s).status = Unavailable
    <3>1. Uses(r, SonarrFields)
      BY <2>1, UsesMore DEF StatusRules, SonarrFields
    <3> QED
      BY <2>1, <3>1 DEF LeftOpen
  <2>2. CASE r \in EpisodeRules(run.rules) /\ RuleState(Root[r], Seen(s)) = "unknown"
    <3>1. r \in run.rules /\ Uses(r, EpisodeFields)
      BY <2>2 DEF EpisodeRules
    <3>2. Uses(r, SonarrFields)
      BY <3>1 DEF Uses, UsesAny, SonarrFields
    <3>3. PICK f \in Fields : Uses(r, {f}) /\ Seen(s)[f] = Unavailable
      BY <2>2, OpenWhereMissing
    <3>4. s \in run.needed
      BY <1>1, <2>2 DEF Inv, Picked
    <3>5. ASSUME HeardInFull(s), Seen(s).status # Unavailable PROVE FALSE
      <4>1. f # "status"
        BY <3>3, <3>5
      <4>2. f \notin EpisodeFields
        BY <3>3, <3>4, <3>5, EpisodesHeard DEF Inv
      <4>3. f # "played"
        BY <3>1, <3>3 DEF Mixed
      <4>4. f # "requested"
        <5>1. Uses(r, {"requested"}) => run.asked
          BY <1>1, <3>1 DEF Inv, Staged
        <5>2. source.requested[s] # Unavailable
          BY ScanAssumption DEF Inv, TypeOK, Source
        <5> QED
          BY <3>3, <5>1, <5>2 DEF Seen, Context
      <4> QED
        BY <4>1, <4>2, <4>3, <4>4 DEF Fields, SonarrFields
    <3> QED
      BY <3>2, <3>5 DEF LeftOpen
  <2> QED
    BY <2>1, <2>2
<1> QED
  BY <1>6, <1>7, <1>8, <1>10, <1>11 DEF Inv

\* The playback sources only add to what is seen.
LEMMA AskPlaybackInv ==
  ASSUME Inv, AskPlayback PROVE Inv'
<1> DEFINE needing == {r \in run.rules : Uses(r, {"played"})}
<1>1. /\ run \in RunRow /\ run.at = "playback" /\ run.readable = {}
      /\ source' = source /\ scans' = scans
  BY DEF Inv, TypeOK, RunRow, Staged, AskPlayback
<1>2. PICK readable \in SUBSET Series, rules \in SUBSET run.rules,
           preserved \in SUBSET Rule :
        /\ run' = [run EXCEPT !.at = "reconcile", !.readable = readable,
                              !.rules = rules, !.preserved = preserved]
        /\ run.preserved \subseteq preserved
        /\ preserved \subseteq run.preserved \cup run.rules
        /\ Protecting(run.rules) \subseteq rules \cup preserved
        /\ \A r \in Protecting(rules) :
             Uses(r, {"played"}) => readable = Series \/ r \in preserved
  <2>1. CASE needing = {}
    <3>1. run' = [run EXCEPT !.at = "reconcile"]
      BY <2>1 DEF AskPlayback
    <3>2. run' = [run EXCEPT !.at = "reconcile", !.readable = {},
                             !.rules = run.rules, !.preserved = run.preserved]
      BY <1>1, <3>1 DEF RunRow
    <3>3. \A r \in Protecting(run.rules) : ~Uses(r, {"played"})
      BY <2>1 DEF Protecting
    <3>4. run.preserved \in SUBSET Rule /\ Protecting(run.rules) \subseteq run.rules
      BY <1>1 DEF RunRow, Protecting
    <3> QED
      BY <3>2, <3>3, <3>4
  <2>2. CASE needing # {}
    <3>1. PICK readable \in SUBSET Series, blocking \in BOOLEAN :
            run' = [run EXCEPT !.at = "reconcile", !.readable = readable,
                      !.rules = IF blocking THEN @ \ needing ELSE @,
                      !.preserved = IF blocking \/ readable # Series
                                    THEN @ \cup Protecting(needing) ELSE @]
      BY <2>2 DEF AskPlayback
    <3> DEFINE rules == IF blocking THEN run.rules \ needing ELSE run.rules
               preserved == IF blocking \/ readable # Series
                            THEN run.preserved \cup Protecting(needing) ELSE run.preserved
    <3>2. run' = [run EXCEPT !.at = "reconcile", !.readable = readable,
                             !.rules = rules, !.preserved = preserved]
      BY <3>1
    <3>3. rules \in SUBSET run.rules /\ preserved \in SUBSET Rule
      BY <1>1 DEF RunRow, Protecting
    <3>4. /\ run.preserved \subseteq preserved
          /\ preserved \subseteq run.preserved \cup run.rules
          /\ Protecting(run.rules) \subseteq rules \cup preserved
      BY DEF Protecting
    <3>5. \A r \in Protecting(rules) :
            Uses(r, {"played"}) => readable = Series \/ r \in preserved
      BY DEF Protecting
    <3> HIDE DEF rules, preserved
    <3> QED
      BY <3>2, <3>3, <3>4, <3>5
  <2> QED
    BY <2>1, <2>2
<1>3. /\ run'.at = "reconcile" /\ run'.loaded = run.loaded /\ run'.rules = rules
      /\ run'.asked = run.asked /\ run'.states = run.states
      /\ run'.needed = run.needed /\ run'.readable = readable
      /\ run'.preserved = preserved /\ run'.spared = run.spared
  BY <1>1, <1>2 DEF RunRow
<1>4. TypeOK'
  <2>1. run' \in RunRow
    BY <1>1, <1>2 DEF RunRow
  <2> QED
    BY <2>1 DEF Inv, TypeOK, RunRow, AskPlayback
<1>5. Sound' /\ Picked'
  BY <1>1, <1>3 DEF Inv, Sound, Picked
<1>6. Protecting(run'.loaded) \subseteq run'.rules \cup run'.preserved
  BY <1>2, <1>3 DEF Inv, Carried, Protecting
<1>7. Carried' /\ Staged'
  BY <1>1, <1>2, <1>3, <1>6 DEF Inv, Carried, Staged
<1>8. ASSUME NEW s \in Series
      PROVE  /\ PartOf(Seen(s), Seen(s)')
             /\ Seen(s)'.status = Seen(s).status
             /\ HeardInFull(s)' = HeardInFull(s)
  <2>1. Seen(s) = Context(run.states[s], RefsOf[s], Unavailable,
                          IF run.asked THEN source.requested[s] ELSE Unavailable)
    BY <1>1 DEF Seen
  <2>2. Seen(s)' = Context(run.states[s], RefsOf[s],
                           IF s \in readable THEN source.played[s] ELSE Unavailable,
                           IF run.asked THEN source.requested[s] ELSE Unavailable)
    BY <1>1, <1>3 DEF Seen
  <2>3. RefsOf[s] \in SUBSET Instance
    BY ScanAssumption
  <2>4. PartOf(Seen(s), Seen(s)')
    BY <2>1, <2>2, <2>3, ContextPart
  <2>5. Seen(s)'.status = Seen(s).status
    BY <2>1, <2>2 DEF Context
  <2> QED
    BY <1>3, <2>4, <2>5 DEF HeardInFull
<1>9. Spared'
  <2> SUFFICES ASSUME NEW r \in Protecting(rules), NEW s \in Series
      PROVE  /\ r \in EpisodeRules(rules) /\ RuleState(Root[r], Seen(s)') = "unknown"
                => <<r, s>> \in run.spared
             /\ r \in StatusRules(rules) /\ Seen(s)'.status = Unavailable
                => <<r, s>> \in run.spared
      BY <1>3 DEF Spared, Protecting, EpisodeRules, StatusRules
  <2>1. r \in Protecting(run.rules) /\ r \in Rule
    BY <1>1, <1>2 DEF Protecting, RunRow
  <2>2. RuleState(Root[r], Seen(s)') = "unknown" => RuleState(Root[r], Seen(s)) = "unknown"
    BY <1>8, <2>1, RootType, RuleDecided
  <2>3. /\ r \in EpisodeRules(rules) => r \in EpisodeRules(run.rules)
        /\ r \in StatusRules(rules) => r \in StatusRules(run.rules)
    BY DEF EpisodeRules, StatusRules
  <2> QED
    BY <1>1, <1>8, <2>1, <2>2, <2>3 DEF Inv, Spared
<1>10. SparedWithReason'
  BY <1>3, <1>8 DEF Inv, SparedWithReason, LeftOpen
<1> QED
  BY <1>4, <1>5, <1>7, <1>9, <1>10 DEF Inv

LEMMA ScanFailsInv ==
  ASSUME Inv, ScanFails PROVE Inv'
<1>1. TypeOK'
  BY IdleType DEF Inv, TypeOK, RunRow, ScanFails
<1> QED
  BY <1>1, IdleInv DEF ScanFails

LEMMA ReconcileInv ==
  ASSUME Inv, Reconcile PROVE Inv'
<1>1. run \in RunRow /\ run.at = "reconcile" /\ scans < MaxScans
  BY DEF Inv, TypeOK, RunRow, Carried, Reconcile
<1>2. managed' \subseteq Rule \X Series
  BY <1>1 DEF Inv, TypeOK, RunRow, Protecting, Reconcile
<1>3. candidates' \in [Series -> SUBSET Rule]
  <2> DEFINE listed(s) == {r \in run.rules : Outcome[r] = "candidate" /\ s \notin
           (manual \cup {rs[2] : rs \in
              {rs \in Protecting(run.rules) \X Series : RuleMatches(Root[rs[1]], Seen(rs[2]))}
              \cup {rs \in managed : rs[1] \in run.preserved \/ rs \in run.spared}})
           /\ RuleMatches(Root[r], Seen(s))}
  <2>1. candidates' = [s \in Series |-> listed(s)]
    BY DEF Reconcile
  <2>2. \A s \in Series : listed(s) \in SUBSET Rule
    BY <1>1 DEF RunRow
  <2> QED
    BY <2>1, <2>2
<1>4. TypeOK'
  BY <1>1, <1>2, <1>3, IdleType, ScanAssumption DEF Inv, TypeOK, RunRow, Reconcile
<1> QED
  BY <1>4, IdleInv DEF Reconcile

LEMMA NextInv == Inv /\ [Next]_vars => Inv'
<1> SUFFICES ASSUME Inv, [Next]_vars PROVE Inv'
    OBVIOUS
<1>1. CASE StartScan BY <1>1, StartScanInv
<1>2. CASE AskSeerr BY <1>2, AskSeerrInv
<1>3. CASE ListShows BY <1>3, ListShowsInv
<1>4. CASE PickUndecided BY <1>4, PickUndecidedInv
<1>5. CASE LoadEpisodes BY <1>5, LoadEpisodesInv
<1>6. CASE SpareUndecided BY <1>6, SpareUndecidedInv
<1>7. CASE AskPlayback BY <1>7, AskPlaybackInv
<1>8. CASE Reconcile BY <1>8, ReconcileInv
<1>9. CASE ScanFails BY <1>9, ScanFailsInv
<1>10. ASSUME NEW s \in Series, UserActs(s) PROVE Inv'
  BY <1>10, UserActsInv
<1>11. ASSUME NEW s \in Series, Protect(s) \/ Unprotect(s) PROVE Inv'
  BY <1>11, ProtectInv
<1>12. ASSUME NEW s \in Series, NEW i \in Instance, ShowChanges(s, i) PROVE Inv'
  BY <1>12, ShowChangesInv
<1>13. ASSUME NEW r \in Rule, SwitchRule(r) PROVE Inv'
  BY <1>13, SwitchRuleInv
<1>14. CASE UNCHANGED vars BY <1>14, StutterInv
<1> QED
  BY <1>1, <1>2, <1>3, <1>4, <1>5, <1>6, <1>7, <1>8, <1>9, <1>10, <1>11, <1>12,
     <1>13, <1>14 DEF Next

-----------------------------------------------------------------------------
(***************************************************************************)
(* What a scan ends with.                                                  *)
(***************************************************************************)
LEMMA ProvenWhenReconciled ==
  ASSUME Inv, Reconcile, NEW s \in Series, NEW r \in candidates'[s]
  PROVE  /\ RuleState(Root[r], Truth(s)) = "pass"
         /\ s \notin manual /\ ~\E p \in Rule : <<p, s>> \in managed'
<1> DEFINE desired == {rs \in Protecting(run.rules) \X Series :
                         RuleMatches(Root[rs[1]], Seen(rs[2]))}
           kept == {rs \in managed : rs[1] \in run.preserved \/ rs \in run.spared}
           exempt == manual \cup {rs[2] : rs \in desired \cup kept}
<1>1. managed' = desired \cup kept
  BY DEF Reconcile
<1>2. candidates'[s] = {q \in run.rules : /\ Outcome[q] = "candidate" /\ s \notin exempt
                                          /\ RuleMatches(Root[q], Seen(s))}
  BY DEF Reconcile
<1> HIDE DEF desired, kept
<1>3. r \in run.rules /\ s \notin exempt /\ RuleMatches(Root[r], Seen(s))
  BY <1>2
<1>4. r \in Rule
  BY <1>3 DEF Inv, TypeOK
<1>5. RuleState(Root[r], Truth(s)) = "pass"
  BY <1>3, <1>4, MatchIsTrue DEF Inv
<1>6. ASSUME NEW p \in Rule, <<p, s>> \in managed' PROVE FALSE
  <2>1. <<p, s>>[2] \in exempt
    BY <1>1, <1>6
  <2> QED
    BY <1>3, <2>1
<1> QED
  BY <1>3, <1>5, <1>6

\* A protection that is due is matched, or kept for want of an answer.
LEMMA DueIsKept ==
  ASSUME Inv, Reconcile, NEW r \in Protecting(run.loaded), NEW s \in Series,
         <<r, s>> \in managed, RuleState(Root[r], Truth(s)) = "pass"
  PROVE  <<r, s>> \in managed'
<1>1. r \in Rule /\ Outcome[r] = "protect" /\ run.at = "reconcile"
  BY DEF Inv, TypeOK, Protecting, Reconcile
<1>2. CASE r \in run.preserved \/ <<r, s>> \in run.spared
  BY <1>2 DEF Reconcile
<1>3. CASE RuleMatches(Root[r], Seen(s)) /\ r \in run.rules
  <2>1. <<r, s>> \in Protecting(run.rules) \X Series
    BY <1>1, <1>3 DEF Protecting
  <2> QED
    BY <1>3, <2>1 DEF Reconcile
<1>4. ASSUME r \notin run.preserved, <<r, s>> \notin run.spared,
             ~RuleMatches(Root[r], Seen(s))
      PROVE  FALSE
  <2>1. r \in Protecting(run.rules) /\ r \in run.rules
    BY <1>4 DEF Inv, Carried, Protecting
  <2>2. RuleState(Root[r], Seen(s)) = "unknown"
    BY <1>1, <1>4, RootType, RuleVerdict, VerdictIsTrue DEF Inv
  <2>3. PICK f \in Fields : Uses(r, {f}) /\ Seen(s)[f] = Unavailable
    BY <1>1, <2>2, OpenWhereMissing
  <2>4. f # "requested"
    <3>1. Uses(r, {"requested"}) => run.asked
      BY <1>1, <2>1 DEF Inv, Staged
    <3>2. source.requested[s] # Unavailable
      BY ScanAssumption DEF Inv, TypeOK, Source
    <3> QED
      BY <2>3, <3>1, <3>2 DEF Seen, Context
  <2>5. f # "played"
    <3>1. Uses(r, {"played"}) => run.readable = Series
      BY <1>1, <1>4, <2>1 DEF Inv, Staged
    <3>2. source.played[s] # Unavailable
      BY ScanAssumption DEF Inv, TypeOK, Source
    <3> QED
      BY <2>3, <3>1, <3>2 DEF Seen, Context
  <2>6. f # "status"
    BY <1>1, <1>4, <2>1, <2>3 DEF Inv, Spared, StatusRules
  <2>7. f \notin EpisodeFields
    <3>1. ASSUME f \in EpisodeFields PROVE r \in EpisodeRules(run.rules)
      BY <2>1, <2>3, <3>1, UsesMore DEF EpisodeRules
    <3> QED
      BY <1>1, <1>4, <2>1, <2>2, <3>1 DEF Inv, Spared
  <2> QED
    BY <2>4, <2>5, <2>6, <2>7 DEF Fields, SonarrFields
<1>5. r \in run.rules \/ r \in run.preserved
  BY DEF Inv, Carried, Protecting
<1> QED
  BY <1>2, <1>3, <1>4, <1>5

LEMMA KeptWithReason ==
  ASSUME Inv, Reconcile, NEW r \in Rule, NEW s \in Series, <<r, s>> \in managed'
  PROVE  /\ r \in run.loaded
         /\ \/ RuleState(Root[r], Truth(s)) # "fail"
            \/ r \in run.preserved \/ Mixed(r) \/ LeftOpen(r, s)
<1>1. CASE r \in run.preserved
  BY <1>1 DEF Inv, Carried
<1>2. CASE <<r, s>> \in run.spared
  BY <1>2 DEF Inv, Carried, SparedWithReason
<1>3. CASE r \in Protecting(run.rules) /\ RuleMatches(Root[r], Seen(s))
  <2>1. RuleState(Root[r], Truth(s)) = "pass"
    BY <1>3, MatchIsTrue DEF Inv
  <2> QED
    BY <1>3, <2>1 DEF Inv, Carried, Protecting
<1>4. \/ <<r, s>> \in {rs \in Protecting(run.rules) \X Series :
                         RuleMatches(Root[rs[1]], Seen(rs[2]))}
      \/ <<r, s>> \in {rs \in managed : rs[1] \in run.preserved \/ rs \in run.spared}
  BY DEF Reconcile
<1> QED
  BY <1>1, <1>2, <1>3, <1>4

-----------------------------------------------------------------------------
(***************************************************************************)
(* The theorems.                                                           *)
(***************************************************************************)
\* The inductive invariant holds in every reachable state.
THEOREM Invariant == Spec => []Inv
<1>1. Inv /\ [Next]_vars => Inv'
  BY NextInv
<1> QED
  BY InitInv, <1>1, PTL DEF Spec

\* The variables keep their types, for all rules and services.
THEOREM TypeCorrect == Spec => []TypeOK
<1>1. Inv => TypeOK
  BY DEF Inv
<1> QED
  BY Invariant, <1>1, PTL

\* Only the steps that end a scan count as one.
LEMMA ScanEnds ==
  ASSUME Inv, [Next]_vars, scans' # scans
  PROVE  \/ Reconcile
         \/ /\ run = Idle /\ managed' = {}
            /\ candidates' = [s \in Series |-> {}]
<1>1. CASE StartScan
  BY <1>1 DEF StartScan, Inv, Carried
<1> QED
  BY <1>1 DEF Next, AskSeerr, ListShows, PickUndecided, LoadEpisodes, SpareUndecided,
     AskPlayback, ScanFails, UserActs, Protect, Unprotect, ShowChanges, SwitchRule, vars

\* tasks/cleanup.py: whatever answers are missing, a scan lists a title only on
\* rules that full answers would have matched, and never a protected one.
THEOREM ListsWhatIsProven == Spec => OnlyProvenTitlesAreFlagged
<1>1. ASSUME Inv, [Next]_vars, scans' # scans, NEW s \in Series, NEW r \in candidates'[s]
      PROVE  /\ RuleState(Root[r], Truth(s)) = "pass"
             /\ s \notin manual /\ ~\E p \in Rule : <<p, s>> \in managed'
  <2>1. CASE Reconcile
    BY <1>1, <2>1, ProvenWhenReconciled
  <2>2. CASE candidates' = [t \in Series |-> {}]
    BY <1>1, <2>2
  <2> QED
    BY <1>1, <2>1, <2>2, ScanEnds
<1>2. Inv /\ [Next]_vars =>
        [scans' # scans =>
           \A s \in Series : \A r \in candidates'[s] :
             /\ RuleState(Root[r], Truth(s)) = "pass"
             /\ s \notin manual /\ ~\E p \in Rule : <<p, s>> \in managed']_vars
  BY <1>1
<1> QED
  BY Invariant, <1>2, PTL DEF Spec, OnlyProvenTitlesAreFlagged

\* core/rule_engine.py with tasks/cleanup.py: an automated protection outlives
\* every outage while its rule holds, and is released by the first scan that
\* heard enough to know that it fails.
THEOREM ProtectsWhileItHolds == Spec => ProtectionsFollowTheirRules
<1>1. ASSUME Inv, [Next]_vars, scans' # scans, NEW r \in Rule, NEW s \in Series
      PROVE  /\ /\ <<r, s>> \in managed /\ r \in Protecting(run.loaded)
                /\ RuleState(Root[r], Truth(s)) = "pass"
                => <<r, s>> \in managed'
             /\ <<r, s>> \in managed' =>
                  /\ r \in run.loaded
                  /\ \/ RuleState(Root[r], Truth(s)) # "fail"
                     \/ r \in run.preserved \/ Mixed(r)
                     \/ Uses(r, SonarrFields)
                        /\ ~(HeardInFull(s) /\ Seen(s).status # Unavailable)
  <2>1. CASE Reconcile
    BY <1>1, <2>1, DueIsKept, KeptWithReason DEF LeftOpen
  <2>2. CASE run = Idle /\ managed' = {}
    BY <2>2 DEF Idle, Protecting
  <2> QED
    BY <1>1, <2>1, <2>2, ScanEnds
<1>2. Inv /\ [Next]_vars =>
        [scans' # scans =>
           \A r \in Rule, s \in Series :
             /\ /\ <<r, s>> \in managed /\ r \in Protecting(run.loaded)
                /\ RuleState(Root[r], Truth(s)) = "pass"
                => <<r, s>> \in managed'
             /\ <<r, s>> \in managed' =>
                  /\ r \in run.loaded
                  /\ \/ RuleState(Root[r], Truth(s)) # "fail"
                     \/ r \in run.preserved \/ Mixed(r)
                     \/ Uses(r, SonarrFields)
                        /\ ~(HeardInFull(s) /\ Seen(s).status # Unavailable)]_vars
  BY <1>1
<1> QED
  BY Invariant, <1>2, PTL DEF Spec, ProtectionsFollowTheirRules
=============================================================================
