---------------------------- MODULE FileOps_proofs ----------------------------
(***************************************************************************)
(* The two file operations the server queues for itself and runs alone:    *)
(* CANDIDATE_FILE_OP, with the requests that lead to it (DeleteRequests),  *)
(* and the deletion of duplicates (DuplicateDeletion).  Neither shares     *)
(* state with the other; the queue runs one file operation at a time.      *)
(*                                                                         *)
(* Part 1, the requests.  For every number of requests, titles, handlers,  *)
(* manual deletions and restarts: an approved request is carried, by one   *)
(* job, and settled once; the jobs are commands of the pool.               *)
(* Part 2, the duplicates.  For every layout, every number of files, rows  *)
(* and Arrs: what a run keeps stays, a file is always left, an Arr is left *)
(* a file too, and an episode names a file it has.                         *)
(***************************************************************************)
EXTENDS DeleteRequests, DuplicateDeletion, WellFoundedInduction, TLAPS

-----------------------------------------------------------------------------
(***************************************************************************)
(* PART 1: THE REQUESTS.                                                   *)
(***************************************************************************)
People == Request \cup {NoRequest}

-----------------------------------------------------------------------------
(***************************************************************************)
(* Candidates and their ids.                                               *)
(***************************************************************************)
\* A set of natural numbers has a least one.
LEMMA LeastExists ==
  ASSUME NEW S, S \subseteq Nat, S # {}
  PROVE  \E x \in S : \A y \in S : x <= y
<1> DEFINE R == OpToRel(<, Nat)
<1>1. \A x, y \in Nat : <<y, x>> \in R <=> y < x
  BY DEF OpToRel
<1>2. IsWellFoundedOn(R, Nat)
  BY NatLessThanWellFounded
<1> HIDE DEF R
<1>3. PICK x \in S : \A y \in S : ~(<<y, x>> \in R)
  BY <1>2, WFMin
<1>4. ASSUME NEW y \in S PROVE x <= y
  <2>1. x \in Nat /\ y \in Nat /\ ~(<<y, x>> \in R)
    BY <1>3
  <2>2. ~(y < x)
    BY <1>1, <2>1
  <2> QED BY <2>1, <2>2
<1> QED BY <1>4

\* A bounded set of positive ids has a greatest one.
LEMMA GreatestIsIn ==
  ASSUME NEW S, S \subseteq Nat, S # {}, NEW b \in Nat, \A i \in S : i <= b
  PROVE  Greatest(S) \in S /\ \A d \in S : d <= Greatest(S)
<1> DEFINE T == {b - i : i \in S}
<1>1. T \subseteq Nat /\ T # {}
  <2>1. \A i \in S : b - i \in Nat
    OBVIOUS
  <2>2. PICK i \in S : TRUE
    OBVIOUS
  <2>3. b - i \in T
    BY <2>2
  <2> QED BY <2>1, <2>3
<1> HIDE DEF T
<1>2. \E x \in T : \A y \in T : x <= y
  BY <1>1, LeastExists
<1>3. PICK m \in S : \A y \in T : b - m <= y
  BY <1>2 DEF T
<1>4. ASSUME NEW i \in S PROVE i <= m
  <2>1. m \in Nat /\ i \in Nat
    OBVIOUS
  <2>2. b - m <= b - i
    BY <1>3 DEF T
  <2> QED
    BY <2>1, <2>2
<1> QED BY <1>3, <1>4 DEF Greatest

\* Both tables are functions on their ids.
LEMMA Tables ==
  ASSUME RequestsTypeOK
  PROVE  /\ Len(cands) \in Nat /\ DOMAIN cands = 1..Len(cands)
         /\ cands \in [1..Len(cands) -> CandidateRow]
         /\ DOMAIN cands \subseteq CandidateId
         /\ Len(jobs) \in Nat /\ DOMAIN jobs = 1..Len(jobs)
         /\ jobs \in [1..Len(jobs) -> JobRow]
         /\ \A c \in DOMAIN cands : cands[c] \in CandidateRow /\ cands[c].r \in People
         /\ \A j \in DOMAIN jobs : /\ jobs[j] \in JobRow /\ jobs[j].r \in People
                                   /\ jobs[j].c \in CandidateId
<1>1. cands \in Seq(CandidateRow) /\ Len(cands) <= MaxCandidates /\ jobs \in Seq(JobRow)
  BY DEF RequestsTypeOK
<1>2. /\ Len(cands) \in Nat /\ DOMAIN cands = 1..Len(cands)
      /\ cands \in [1..Len(cands) -> CandidateRow]
      /\ Len(jobs) \in Nat /\ DOMAIN jobs = 1..Len(jobs)
      /\ jobs \in [1..Len(jobs) -> JobRow]
  BY <1>1
<1>3. DOMAIN cands \subseteq CandidateId
  BY <1>1, <1>2, BoundsAssumption DEF CandidateId
<1>4. \A row \in CandidateRow : row.r \in People
  BY DEF CandidateRow, People
<1>5. \A row \in JobRow : row.r \in People /\ row.c \in CandidateId
  BY DEF JobRow, People
<1> QED BY <1>2, <1>3, <1>4, <1>5

\* A new candidate's id is no candidate's, and follows on the rows there are.
LEMMA NextIdIsFree ==
  ASSUME RequestsTypeOK
  PROVE  /\ NextId \in 1..(Len(cands) + 1)
         /\ ~Exists(NextId)
<1> DEFINE there == {c \in DOMAIN cands : Exists(c)}
<1>1. DOMAIN cands = 1..Len(cands) /\ Len(cands) \in Nat
  BY Tables
<1>2. CASE there = {}
  <2>1. NextId = 1
    BY <1>2 DEF NextId
  <2> QED BY <2>1, <1>2, <1>1 DEF Exists
<1>3. CASE there # {}
  <2>1. Greatest(there) \in there /\ \A d \in there : d <= Greatest(there)
    <3>1. there \subseteq Nat /\ \A i \in there : i <= Len(cands)
      BY <1>1
    <3> HIDE DEF there
    <3> QED BY <3>1, <1>1, <1>3, GreatestIsIn
  <2>2. NextId = Greatest(there) + 1
    BY <1>3 DEF NextId
  <2>3. NextId \notin there /\ NextId \in 1..(Len(cands) + 1)
    <3>1. there \subseteq 1..Len(cands)
      BY <1>1
    <3> HIDE DEF there
    <3>2. PICK g : g = Greatest(there)
      OBVIOUS
    <3>3. g \in there /\ (\A d \in there : d <= g) /\ NextId = g + 1
      BY <3>2, <2>1, <2>2
    <3>4. g \in 1..Len(cands)
      BY <3>1, <3>3
    <3>5. g + 1 \in 1..(Len(cands) + 1) /\ ~(g + 1 <= g)
      BY <3>4, <1>1
    <3> QED BY <3>3, <3>5
  <2> QED BY <2>3 DEF Exists
<1> QED BY <1>2, <1>3

\* What a new candidate does to the table.
LEMMA NewCandidateTable ==
  ASSUME RequestsTypeOK, NEW t \in Title, NEW r \in People, NextId <= MaxCandidates,
         cands' = NewCandidate(t, r)
  PROVE  /\ cands' \in Seq(CandidateRow) /\ Len(cands') <= MaxCandidates
         /\ DOMAIN cands' = DOMAIN cands \cup {NextId}
         /\ cands'[NextId] = [title |-> t, r |-> r, exists |-> TRUE, deferred |-> FALSE]
         /\ \A c \in DOMAIN cands \ {NextId} : cands'[c] = cands[c]
<1> DEFINE row == [title |-> t, r |-> r, exists |-> TRUE, deferred |-> FALSE]
<1>1. row \in CandidateRow
  BY DEF CandidateRow, People
<1>2. /\ cands \in Seq(CandidateRow) /\ Len(cands) <= MaxCandidates
      /\ Len(cands) \in Nat /\ DOMAIN cands = 1..Len(cands)
      /\ cands \in [1..Len(cands) -> CandidateRow]
  BY Tables DEF RequestsTypeOK
<1>3. NextId \in 1..(Len(cands) + 1)
  BY NextIdIsFree
<1>4. cands' = IF NextId \in DOMAIN cands THEN [cands EXCEPT ![NextId] = row]
                                          ELSE Append(cands, row)
  BY DEF NewCandidate
<1> HIDE DEF row
<1>5. CASE NextId \in DOMAIN cands
  <2>1. cands' = [cands EXCEPT ![NextId] = row]
    BY <1>4, <1>5
  <2>2. cands' \in [1..Len(cands) -> CandidateRow]
    BY <2>1, <1>1, <1>2
  <2>3. cands' \in Seq(CandidateRow) /\ Len(cands') = Len(cands)
    BY <2>2, <1>2
  <2> QED BY <2>1, <2>3, <1>2, <1>5 DEF row
<1>6. CASE NextId \notin DOMAIN cands
  <2>1. NextId = Len(cands) + 1
    BY <1>2, <1>3, <1>6
  <2>2. cands' = Append(cands, row)
    BY <1>4, <1>6
  <2>3. /\ cands' \in Seq(CandidateRow) /\ Len(cands') = Len(cands) + 1
        /\ cands'[Len(cands) + 1] = row
        /\ \A c \in 1..Len(cands) : cands'[c] = cands[c]
    BY <2>2, <1>1, <1>2
  <2> QED BY <2>1, <2>3, <1>2 DEF row
<1> QED BY <1>5, <1>6

\* What removing candidates does to the table.
LEMMA DroppedTable ==
  ASSUME RequestsTypeOK, NEW S, NEW asks \in SUBSET asked, DropCandidates(S, asks)
  PROVE  /\ cands' \in Seq(CandidateRow) /\ Len(cands') <= MaxCandidates
         /\ DOMAIN cands' = DOMAIN cands
         /\ \A c \in S \cap DOMAIN cands : ~cands'[c].exists /\ cands'[c].r = NoRequest
         /\ \A c \in DOMAIN cands \ S : cands'[c] = cands[c]
         /\ asked' \subseteq [title: Title, c: 0..MaxCandidates]
<1>1. /\ cands \in Seq(CandidateRow) /\ Len(cands) <= MaxCandidates
      /\ Len(cands) \in Nat /\ DOMAIN cands = 1..Len(cands)
  BY Tables DEF RequestsTypeOK
<1>2. cands' \in [1..Len(cands) -> CandidateRow]
  <2>1. \A c \in 1..Len(cands) : cands[c] \in CandidateRow
    BY <1>1
  <2> QED BY <2>1, <1>1 DEF DropCandidates, CandidateRow
<1>3. cands' \in Seq(CandidateRow) /\ Len(cands') = Len(cands)
  BY <1>2, <1>1
<1>4. asked' \subseteq [title: Title, c: 0..MaxCandidates]
  <2>1. 0 \in 0..MaxCandidates
    BY BoundsAssumption
  <2>2. \A ask \in asks : ask \in [title: Title, c: 0..MaxCandidates]
    BY DEF RequestsTypeOK
  <2> QED BY <2>1, <2>2 DEF DropCandidates
<1>5. \A c \in S \cap DOMAIN cands : ~cands'[c].exists /\ cands'[c].r = NoRequest
  <2>1. \A c \in DOMAIN cands : cands[c] \in CandidateRow
    BY <1>1
  <2> QED BY <2>1 DEF DropCandidates, CandidateRow
<1>6. \A c \in DOMAIN cands \ S : cands'[c] = cands[c]
  BY DEF DropCandidates
<1>7. DOMAIN cands' = DOMAIN cands
  BY DEF DropCandidates
<1> QED BY <1>1, <1>3, <1>4, <1>5, <1>6, <1>7

-----------------------------------------------------------------------------
(***************************************************************************)
(* Jobs.                                                                   *)
(***************************************************************************)
LEMMA QueuedTable ==
  ASSUME RequestsTypeOK, NEW c \in CandidateId, NEW r \in People, QueueFileOp(c, r)
  PROVE  /\ jobs' \in Seq(JobRow)
         /\ DOMAIN jobs' = DOMAIN jobs \cup {Len(jobs) + 1}
         /\ Len(jobs) + 1 \notin DOMAIN jobs
         /\ jobs'[Len(jobs) + 1] = [c |-> c, r |-> r, status |-> "PENDING"]
         /\ \A j \in DOMAIN jobs : jobs'[j] = jobs[j]
<1> DEFINE row == [c |-> c, r |-> r, status |-> "PENDING"]
<1>1. row \in JobRow
  BY DEF JobRow, People
<1>2. jobs \in Seq(JobRow) /\ Len(jobs) \in Nat /\ DOMAIN jobs = 1..Len(jobs)
  BY DEF RequestsTypeOK
<1>3. jobs' = Append(jobs, row)
  BY DEF QueueFileOp
<1> HIDE DEF row
<1>4. /\ jobs' \in Seq(JobRow) /\ Len(jobs') = Len(jobs) + 1
      /\ jobs'[Len(jobs) + 1] = row
      /\ \A j \in 1..Len(jobs) : jobs'[j] = jobs[j]
  BY <1>1, <1>2, <1>3
<1> QED BY <1>2, <1>4 DEF row

\* A new job waits, so that what runs is what ran.
LEMMA QueuedRunning ==
  ASSUME RequestsTypeOK, NEW c \in CandidateId, NEW r \in People, QueueFileOp(c, r)
  PROVE  /\ jobs' \in Seq(JobRow)
         /\ DOMAIN jobs \subseteq DOMAIN jobs'
         /\ \A j \in DOMAIN jobs' : jobs'[j].status = "RUNNING" <=>
              op.at # "idle" /\ op.job = j
<1>1. /\ jobs' \in Seq(JobRow)
      /\ DOMAIN jobs' = DOMAIN jobs \cup {Len(jobs) + 1}
      /\ Len(jobs) + 1 \notin DOMAIN jobs
      /\ jobs'[Len(jobs) + 1] = [c |-> c, r |-> r, status |-> "PENDING"]
      /\ \A j \in DOMAIN jobs : jobs'[j] = jobs[j]
  BY QueuedTable
<1>2. jobs'[Len(jobs) + 1].status = "PENDING"
  BY <1>1
<1>3. ~(op.at # "idle" /\ op.job = Len(jobs) + 1)
  BY <1>1 DEF RequestsTypeOK, Custody
<1>4. \A j \in DOMAIN jobs : jobs'[j].status = "RUNNING" <=>
        op.at # "idle" /\ op.job = j
  BY <1>1 DEF RequestsTypeOK, Custody
<1> QED BY <1>1, <1>2, <1>3, <1>4

\* A job changes its status, and nothing else.
LEMMA MarkedTable ==
  ASSUME RequestsTypeOK, NEW j \in DOMAIN jobs,
         NEW status \in {"PENDING", "RUNNING", "COMPLETED", "FAILED"},
         jobs' = [jobs EXCEPT ![j].status = status]
  PROVE  /\ jobs' \in Seq(JobRow)
         /\ DOMAIN jobs' = DOMAIN jobs
         /\ jobs'[j].status = status
         /\ \A i \in DOMAIN jobs : jobs'[i].c = jobs[i].c /\ jobs'[i].r = jobs[i].r
         /\ \A i \in DOMAIN jobs \ {j} : jobs'[i] = jobs[i]
<1>1. Len(jobs) \in Nat /\ DOMAIN jobs = 1..Len(jobs)
  BY Tables
<1>2. \A i \in 1..Len(jobs) : jobs[i] \in JobRow
  BY Tables
<1>3. jobs' \in [1..Len(jobs) -> JobRow]
  BY <1>1, <1>2 DEF JobRow
<1>4. jobs' \in Seq(JobRow)
  <2> DEFINE q == jobs'
  <2>1. q \in [1..Len(jobs) -> JobRow]
    BY <1>3
  <2> HIDE DEF q
  <2>2. q \in Seq(JobRow)
    BY <2>1, <1>1
  <2> QED BY <2>2 DEF q
<1> QED BY <1>1, <1>2, <1>4 DEF JobRow

-----------------------------------------------------------------------------
(***************************************************************************)
(* Handlers.                                                               *)
(***************************************************************************)
LEMMA HandlerFacts ==
  ASSUME NEW row \in HandlerRow
  PROVE  /\ row.kind = "none" \/ row.r \in Request
         /\ row.kind = "none" => row = NoHandler
         /\ row.kind \in {"none", "approve", "deny", "cancel", "retry"}
         /\ row.at = "read" => row.kind \in {"approve", "deny", "cancel"}
         /\ row.at = "queue" => row.kind \in {"approve", "retry"} /\ row.c \in CandidateId
         /\ row.at = "clear" => row.kind = "retry" /\ row.c \in CandidateId
         /\ row.kind = "retry" => row.at \in {"queue", "clear"}
         /\ row.kind \in {"deny", "cancel"} => row.at = "read"
         /\ row.r \in People
BY DEF HandlerRow, NoHandler, People

LEMMA OpenType ==
  /\ NoHandler \in HandlerRow
  /\ \A r \in Request, kind \in {"approve", "deny", "cancel"} :
       Open(kind, r, "read", 0) \in HandlerRow
  /\ \A r \in Request, kind \in {"approve", "retry"}, c \in CandidateId :
       Open(kind, r, "queue", c) \in HandlerRow
  /\ \A row \in HandlerRow : row.kind = "retry" =>
       [row EXCEPT !.at = "clear"] \in HandlerRow
BY DEF HandlerRow, NoHandler, Open

LEMMA PursuedType ==
  ASSUME RequestsTypeOK, NEW c PROVE Pursued(c) \ {NoRequest} \subseteq Request
<1>1. \A j \in DOMAIN jobs : jobs[j].r \in People
  BY Tables
<1>2. \A h \in Handler : handler[h].r \in People
  BY HandlerFacts DEF RequestsTypeOK, Custody
<1>3. op.linked \in People
  BY DEF RequestsTypeOK, Custody, OpRow, People
<1> QED BY <1>1, <1>2, <1>3 DEF Pursued, People

-----------------------------------------------------------------------------
(***************************************************************************)
(* Type correctness: the lock is held by the retry that works under it, or *)
(* by the operation between its first look and its last commit.            *)
(***************************************************************************)
\* What the surroundings change: candidates, files, protections.
LEMMA SurroundingsType ==
  ASSUME RequestsTypeOK,
         \/ \E r \in Request : CreateDeleteRequest(r)
         \/ \E c \in CandidateId : DeleteCandidate(c) \/ ScanDrops(c)
         \/ \E t \in Title : \/ ScanAdds(t)
                             \/ RequestProtection(t) \/ AutoApproveProtection(t)
                             \/ EndProtection(t)
         \/ \E ask \in asked : ApproveProtection(ask)
  PROVE  RequestsTypeOK'
<1> USE DEF reviewVars, mediaVars, history
<1>1. ASSUME NEW r \in Request, CreateDeleteRequest(r) PROVE RequestsTypeOK'
  <2>1. request' \in [Request -> RequestRow]
    <3>1. /\ request' = [request EXCEPT ![r].status = "PENDING"]
          /\ request \in [Request -> RequestRow]
      BY <1>1 DEF CreateDeleteRequest, RequestsTypeOK
    <3>2. [request[r] EXCEPT !.status = "PENDING"] \in RequestRow
      BY <3>1 DEF RequestRow, Statuses
    <3> QED BY <3>1, <3>2
  <2> QED BY <1>1, <2>1 DEF CreateDeleteRequest, RequestsTypeOK, Custody, Locking
<1>2. ASSUME NEW c \in CandidateId, DeleteCandidate(c) PROVE RequestsTypeOK'
  <2>1. QueueFileOp(c, NoRequest) /\ NoRequest \in People
    BY <1>2 DEF DeleteCandidate, People
  <2>2. /\ jobs' \in Seq(JobRow)
        /\ \A j \in DOMAIN jobs' : jobs'[j].status = "RUNNING" <=>
             op.at # "idle" /\ op.job = j
        /\ DOMAIN jobs \subseteq DOMAIN jobs'
    BY <2>1, QueuedRunning
  <2> QED BY <1>2, <2>2 DEF DeleteCandidate, RequestsTypeOK, Custody, Locking
<1>3. ASSUME NEW c \in CandidateId, ScanDrops(c) PROVE RequestsTypeOK'
  <2>1. /\ cands' \in Seq(CandidateRow) /\ Len(cands') <= MaxCandidates
        /\ asked' \subseteq [title: Title, c: 0..MaxCandidates]
    BY <1>3, DroppedTable DEF ScanDrops
  <2> QED BY <1>3, <2>1 DEF ScanDrops, RequestsTypeOK, Custody, Locking
<1>4. ASSUME NEW t \in Title, ScanAdds(t) PROVE RequestsTypeOK'
  <2>1. cands' \in Seq(CandidateRow) /\ Len(cands') <= MaxCandidates
    BY <1>4, NewCandidateTable DEF ScanAdds, People
  <2>2. reused' \subseteq Request
    BY <1>4, PursuedType DEF ScanAdds, GiveOut, RequestsTypeOK, Custody
  <2> QED BY <1>4, <2>1, <2>2 DEF ScanAdds, RequestsTypeOK, Custody, Locking
<1>5. ASSUME NEW t \in Title, RequestProtection(t) PROVE RequestsTypeOK'
  <2>1. \A c \in CandidatesOf(t) : c \in 0..MaxCandidates
    BY Tables, BoundsAssumption DEF CandidatesOf, CandidateId
  <2>2. asked' \subseteq [title: Title, c: 0..MaxCandidates]
    <3>1. 0 \in 0..MaxCandidates
      BY BoundsAssumption
    <3>2. (IF CandidatesOf(t) = {} THEN 0 ELSE CHOOSE c \in CandidatesOf(t) : TRUE)
            \in 0..MaxCandidates
      BY <2>1, <3>1
    <3> DEFINE id == IF CandidatesOf(t) = {} THEN 0
                     ELSE CHOOSE c \in CandidatesOf(t) : TRUE
    <3>3. asked' = asked \cup {[title |-> t, c |-> id]}
      BY <1>5 DEF RequestProtection
    <3>4. [title |-> t, c |-> id] \in [title: Title, c: 0..MaxCandidates]
      BY <3>2
    <3> HIDE DEF id
    <3> QED BY <3>3, <3>4 DEF RequestsTypeOK, Custody
  <2> QED BY <1>5, <2>2 DEF RequestProtection, RequestsTypeOK, Custody, Locking
<1>6. ASSUME NEW t \in Title, AutoApproveProtection(t) PROVE RequestsTypeOK'
  <2>1. /\ cands' \in Seq(CandidateRow) /\ Len(cands') <= MaxCandidates
        /\ asked' \subseteq [title: Title, c: 0..MaxCandidates]
    BY <1>6, DroppedTable DEF AutoApproveProtection
  <2> QED BY <1>6, <2>1 DEF AutoApproveProtection, RequestsTypeOK, Custody, Locking
<1>7. ASSUME NEW t \in Title, EndProtection(t) PROVE RequestsTypeOK'
  BY <1>7 DEF EndProtection, RequestsTypeOK, Custody, Locking
<1>8. ASSUME NEW ask \in asked, ApproveProtection(ask) PROVE RequestsTypeOK'
  <2>1. /\ cands' \in Seq(CandidateRow) /\ Len(cands') <= MaxCandidates
        /\ asked' \subseteq [title: Title, c: 0..MaxCandidates]
    <3>1. asked \ {ask} \in SUBSET asked
      OBVIOUS
    <3>2. DropCandidates({ask.c}, asked \ {ask})
      BY <1>8 DEF ApproveProtection
    <3> QED BY <3>1, <3>2, DroppedTable
  <2>2. ask.title \in Title
    BY DEF RequestsTypeOK, Custody
  <2> QED BY <1>8, <2>1, <2>2 DEF ApproveProtection, RequestsTypeOK, Custody, Locking
<1> QED BY <1>1, <1>2, <1>3, <1>4, <1>5, <1>6, <1>7, <1>8

\* Another row for one handler.
LEMMA HandlerMoves ==
  ASSUME RequestsTypeOK, NEW h \in Handler, NEW row \in HandlerRow,
         handler' = [handler EXCEPT ![h] = row]
  PROVE  /\ handler' \in [Handler -> HandlerRow]
         /\ handler'[h] = row
         /\ \A g \in Handler \ {h} : handler'[g] = handler[g]
BY DEF RequestsTypeOK, Custody

\* A handler moves without the lock.
LEMMA ReviewerMoves ==
  ASSUME RequestsTypeOK, NEW h \in Handler, NEW row \in HandlerRow,
         handler' = [handler EXCEPT ![h] = row],
         row.kind # "retry", ~Locking(h), UNCHANGED lock
  PROVE  /\ handler' \in [Handler -> HandlerRow]
         /\ \A g \in Handler : lock' = g <=> Locking(g)'
<1>1. /\ handler' \in [Handler -> HandlerRow]
      /\ handler'[h] = row
      /\ \A g \in Handler \ {h} : handler'[g] = handler[g]
  BY HandlerMoves
<1>2. \A g \in Handler : Locking(g)' <=> Locking(g)
  BY <1>1 DEF Locking
<1> QED BY <1>1, <1>2 DEF RequestsTypeOK, Custody

LEMMA ReviewType ==
  ASSUME RequestsTypeOK, NEW h \in Handler,
         \/ \E r \in Request, kind \in {"approve", "deny", "cancel"} :
              Review(h, kind, r)
         \/ CommitApproval(h) \/ QueueApproval(h) \/ CommitDenial(h)
         \/ CommitCancel(h) \/ ReviewFails(h)
  PROVE  RequestsTypeOK'
<1> USE DEF reviewVars, mediaVars, history
<1>0. /\ handler[h] \in HandlerRow
      /\ handler[h].kind # "none" => handler[h].r \in Request
      /\ handler[h].at = "queue" => handler[h].c \in CandidateId
  BY HandlerFacts DEF RequestsTypeOK, Custody
<1>1. ASSUME NEW r \in Request, NEW kind \in {"approve", "deny", "cancel"},
             Review(h, kind, r)
      PROVE  RequestsTypeOK'
  <2>1. /\ Open(kind, r, "read", 0) \in HandlerRow
        /\ Open(kind, r, "read", 0).kind # "retry"
        /\ ~Locking(h)
    <3>1. Open(kind, r, "read", 0) \in HandlerRow
      BY OpenType
    <3>2. Open(kind, r, "read", 0).kind # "retry"
      BY DEF Open
    <3>3. ~Locking(h)
      BY <1>1 DEF Review, NoHandler, Locking
    <3> QED BY <3>1, <3>2, <3>3
  <2>2. /\ handler' \in [Handler -> HandlerRow]
        /\ \A g \in Handler : lock' = g <=> Locking(g)'
    BY <1>1, <2>1, ReviewerMoves DEF Review
  <2> QED BY <1>1, <2>2 DEF Review, RequestsTypeOK, Custody
<1>2. CASE CommitApproval(h)
  <2> DEFINE r == handler[h].r
  <2>1. r \in Request /\ NextId \in CandidateId /\ TitleOf[r] \in Title
    BY <1>2, <1>0, NextIdIsFree, Tables, TitleAssumption, BoundsAssumption
    DEF CommitApproval, CandidateId
  <2>2. Open("approve", r, "queue", NextId) \in HandlerRow
        /\ Open("approve", r, "queue", NextId).kind # "retry" /\ ~Locking(h)
    BY <1>2, <2>1, OpenType DEF Open, CommitApproval, Locking
  <2>3. /\ handler' \in [Handler -> HandlerRow]
        /\ \A g \in Handler : lock' = g <=> Locking(g)'
    BY <1>2, <2>2, ReviewerMoves DEF CommitApproval
  <2>4. cands' \in Seq(CandidateRow) /\ Len(cands') <= MaxCandidates
    BY <1>2, <2>1, NewCandidateTable DEF CommitApproval, People
  <2>5. request' \in [Request -> RequestRow]
    <3>1. request[r] \in RequestRow
      BY <2>1 DEF RequestsTypeOK, Custody
    <3>2. [request[r] EXCEPT !.status = "APPROVED", !.error = FALSE] \in RequestRow
      BY <3>1 DEF RequestRow, Statuses
    <3>3. request' = [request EXCEPT ![r] =
            [request[r] EXCEPT !.status = "APPROVED", !.error = FALSE]]
      BY <1>2, <2>1 DEF CommitApproval, RequestsTypeOK, Custody
    <3> QED BY <3>2, <3>3, <2>1 DEF RequestsTypeOK, Custody
  <2>6. reused' \subseteq Request /\ twice' \subseteq Request
    BY <1>2, <2>1, PursuedType DEF CommitApproval, GiveOut, Decide, RequestsTypeOK, Custody
  <2> QED BY <1>2, <2>3, <2>4, <2>5, <2>6 DEF CommitApproval, RequestsTypeOK, Custody
<1>3. CASE QueueApproval(h)
  <2> DEFINE r == handler[h].r
  <2>1. r \in Request /\ r \in People /\ handler[h].c \in CandidateId /\ ~Locking(h)
    BY <1>3, <1>0 DEF QueueApproval, People, Locking
  <2>2. /\ handler' \in [Handler -> HandlerRow]
        /\ \A g \in Handler : lock' = g <=> Locking(g)'
    BY <1>3, <2>1, OpenType, ReviewerMoves DEF QueueApproval, Close, NoHandler
  <2>3. /\ jobs' \in Seq(JobRow)
        /\ \A j \in DOMAIN jobs' : jobs'[j].status = "RUNNING" <=>
             op.at # "idle" /\ op.job = j
        /\ DOMAIN jobs \subseteq DOMAIN jobs'
    <3>1. CASE QueueFileOp(handler[h].c, r)
      BY <3>1, <2>1, QueuedRunning
    <3>2. CASE UNCHANGED jobs
      BY <3>2 DEF RequestsTypeOK, Custody
    <3> QED BY <1>3, <3>1, <3>2 DEF QueueApproval
  <2>5. lost' \subseteq Request
    BY <1>3, <2>1 DEF QueueApproval, RequestsTypeOK, Custody
  <2> QED BY <1>3, <2>2, <2>3, <2>5 DEF QueueApproval, RequestsTypeOK, Custody
<1>4. CASE CommitDenial(h)
  <2> DEFINE r == handler[h].r
  <2>1. r \in Request /\ ~Locking(h)
    BY <1>4, <1>0 DEF CommitDenial, Locking
  <2>2. /\ handler' \in [Handler -> HandlerRow]
        /\ \A g \in Handler : lock' = g <=> Locking(g)'
    BY <1>4, <2>1, OpenType, ReviewerMoves DEF CommitDenial, Close, NoHandler
  <2>3. request' \in [Request -> RequestRow]
    <3>1. /\ request' = [request EXCEPT ![r].status = "DENIED"]
          /\ request \in [Request -> RequestRow]
      BY <1>4 DEF CommitDenial, RequestsTypeOK
    <3> HIDE DEF r
    <3>2. [request[r] EXCEPT !.status = "DENIED"] \in RequestRow
      BY <2>1, <3>1 DEF RequestRow, Statuses
    <3> QED BY <2>1, <3>1, <3>2
  <2>4. twice' \subseteq Request
    <3>1. Decide(r) /\ twice \subseteq Request
      BY <1>4 DEF CommitDenial, RequestsTypeOK
    <3> HIDE DEF r
    <3> QED BY <2>1, <3>1 DEF Decide
  <2> QED BY <1>4, <2>2, <2>3, <2>4 DEF CommitDenial, RequestsTypeOK, Custody
<1>5. CASE CommitCancel(h)
  <2> DEFINE r == handler[h].r
  <2>1. r \in Request /\ ~Locking(h)
    BY <1>5, <1>0 DEF CommitCancel, Locking
  <2>2. /\ handler' \in [Handler -> HandlerRow]
        /\ \A g \in Handler : lock' = g <=> Locking(g)'
    BY <1>5, <2>1, OpenType, ReviewerMoves DEF CommitCancel, Close, NoHandler
  <2>3. request' \in [Request -> RequestRow]
    BY <1>5, <2>1 DEF CommitCancel, RequestsTypeOK, Custody, RequestRow, Statuses, Blank
  <2>4. cands' \in Seq(CandidateRow) /\ Len(cands') <= MaxCandidates
    <3>1. cands' \in [1..Len(cands) -> CandidateRow]
      BY <1>5, Tables DEF CommitCancel, CandidateRow
    <3> DEFINE q == cands'
    <3>2. q \in [1..Len(cands) -> CandidateRow]
      BY <3>1
    <3> HIDE DEF q
    <3>3. q \in Seq(CandidateRow) /\ Len(q) = Len(cands)
      BY <3>2, Tables
    <3> QED BY <3>3 DEF q, RequestsTypeOK, Custody
  <2> QED BY <1>5, <2>2, <2>3, <2>4 DEF CommitCancel, RequestsTypeOK, Custody
<1>6. CASE ReviewFails(h)
  <2>1. ~Locking(h)
    BY <1>6 DEF ReviewFails, Locking
  <2>2. /\ handler' \in [Handler -> HandlerRow]
        /\ \A g \in Handler : lock' = g <=> Locking(g)'
    BY <1>6, <2>1, OpenType, ReviewerMoves DEF ReviewFails, Close, NoHandler
  <2> QED BY <1>6, <2>2 DEF ReviewFails, RequestsTypeOK, Custody
<1> QED BY <1>1, <1>2, <1>3, <1>4, <1>5, <1>6

\* The retry takes the lock when it is free, and gives it back.
LEMMA RetryType ==
  ASSUME RequestsTypeOK, NEW h \in Handler,
         \/ \E r \in Request : CheckRetry(h, r)
         \/ QueueRetry(h) \/ ClearDeferral(h)
  PROVE  RequestsTypeOK'
<1> USE DEF reviewVars, mediaVars, history
<1>0. /\ handler[h] \in HandlerRow
      /\ handler[h].kind # "none" => handler[h].r \in Request
      /\ handler[h].at = "queue" => handler[h].c \in CandidateId
  BY HandlerFacts DEF RequestsTypeOK, Custody
<1>1. ASSUME NEW r \in Request, CheckRetry(h, r) PROVE RequestsTypeOK'
  <2>1. PICK c \in DOMAIN cands :
          handler' = [handler EXCEPT ![h] = Open("retry", r, "queue", c)]
    BY <1>1 DEF CheckRetry
  <2>2. Open("retry", r, "queue", c) \in HandlerRow
        /\ Open("retry", r, "queue", c).kind = "retry"
    BY OpenType, Tables DEF Open
  <2>3. /\ handler' \in [Handler -> HandlerRow]
        /\ Locking(h)'
        /\ \A g \in Handler \ {h} : Locking(g)' <=> Locking(g)
    BY <2>1, <2>2, HandlerMoves DEF Locking
  <2>4. lock = "free" /\ lock' = h
    BY <1>1 DEF CheckRetry
  <2>5. \A g \in Handler : lock' = g <=> Locking(g)'
    BY <2>3, <2>4, HandlerAssumption DEF RequestsTypeOK, Custody
  <2>6. crossed' \subseteq Request
    BY <1>1 DEF CheckRetry, RequestsTypeOK, Custody
  <2> QED BY <1>1, <2>3, <2>4, <2>5, <2>6, HandlerAssumption
      DEF CheckRetry, RequestsTypeOK, Custody
<1>2. ASSUME handler' = [handler EXCEPT ![h] = NoHandler], lock' = "free", Locking(h)
      PROVE  /\ handler' \in [Handler -> HandlerRow]
             /\ \A g \in Handler : lock' = g <=> Locking(g)'
             /\ ~(lock = "job")
  <2>1. /\ handler' \in [Handler -> HandlerRow]
        /\ ~Locking(h)'
        /\ \A g \in Handler \ {h} : Locking(g)' <=> Locking(g)
    BY <1>2, OpenType, HandlerMoves DEF Locking, NoHandler
  <2>2. lock = h
    BY <1>2 DEF RequestsTypeOK, Custody
  <2>3. \A g \in Handler \ {h} : ~Locking(g)
    BY <2>2 DEF RequestsTypeOK, Custody
  <2> QED BY <1>2, <2>1, <2>2, <2>3, HandlerAssumption DEF RequestsTypeOK, Custody
<1>3. CASE QueueRetry(h)
  <2>1. CASE /\ QueueFileOp(handler[h].c, handler[h].r)
             /\ handler' = [handler EXCEPT ![h].at = "clear"]
             /\ UNCHANGED <<lock, budget>>
    <3>1. handler[h].r \in People /\ handler[h].c \in CandidateId
      BY <1>3, <1>0 DEF QueueRetry, People
    <3>2. /\ jobs' \in Seq(JobRow)
          /\ DOMAIN jobs \subseteq DOMAIN jobs'
          /\ \A j \in DOMAIN jobs' : jobs'[j].status = "RUNNING" <=>
               op.at # "idle" /\ op.job = j
      BY <2>1, <3>1, QueuedRunning
    <3>3. [handler[h] EXCEPT !.at = "clear"] \in HandlerRow
      BY <1>0, <1>3, OpenType DEF QueueRetry
    <3>4. handler' = [handler EXCEPT ![h] = [handler[h] EXCEPT !.at = "clear"]]
      BY <2>1
    <3>5. /\ handler' \in [Handler -> HandlerRow]
          /\ handler'[h] = [handler[h] EXCEPT !.at = "clear"]
          /\ \A g \in Handler \ {h} : handler'[g] = handler[g]
      BY <3>3, <3>4, HandlerMoves
    <3>6. [handler[h] EXCEPT !.at = "clear"].kind = handler[h].kind
      BY <1>0 DEF HandlerRow, NoHandler
    <3>7. \A g \in Handler : Locking(g)' <=> Locking(g)
      BY <3>5, <3>6 DEF Locking
    <3> QED BY <1>3, <2>1, <3>2, <3>5, <3>7 DEF QueueRetry, RequestsTypeOK, Custody
  <2>2. CASE /\ Spend("errors", MaxEnqueueErrors)
             /\ Close(h)
             /\ lock' = "free"
             /\ UNCHANGED jobs
    <3>1. /\ handler' \in [Handler -> HandlerRow]
          /\ \A g \in Handler : lock' = g <=> Locking(g)'
          /\ ~(lock = "job")
      BY <1>2, <1>3, <2>2 DEF QueueRetry, Close, Locking
    <3> QED BY <1>3, <2>2, <3>1 DEF QueueRetry, RequestsTypeOK, Custody
  <2> QED BY <1>3, <2>1, <2>2 DEF QueueRetry
<1>4. CASE ClearDeferral(h)
  <2>1. /\ handler' \in [Handler -> HandlerRow]
        /\ \A g \in Handler : lock' = g <=> Locking(g)'
        /\ ~(lock = "job")
    BY <1>2, <1>4 DEF ClearDeferral, Close, Locking
  <2>2. request' \in [Request -> RequestRow]
    <3> DEFINE r == handler[h].r
    <3>1. r \in Request
      BY <1>4, <1>0 DEF ClearDeferral
    <3>2. request[r] \in RequestRow
      BY <3>1 DEF RequestsTypeOK, Custody
    <3>3. [request[r] EXCEPT !.deferred = FALSE, !.error = FALSE] \in RequestRow
      BY <3>2 DEF RequestRow
    <3>4. \/ request' = request
          \/ request' = [request EXCEPT ![r] =
               [request[r] EXCEPT !.deferred = FALSE, !.error = FALSE]]
      BY <1>4, <3>1 DEF ClearDeferral, RequestsTypeOK, Custody
    <3> QED BY <3>1, <3>3, <3>4 DEF RequestsTypeOK, Custody
  <2> QED BY <1>4, <2>1, <2>2 DEF ClearDeferral, RequestsTypeOK, Custody
<1> QED BY <1>1, <1>3, <1>4

\* The operation is a record throughout.
LEMMA OverType ==
  ASSUME RequestsTypeOK, NEW result \in {"succeeded", "deferred", "failed", "raised"},
         Over(result)
  PROVE  /\ op' \in OpRow
         /\ op'.at = "over" /\ op'.result = result
         /\ op'.job = op.job /\ op'.linked = op.linked
BY DEF RequestsTypeOK, Custody, OpRow, Over

LEMMA OpMoves ==
  ASSUME RequestsTypeOK, op' \in OpRow, op'.job = op.job, op.at # "idle", op'.at # "idle",
         UNCHANGED <<jobs, handler>>,
         \/ /\ UNCHANGED lock
            /\ op.at \in {"locked", "deleting", "removed", "over"} <=>
                 op'.at \in {"locked", "deleting", "removed", "over"}
         \/ lock = "free" /\ lock' = "job" /\ op'.at = "locked"
         \/ lock = "job" /\ lock' = "free" /\ op'.at = "done"
  PROVE  Custody'
<1>1. \A h \in Handler : Locking(h)' <=> Locking(h)
  BY DEF Locking
<1>2. \A h \in Handler : lock' = h <=> lock = h
  BY HandlerAssumption
<1> QED BY <1>1, <1>2, HandlerAssumption DEF RequestsTypeOK, Custody

LEMMA FileOpType ==
  ASSUME RequestsTypeOK, FileOpStep PROVE RequestsTypeOK'
<1> USE DEF reviewVars, mediaVars, history
<1>1. CASE ClaimFileOp
  <2>1. PICK j \in DOMAIN jobs :
          /\ jobs[j].status = "PENDING"
          /\ jobs' = [jobs EXCEPT ![j].status = "RUNNING"]
          /\ op' = [NoOp EXCEPT !.at = "claimed", !.job = j]
    BY <1>1 DEF ClaimFileOp
  <2>2. /\ jobs' \in Seq(JobRow) /\ DOMAIN jobs' = DOMAIN jobs
        /\ jobs'[j].status = "RUNNING"
        /\ \A i \in DOMAIN jobs \ {j} : jobs'[i] = jobs[i]
    BY <2>1, MarkedTable
  <2>3. /\ op' \in OpRow /\ op'.at = "claimed" /\ op'.job = j
    <3>1. j \in Nat
      BY Tables
    <3>2. op' = [at |-> "claimed", job |-> j, linked |-> NoRequest, result |-> "none"]
      BY <2>1 DEF NoOp
    <3> QED BY <3>1, <3>2 DEF OpRow
  <2>4. op.at = "idle"
    BY <1>1 DEF ClaimFileOp
  <2>5. \A i \in DOMAIN jobs' : jobs'[i].status = "RUNNING" <=>
          op'.at # "idle" /\ op'.job = i
    BY <2>2, <2>3, <2>4 DEF RequestsTypeOK, Custody
  <2> QED BY <1>1, <2>2, <2>3, <2>4, <2>5 DEF ClaimFileOp, RequestsTypeOK, Custody, Locking
<1>2. CASE TakeLock
  <2>1. /\ op' \in OpRow /\ op'.job = op.job /\ op.at # "idle" /\ op'.at = "locked"
        /\ lock = "free" /\ lock' = "job" /\ UNCHANGED <<jobs, handler>>
    BY <1>2 DEF TakeLock, RequestsTypeOK, Custody, OpRow
  <2>2. Custody'
    BY <2>1, OpMoves
  <2> QED BY <1>2, <2>1, <2>2 DEF TakeLock, RequestsTypeOK, Custody
<1>3. CASE LoadCandidate
  <2> DEFINE c == jobs[op.job].c
             r == jobs[op.job].r
             linked == IF r = NoRequest THEN cands[c].r ELSE r
  <2>1. op.at = "locked" /\ op.job \in DOMAIN jobs /\ r \in People
    BY <1>3, Tables DEF LoadCandidate, RequestsTypeOK, Custody
  <2>2. CASE UNCHANGED cands /\ \E result \in {"succeeded", "raised"} : Over(result)
    <3>1. /\ op' \in OpRow /\ op'.job = op.job /\ op'.at = "over"
          /\ UNCHANGED <<jobs, handler, lock>>
      BY <1>3, <2>2, OverType DEF LoadCandidate
    <3>2. Custody'
      BY <2>1, <3>1, OpMoves
    <3> QED BY <1>3, <2>2, <3>1, <3>2 DEF LoadCandidate, RequestsTypeOK, Custody
  <2>3. CASE /\ Exists(c)
             /\ cands' = [cands EXCEPT ![c].r = linked]
             /\ \/ Over("failed")
                \/ op' = [op EXCEPT !.at = "deleting", !.linked = linked]
    <3>1. c \in DOMAIN cands /\ cands[c] \in CandidateRow /\ linked \in People
      BY <2>3, <2>1, Tables DEF Exists
    <3> HIDE DEF c, r, linked
    <3>2. /\ op' \in OpRow /\ op'.job = op.job /\ op'.at \in {"over", "deleting"}
      <4>1. CASE Over("failed")
        BY <4>1, OverType
      <4>2. CASE op' = [op EXCEPT !.at = "deleting", !.linked = linked]
        BY <4>2, <3>1 DEF RequestsTypeOK, Custody, OpRow, People
      <4> QED BY <2>3, <4>1, <4>2
    <3>3. UNCHANGED <<jobs, handler, lock>>
      BY <1>3 DEF LoadCandidate
    <3>4. Custody'
      BY <2>1, <3>2, <3>3, OpMoves
    <3>5. cands' \in Seq(CandidateRow) /\ Len(cands') <= MaxCandidates
      <4>1. [cands[c] EXCEPT !.r = linked] \in CandidateRow
        BY <3>1 DEF CandidateRow, People
      <4>2. cands' \in [1..Len(cands) -> CandidateRow]
        BY <2>3, <3>1, <4>1, Tables
      <4> DEFINE q == cands'
      <4>3. q \in [1..Len(cands) -> CandidateRow]
        BY <4>2
      <4> HIDE DEF q
      <4>4. q \in Seq(CandidateRow) /\ Len(q) = Len(cands)
        BY <4>3, Tables
      <4> QED BY <4>4 DEF q, RequestsTypeOK, Custody
    <3> QED BY <1>3, <3>2, <3>4, <3>5 DEF LoadCandidate, RequestsTypeOK, Custody
  <2> QED BY <1>3, <2>2, <2>3 DEF LoadCandidate
<1>4. CASE DeleteFiles
  <2> DEFINE c == jobs[op.job].c
  <2>1. /\ op.at = "deleting" /\ op.job \in DOMAIN jobs
        /\ UNCHANGED <<jobs, handler, lock>>
    BY <1>4 DEF DeleteFiles, RequestsTypeOK, Custody
  <2>2. /\ op' \in OpRow /\ op'.job = op.job /\ op'.at \in {"over", "removed"}
    <3>1. CASE \E result \in {"succeeded", "deferred", "failed", "raised"} : Over(result)
      BY <3>1, OverType
    <3>2. CASE op' = [op EXCEPT !.at = "removed"]
      BY <3>2 DEF RequestsTypeOK, OpRow
    <3> QED BY <1>4, <3>1, <3>2 DEF DeleteFiles
  <2>3. Custody'
    BY <2>1, <2>2, OpMoves
  <2>4. \/ UNCHANGED cands
        \/ \E b \in BOOLEAN : Exists(c) /\ cands' = [cands EXCEPT ![c].deferred = b]
    BY <1>4 DEF DeleteFiles
  <2> HIDE DEF c
  <2>5. cands' \in Seq(CandidateRow) /\ Len(cands') <= MaxCandidates
    <3>1. CASE UNCHANGED cands
      BY <3>1 DEF RequestsTypeOK
    <3>2. ASSUME NEW b \in BOOLEAN, Exists(c), cands' = [cands EXCEPT ![c].deferred = b]
          PROVE  cands' \in Seq(CandidateRow) /\ Len(cands') <= MaxCandidates
      <4>1. c \in DOMAIN cands /\ cands[c] \in CandidateRow
        BY <3>2, Tables DEF Exists
      <4>2. [cands[c] EXCEPT !.deferred = b] \in CandidateRow
        BY <4>1 DEF CandidateRow
      <4>3. cands' \in [1..Len(cands) -> CandidateRow]
        BY <3>2, <4>1, <4>2, Tables
      <4> DEFINE q == cands'
      <4>4. q \in [1..Len(cands) -> CandidateRow]
        BY <4>3
      <4> HIDE DEF q
      <4>5. q \in Seq(CandidateRow) /\ Len(q) = Len(cands)
        BY <4>4, Tables
      <4> QED BY <4>5 DEF q, RequestsTypeOK
    <3> QED BY <2>4, <3>1, <3>2
  <2>6. file' \subseteq Title
    BY <1>4 DEF DeleteFiles, RequestsTypeOK
  <2> QED BY <1>4, <2>2, <2>3, <2>5, <2>6 DEF DeleteFiles, RequestsTypeOK
<1>5. CASE RemoveCandidate
  <2>1. /\ op.at = "removed" /\ op.job \in DOMAIN jobs
        /\ UNCHANGED <<jobs, handler, lock>>
    BY <1>5 DEF RemoveCandidate, RequestsTypeOK, Custody
  <2>2. op' \in OpRow /\ op'.job = op.job /\ op'.at = "over"
    BY <1>5, OverType DEF RemoveCandidate
  <2>3. Custody'
    BY <2>1, <2>2, OpMoves
  <2>4. /\ cands' \in Seq(CandidateRow) /\ Len(cands') <= MaxCandidates
        /\ asked' \subseteq [title: Title, c: 0..MaxCandidates]
    <3>1. CASE DropCandidates({jobs[op.job].c}, asked)
      BY <3>1, DroppedTable
    <3>2. CASE UNCHANGED <<cands, asked>>
      BY <3>2 DEF RequestsTypeOK
    <3> QED BY <1>5, <3>1, <3>2 DEF RemoveCandidate
  <2> QED BY <1>5, <2>2, <2>3, <2>4 DEF RemoveCandidate, RequestsTypeOK
<1>6. CASE FinalizeDeleteRequest
  <2> DEFINE r == Finalized
             c == jobs[op.job].c
  <2>1. op.at = "over" /\ op.job \in DOMAIN jobs /\ lock = "job"
    BY <1>6 DEF FinalizeDeleteRequest, RequestsTypeOK, Custody
  <2>2. op' \in OpRow /\ op'.job = op.job /\ op'.at = "done"
    BY <1>6 DEF FinalizeDeleteRequest, RequestsTypeOK, OpRow
  <2>3. Custody'
    BY <1>6, <2>1, <2>2, OpMoves DEF FinalizeDeleteRequest
  <2>4. /\ cands' \in Seq(CandidateRow) /\ Len(cands') <= MaxCandidates
        /\ asked' \subseteq [title: Title, c: 0..MaxCandidates]
    <3>1. CASE DropCandidates({c}, asked)
      BY <3>1, DroppedTable
    <3>2. CASE UNCHANGED <<cands, asked>>
      BY <3>2 DEF RequestsTypeOK
    <3> QED BY <1>6, <3>1, <3>2 DEF FinalizeDeleteRequest
  <2>5. request' \in [Request -> RequestRow]
    <3>1. CASE UNCHANGED request
      BY <3>1 DEF RequestsTypeOK
    <3>2. CASE HasRow(r) /\ request' = [request EXCEPT ![r] = Outcome(r, c)]
      <4>1. r \in Request /\ request[r] \in RequestRow
        BY <3>2 DEF HasRow, RequestsTypeOK
      <4> HIDE DEF r, c
      <4>2. Outcome(r, c) \in RequestRow
        BY <4>1 DEF Outcome, RequestRow
      <4> QED BY <3>2, <4>1, <4>2 DEF RequestsTypeOK
    <3> QED BY <1>6, <3>1, <3>2 DEF FinalizeDeleteRequest
  <2> QED BY <1>6, <2>2, <2>3, <2>4, <2>5 DEF FinalizeDeleteRequest, RequestsTypeOK
<1>7. CASE CompleteFileOp
  <2>1. op.at = "done" /\ op.job \in DOMAIN jobs
    BY <1>7 DEF CompleteFileOp, RequestsTypeOK, Custody
  <2> DEFINE status == IF op.result = "raised" THEN "FAILED" ELSE "COMPLETED"
  <2>2. /\ status \in {"PENDING", "RUNNING", "COMPLETED", "FAILED"} /\ status # "RUNNING"
        /\ jobs' = [jobs EXCEPT ![op.job].status = status]
    BY <1>7 DEF CompleteFileOp
  <2> HIDE DEF status
  <2>3. /\ jobs' \in Seq(JobRow) /\ DOMAIN jobs' = DOMAIN jobs
        /\ jobs'[op.job].status # "RUNNING"
        /\ \A i \in DOMAIN jobs \ {op.job} : jobs'[i] = jobs[i]
    BY <2>1, <2>2, MarkedTable
  <2>4. op' \in OpRow /\ op'.at = "idle"
    BY <1>7 DEF CompleteFileOp, OpRow, NoOp
  <2>5. Custody'
    <3>1. \A h \in Handler : Locking(h)' <=> Locking(h)
      BY <1>7 DEF CompleteFileOp, Locking
    <3>2. \A i \in DOMAIN jobs' : jobs'[i].status # "RUNNING"
      BY <2>3 DEF RequestsTypeOK, Custody
    <3> QED BY <1>7, <2>1, <2>4, <3>1, <3>2 DEF CompleteFileOp, RequestsTypeOK, Custody
  <2> QED BY <1>7, <2>3, <2>4, <2>5 DEF CompleteFileOp, RequestsTypeOK
<1> QED BY <1>1, <1>2, <1>3, <1>4, <1>5, <1>6, <1>7 DEF FileOpStep

\* A restart fails the job that ran and empties the handlers.
LEMMA RestartTable ==
  ASSUME RequestsTypeOK, Restart
  PROVE  /\ jobs' \in Seq(JobRow) /\ DOMAIN jobs' = DOMAIN jobs
         /\ \A j \in DOMAIN jobs : /\ jobs'[j].c = jobs[j].c /\ jobs'[j].r = jobs[j].r
                                   /\ jobs'[j].status # "RUNNING"
                                   /\ Active(j)' <=> jobs[j].status = "PENDING"
         /\ \A h \in Handler : handler'[h] = NoHandler
         /\ op' = NoOp
<1>1. Len(jobs) \in Nat /\ DOMAIN jobs = 1..Len(jobs)
  BY Tables
<1>2. \A j \in 1..Len(jobs) : jobs[j] \in JobRow
  BY Tables
<1>3. \A row \in JobRow : [row EXCEPT !.status = "FAILED"] \in JobRow
  BY DEF JobRow
<1>4. jobs' = [j \in 1..Len(jobs) |->
                IF jobs[j].status = "RUNNING"
                THEN [jobs[j] EXCEPT !.status = "FAILED"] ELSE jobs[j]]
  BY <1>1 DEF Restart
<1> DEFINE q == jobs'
<1>5. q \in [1..Len(jobs) -> JobRow]
  BY <1>2, <1>3, <1>4
<1> HIDE DEF q
<1>6. q \in Seq(JobRow)
  BY <1>5, <1>1
<1>7. \A j \in DOMAIN jobs : /\ jobs'[j].c = jobs[j].c /\ jobs'[j].r = jobs[j].r
                             /\ jobs'[j].status # "RUNNING"
                             /\ Active(j)' <=> jobs[j].status = "PENDING"
  BY <1>1, <1>2, <1>4 DEF JobRow, Active
<1> QED BY <1>1, <1>4, <1>6, <1>7 DEF Restart, q

LEMMA RestartType ==
  ASSUME RequestsTypeOK, Restart PROVE RequestsTypeOK'
<1> USE DEF reviewVars, mediaVars, history
<1>1. /\ jobs' \in Seq(JobRow)
      /\ \A j \in DOMAIN jobs' : jobs'[j].status # "RUNNING"
      /\ \A h \in Handler : handler'[h] = NoHandler
      /\ op' = NoOp
  BY RestartTable
<1>2. handler' \in [Handler -> HandlerRow] /\ \A h \in Handler : ~Locking(h)'
  BY <1>1, OpenType DEF Restart, Locking, NoHandler
<1>3. op' \in OpRow /\ op'.at = "idle"
  BY <1>1 DEF OpRow, NoOp
<1>4. Custody'
  BY <1>1, <1>2, <1>3, HandlerAssumption DEF Restart, Custody
<1>5. lost' \subseteq Request
  <2>1. \A j \in DOMAIN jobs : jobs[j].r \in People
    BY Tables
  <2>2. \A h \in Handler : handler[h].r \in People
    BY HandlerFacts DEF RequestsTypeOK
  <2> QED BY <2>1, <2>2 DEF Restart, CutShort, RequestsTypeOK, People
<1> QED BY <1>1, <1>2, <1>3, <1>4, <1>5 DEF Restart, RequestsTypeOK

LEMMA InitType == RequestsInit => RequestsTypeOK
<1> SUFFICES ASSUME RequestsInit PROVE RequestsTypeOK
  OBVIOUS
<1>1. request \in [Request -> RequestRow]
  BY DEF RequestsInit, RequestRow, Statuses, Blank
<1>2. handler \in [Handler -> HandlerRow] /\ \A h \in Handler : ~Locking(h)
  BY OpenType DEF RequestsInit, Locking, NoHandler
<1>3. op \in OpRow /\ op.at = "idle"
  BY DEF RequestsInit, OpRow, NoOp
<1>4. Custody
  BY <1>2, <1>3, HandlerAssumption DEF Custody, RequestsInit
<1>5. cands \in Seq(CandidateRow) /\ Len(cands) = 0 /\ jobs \in Seq(JobRow)
  BY DEF RequestsInit
<1> QED BY <1>1, <1>2, <1>3, <1>4, <1>5, BoundsAssumption DEF RequestsInit, RequestsTypeOK

LEMMA StepType == RequestsTypeOK /\ [RequestsNext]_requestVars => RequestsTypeOK'
<1> SUFFICES ASSUME RequestsTypeOK, [RequestsNext]_requestVars PROVE RequestsTypeOK'
  OBVIOUS
<1>1. CASE UNCHANGED requestVars
  BY <1>1 DEF requestVars, reviewVars, mediaVars, history, RequestsTypeOK, Custody, Locking
<1>2. CASE RequestsNext
  BY <1>2, SurroundingsType, ReviewType, RetryType, FileOpType, RestartType
  DEF RequestsNext, HandlerStep
<1> QED BY <1>1, <1>2

(***************************************************************************)
(* The tables keep their types, and candidate_workflow_lock has one holder *)
(* whatever the handlers, the operation and the restarts do: the retry     *)
(* that works under it, or the operation from its first look to its last   *)
(* commit.                                                                 *)
(***************************************************************************)
THEOREM RequestsTypeCorrect == RequestsSpec => []RequestsTypeOK
<1>1. QED BY InitType, StepType, PTL DEF RequestsSpec

-----------------------------------------------------------------------------
(***************************************************************************)
(* Approved requests are carried.                                          *)
(***************************************************************************)
Queueing(h, r) == handler[h].at = "queue" /\ handler[h].r = r
Carrying(j, r) == Active(j) /\ jobs[j].r = r

\* A job that has finalized its request carries it no more.
Carried(r) ==
  \/ Resolved(r)
  \/ \E j \in DOMAIN jobs : Carrying(j, r) /\ ~(op.at = "done" /\ op.job = j)
  \/ \E h \in Handler : Queueing(h, r)
  \/ r \in lost

\* While a retry waits to queue its job, what it retries stays deferred, or is
\* gone; while it waits to clear the deferral, the job it queued has not looked
\* at the request yet.
RetryWaits(h) ==
  /\ handler[h].at = "queue" =>
       request[handler[h].r].deferred \/ request[handler[h].r].status = "gone"
  /\ handler[h].at = "clear" =>
       \E j \in DOMAIN jobs :
         Carrying(j, handler[h].r) /\ (op.job = j => op.at \in {"idle", "claimed"})

CarriedInv ==
  /\ \A r \in Request : request[r].status = "APPROVED" => Carried(r)
  /\ \A h \in Handler : Locking(h) => RetryWaits(h)

\* The requests, the carriers and the operation are as they were.
LEMMA CarriedFrame ==
  ASSUME CarriedInv, UNCHANGED <<request, lost, jobs, handler, op>> PROVE CarriedInv'
BY DEF CarriedInv, Carried, RetryWaits, Carrying, Queueing, Resolved, Locking, Active

\* A step that lets jobs and handlers go on carrying what they carry.
LEMMA CarriersGoOn ==
  ASSUME RequestsTypeOK, CarriedInv, UNCHANGED op,
         DOMAIN jobs \subseteq DOMAIN jobs',
         \A j \in DOMAIN jobs : jobs'[j] = jobs[j]
  PROVE  \A r \in Request :
           (\E j \in DOMAIN jobs : Carrying(j, r) /\ ~(op.at = "done" /\ op.job = j))
           => (\E j \in DOMAIN jobs' : /\ Carrying(j, r)'
                                       /\ ~(op'.at = "done" /\ op'.job = j))
BY DEF Carrying, Active

\* The queue gains job n, for candidate c and request r, and the operation is not on it.
JobAdded(n, c, r) ==
  /\ n \notin DOMAIN jobs
  /\ DOMAIN jobs' = DOMAIN jobs \cup {n}
  /\ \A j \in DOMAIN jobs : jobs'[j] = jobs[j]
  /\ jobs'[n].r = r /\ jobs'[n].c = c /\ jobs'[n].status = "PENDING"
  /\ ~(op'.at # "idle" /\ op'.job = n)

\* A new job carries its request, and is not the operation's.
LEMMA QueuedCarrier ==
  ASSUME RequestsTypeOK, UNCHANGED op, NEW c \in CandidateId, NEW r \in People,
         QueueFileOp(c, r)
  PROVE  \E n \in Nat : JobAdded(n, c, r)
<1>1. PICK n : n = Len(jobs) + 1
  OBVIOUS
<1>2. n \in Nat
  BY <1>1, Tables
<1>3. /\ DOMAIN jobs' = DOMAIN jobs \cup {n}
      /\ n \notin DOMAIN jobs
      /\ jobs'[n] = [c |-> c, r |-> r, status |-> "PENDING"]
      /\ \A j \in DOMAIN jobs : jobs'[j] = jobs[j]
  BY <1>1, QueuedTable
<1>4. jobs'[n].r = r /\ jobs'[n].c = c /\ jobs'[n].status = "PENDING"
  BY <1>3
<1>5. ~(op'.at # "idle" /\ op'.job = n)
  BY <1>3 DEF RequestsTypeOK, Custody
<1>6. JobAdded(n, c, r)
  BY <1>3, <1>4, <1>5 DEF JobAdded
<1> QED BY <1>2, <1>6

\* ... also when a handler queues it.
LEMMA QueuedByHandler ==
  ASSUME RequestsTypeOK, UNCHANGED op, NEW h \in Handler, handler[h].at = "queue",
         QueueFileOp(handler[h].c, handler[h].r)
  PROVE  \E n \in Nat : JobAdded(n, handler[h].c, handler[h].r)
<1>1. handler[h].c \in CandidateId /\ handler[h].r \in People
  BY HandlerFacts DEF RequestsTypeOK
<1> QED BY <1>1, QueuedCarrier

LEMMA CarriedSurroundings ==
  ASSUME RequestsTypeOK, CarriedInv,
         \/ \E r \in Request : CreateDeleteRequest(r)
         \/ \E c \in CandidateId : DeleteCandidate(c) \/ ScanDrops(c)
         \/ \E t \in Title : \/ ScanAdds(t)
                             \/ RequestProtection(t) \/ AutoApproveProtection(t)
                             \/ EndProtection(t)
         \/ \E ask \in asked : ApproveProtection(ask)
  PROVE  CarriedInv'
<1>1. ASSUME NEW r \in Request, CreateDeleteRequest(r) PROVE CarriedInv'
  <2>1. /\ UNCHANGED <<lost, jobs, handler, op>>
        /\ \A q \in Request \ {r} : request'[q] = request[q]
        /\ request'[r].status = "PENDING" /\ request[r].status = "absent"
        /\ request'[r].deferred = request[r].deferred
    BY <1>1 DEF CreateDeleteRequest, RequestsTypeOK, RequestRow, history
  <2>2. \A h \in Handler : Locking(h) => handler[h].r \in Request
    BY HandlerFacts DEF Locking, RequestsTypeOK
  <2> QED BY <2>1, <2>2
      DEF CarriedInv, Carried, RetryWaits, Carrying, Queueing, Resolved, Locking, Active
<1>2. ASSUME NEW c \in CandidateId, DeleteCandidate(c) PROVE CarriedInv'
  <2>1. /\ UNCHANGED <<request, lost, handler, op>>
        /\ DOMAIN jobs \subseteq DOMAIN jobs'
        /\ \A j \in DOMAIN jobs : jobs'[j] = jobs[j]
    BY <1>2, QueuedTable DEF DeleteCandidate, reviewVars, history, People
  <2> QED BY <2>1
      DEF CarriedInv, Carried, RetryWaits, Carrying, Queueing, Resolved, Locking, Active
<1>3. CASE UNCHANGED <<request, lost, jobs, handler, op>>
  BY <1>3, CarriedFrame
<1> QED BY <1>1, <1>2, <1>3 DEF ScanDrops, ScanAdds, RequestProtection,
      AutoApproveProtection, EndProtection, ApproveProtection, reviewVars, history

LEMMA CarriedReview ==
  ASSUME RequestsTypeOK, CarriedInv, NEW h \in Handler,
         \/ \E r \in Request, kind \in {"approve", "deny", "cancel"} :
              Review(h, kind, r)
         \/ CommitApproval(h) \/ QueueApproval(h) \/ CommitDenial(h)
         \/ CommitCancel(h) \/ ReviewFails(h)
  PROVE  CarriedInv'
<1> DEFINE r == handler[h].r
<1>0. /\ \A g \in Handler : Locking(g) => handler[g].r \in Request
      /\ handler[h].kind # "none" => r \in Request
  BY HandlerFacts DEF Locking, RequestsTypeOK
<1>1. ASSUME NEW q \in Request, NEW kind \in {"approve", "deny", "cancel"},
             Review(h, kind, q)
      PROVE  CarriedInv'
  <2>1. /\ UNCHANGED <<request, lost, jobs, op>>
        /\ \A g \in Handler \ {h} : handler'[g] = handler[g]
        /\ handler[h].at = "idle" /\ handler'[h].at = "read" /\ handler'[h].kind # "retry"
    BY <1>1 DEF Review, Open, NoHandler, RequestsTypeOK, reviewVars, history
  <2> QED BY <2>1
      DEF CarriedInv, Carried, RetryWaits, Carrying, Queueing, Resolved, Locking, Active
<1>2. CASE CommitApproval(h)
  <2>1. /\ UNCHANGED <<lost, jobs, op>> /\ r \in Request
        /\ \A g \in Handler \ {h} : handler'[g] = handler[g]
        /\ handler[h].at = "read" /\ handler'[h].at = "queue" /\ handler'[h].r = r
        /\ handler'[h].kind # "retry"
        /\ \A q \in Request \ {r} : request'[q] = request[q]
        /\ request'[r].deferred = request[r].deferred /\ request[r].status # "gone"
    BY <1>2, <1>0 DEF CommitApproval, HasRow, Open, RequestsTypeOK, RequestRow
  <2> HIDE DEF r
  <2> QED BY <2>1, <1>0
      DEF CarriedInv, Carried, RetryWaits, Carrying, Queueing, Resolved, Locking, Active
<1>3. CASE QueueApproval(h)
  <2>1. /\ UNCHANGED <<request, op>> /\ r \in Request
        /\ \A g \in Handler \ {h} : handler'[g] = handler[g]
        /\ handler'[h].kind # "retry" /\ handler'[h].at # "queue"
    BY <1>3, <1>0 DEF QueueApproval, Close, NoHandler, RequestsTypeOK
  <2>2. CASE QueueFileOp(handler[h].c, r) /\ UNCHANGED lost
    <3>1. handler[h].at = "queue" /\ UNCHANGED op /\ QueueFileOp(handler[h].c, handler[h].r)
      BY <1>3, <2>1, <2>2 DEF QueueApproval
    <3>n. PICK n \in Nat : JobAdded(n, handler[h].c, r)
      BY <3>1, QueuedByHandler
    <3>2. /\ n \notin DOMAIN jobs
          /\ DOMAIN jobs' = DOMAIN jobs \cup {n}
          /\ \A j \in DOMAIN jobs : jobs'[j] = jobs[j]
          /\ jobs'[n].r = r /\ jobs'[n].c = handler[h].c
          /\ jobs'[n].status = "PENDING"
          /\ ~(op'.at # "idle" /\ op'.job = n)
      BY <3>n DEF JobAdded
    <3> HIDE DEF r
    <3>3. ASSUME NEW q \in Request, request'[q].status = "APPROVED"
          PROVE  Carried(q)'
      <4>1. CASE q = r
        BY <4>1, <3>2 DEF Carried, Carrying, Active
      <4>2. CASE q # r
        <5>1. Carried(q) /\ \A g \in Handler : Queueing(g, q) => g # h
          BY <4>2, <3>3, <2>1 DEF CarriedInv, Queueing, r
        <5> QED BY <5>1, <3>2, <2>1, <2>2 DEF Carried, Queueing, Carrying, Active, Resolved
      <4> QED BY <4>1, <4>2
    <3>4. ASSUME NEW g \in Handler, Locking(g)' PROVE RetryWaits(g)'
      BY <3>4, <3>2, <2>1 DEF CarriedInv, RetryWaits, Locking, Carrying, Active
    <3> QED BY <3>3, <3>4 DEF CarriedInv
  <2>3. CASE UNCHANGED jobs /\ lost' = lost \cup {r}
    <3> HIDE DEF r
    <3> QED BY <2>1, <2>3, <1>3
      DEF CarriedInv, Carried, RetryWaits, Carrying, Queueing, Resolved, Locking, Active, r
  <2> QED BY <1>3, <2>2, <2>3 DEF QueueApproval
<1>4. CASE CommitDenial(h) \/ CommitCancel(h)
  <2>1. /\ UNCHANGED <<lost, jobs, op>> /\ r \in Request
        /\ \A g \in Handler \ {h} : handler'[g] = handler[g]
        /\ handler[h].at = "read"
        /\ handler'[h].kind # "retry" /\ handler'[h].at # "queue"
        /\ \A q \in Request \ {r} : request'[q] = request[q]
        /\ request[r].status # "gone" /\ request'[r].status # "APPROVED"
        /\ request'[r].deferred = request[r].deferred \/ request'[r].status = "gone"
    <3>1. handler[h].at = "read"
      BY <1>4, HandlerFacts DEF CommitDenial, CommitCancel, RequestsTypeOK
    <3> QED BY <1>4, <1>0, <3>1 DEF CommitDenial, CommitCancel, Close, NoHandler, HasRow,
          Blank, RequestsTypeOK, RequestRow, history
  <2> HIDE DEF r
  <2> QED BY <2>1, <1>0
      DEF CarriedInv, Carried, RetryWaits, Carrying, Queueing, Resolved, Locking, Active
<1>5. CASE ReviewFails(h)
  <2>1. /\ UNCHANGED <<request, lost, jobs, op>>
        /\ \A g \in Handler \ {h} : handler'[g] = handler[g]
        /\ handler[h].at = "read" /\ handler'[h].kind # "retry" /\ handler'[h].at # "queue"
    BY <1>5 DEF ReviewFails, Close, NoHandler, RequestsTypeOK, reviewVars, history
  <2> QED BY <2>1
      DEF CarriedInv, Carried, RetryWaits, Carrying, Queueing, Resolved, Locking, Active
<1> QED BY <1>1, <1>2, <1>3, <1>4, <1>5

\* Only one retry is under way, the one that holds the lock.
LEMMA OneRetry ==
  ASSUME RequestsTypeOK, NEW h \in Handler, Locking(h)
  PROVE  \A g \in Handler \ {h} : ~Locking(g)
BY DEF RequestsTypeOK, Custody

LEMMA CarriedRetry ==
  ASSUME RequestsTypeOK, CarriedInv, NEW h \in Handler,
         \/ \E r \in Request : CheckRetry(h, r)
         \/ QueueRetry(h) \/ ClearDeferral(h)
  PROVE  CarriedInv'
<1>0. /\ \A g \in Handler : Locking(g) => handler[g].r \in Request
      /\ Locking(h) => handler[h].c \in CandidateId
  BY HandlerFacts DEF Locking, RequestsTypeOK
<1>1. ASSUME NEW r \in Request, CheckRetry(h, r) PROVE CarriedInv'
  <2>1. /\ UNCHANGED <<request, lost, jobs, op>>
        /\ \A g \in Handler \ {h} : handler'[g] = handler[g]
        /\ handler[h].at = "idle" /\ handler'[h].at = "queue" /\ handler'[h].r = r
        /\ request[r].deferred
    BY <1>1 DEF CheckRetry, Retryable, Open, NoHandler, RequestsTypeOK
  <2> QED BY <2>1
      DEF CarriedInv, Carried, RetryWaits, Carrying, Queueing, Resolved, Locking, Active
<1>2. CASE QueueRetry(h)
  <2>1. PICK r \in Request : r = handler[h].r
    BY <1>2, <1>0 DEF QueueRetry, Locking
  <2>2. /\ UNCHANGED <<request, lost, op>> /\ Locking(h) /\ handler[h].at = "queue"
        /\ \A g \in Handler \ {h} : ~Locking(g) /\ handler'[g] = handler[g]
        /\ handler[h].at = "queue" /\ handler'[h].at # "queue"
    BY <1>2, OneRetry
    DEF QueueRetry, Close, NoHandler, RequestsTypeOK, Locking, reviewVars, history, HandlerRow
  <2>3. request[r].deferred \/ request[r].status = "gone"
    BY <2>1, <2>2 DEF CarriedInv, RetryWaits
  <2>4. CASE QueueFileOp(handler[h].c, handler[h].r)
    <3>1. UNCHANGED op /\ handler[h].at = "queue"
      BY <2>2 DEF Queueing
    <3>n. PICK n \in Nat : JobAdded(n, handler[h].c, handler[h].r)
      BY <2>4, <3>1, QueuedByHandler
    <3>2. /\ n \notin DOMAIN jobs
          /\ DOMAIN jobs' = DOMAIN jobs \cup {n}
          /\ \A j \in DOMAIN jobs : jobs'[j] = jobs[j]
          /\ jobs'[n].r = handler[h].r /\ jobs'[n].c = handler[h].c
          /\ jobs'[n].status = "PENDING"
          /\ ~(op'.at # "idle" /\ op'.job = n)
      BY <3>n DEF JobAdded
    <3>3. ASSUME NEW q \in Request, request'[q].status = "APPROVED"
          PROVE  Carried(q)'
      <4>1. CASE q = r
        BY <4>1, <3>2, <2>1 DEF Carried, Carrying, Active
      <4>2. CASE q # r
        <5>1. Carried(q) /\ \A g \in Handler : Queueing(g, q) => g # h
          BY <4>2, <3>3, <2>1, <2>2 DEF CarriedInv, Queueing
        <5> QED BY <5>1, <3>2, <2>2 DEF Carried, Queueing, Carrying, Active, Resolved
      <4> QED BY <4>1, <4>2
    <3>4. ASSUME NEW g \in Handler, Locking(g)' PROVE RetryWaits(g)'
      <4>1. g = h
        BY <3>4, <2>2 DEF Locking
      <4>2. handler'[h].r = r
        BY <1>2, <2>1, <2>2, <3>4, <4>1, HandlerFacts
        DEF QueueRetry, Close, NoHandler, Locking, RequestsTypeOK, HandlerRow
      <4>3. n \in DOMAIN jobs' /\ jobs'[n].r = r /\ jobs'[n].status = "PENDING"
            /\ (op'.job = n => op'.at = "idle")
        BY <3>2, <2>1
      <4> QED BY <4>1, <4>2, <4>3, <2>2 DEF RetryWaits, Carrying, Active
    <3> QED BY <3>3, <3>4 DEF CarriedInv
  <2>5. CASE UNCHANGED jobs /\ Close(h)
    <3>1. ~Locking(h)'
      BY <2>5 DEF Close, Locking, NoHandler, RequestsTypeOK
    <3> QED BY <2>1, <2>2, <2>3, <2>5, <3>1
        DEF CarriedInv, Carried, Carrying, Queueing, Resolved, Locking, Active
  <2> QED BY <1>2, <2>4, <2>5 DEF QueueRetry
<1>3. CASE ClearDeferral(h)
  <2>1. PICK r \in Request : r = handler[h].r
    BY <1>3, <1>0 DEF ClearDeferral, Locking
  <2>2. /\ UNCHANGED <<lost, jobs, op>> /\ Locking(h) /\ handler[h].at = "clear"
        /\ \A g \in Handler \ {h} : ~Locking(g) /\ handler'[g] = handler[g]
        /\ ~Locking(h)'
        /\ \A q \in Request \ {r} : request'[q] = request[q]
    BY <1>3, <2>1, OneRetry
    DEF ClearDeferral, Close, NoHandler, RequestsTypeOK, Locking, history
  <2>3. PICK j \in DOMAIN jobs :
          Carrying(j, r) /\ (op.job = j => op.at \in {"idle", "claimed"})
    BY <2>1, <2>2 DEF CarriedInv, RetryWaits
  <2>4. ASSUME NEW q \in Request, request'[q].status = "APPROVED"
        PROVE  Carried(q)'
    <3>1. CASE q = r
      BY <3>1, <2>3, <2>2 DEF Carried, Carrying, Active
    <3>2. CASE q # r
      BY <3>2, <2>1, <2>2, <2>4
      DEF CarriedInv, Carried, Queueing, Carrying, Active, Resolved
    <3> QED BY <3>1, <3>2
  <2>5. \A g \in Handler : ~Locking(g)'
    BY <2>2 DEF Locking
  <2> QED BY <2>4, <2>5 DEF CarriedInv
<1> QED BY <1>1, <1>2, <1>3

\* The operation works while no retry does, and finalizes the request before it
\* lets go of it.
LEMMA CarriedFileOp ==
  ASSUME RequestsTypeOK, CarriedInv, FileOpStep PROVE CarriedInv'
<1>0. \A g \in Handler : Locking(g) => handler[g].r \in Request
  BY HandlerFacts DEF Locking, RequestsTypeOK
<1>1. CASE ClaimFileOp
  <2>1. PICK j \in DOMAIN jobs :
          /\ jobs[j].status = "PENDING"
          /\ jobs' = [jobs EXCEPT ![j].status = "RUNNING"]
          /\ op' = [NoOp EXCEPT !.at = "claimed", !.job = j]
    BY <1>1 DEF ClaimFileOp
  <2>2. /\ DOMAIN jobs' = DOMAIN jobs /\ jobs'[j].status = "RUNNING"
        /\ \A i \in DOMAIN jobs : jobs'[i].r = jobs[i].r
        /\ \A i \in DOMAIN jobs \ {j} : jobs'[i] = jobs[i]
    BY <2>1, MarkedTable
  <2>3. /\ UNCHANGED <<request, lost, handler>> /\ op'.at = "claimed"
    BY <1>1, <2>1 DEF ClaimFileOp, NoOp, reviewVars, history
  <2> QED BY <2>1, <2>2, <2>3
      DEF CarriedInv, Carried, RetryWaits, Carrying, Queueing, Resolved, Locking, Active
<1>2. CASE TakeLock \/ LoadCandidate \/ DeleteFiles \/ RemoveCandidate
  <2>1. /\ UNCHANGED <<request, lost, jobs, handler>>
        /\ op'.at # "done" /\ op.at # "done"
    BY <1>2 DEF TakeLock, LoadCandidate, DeleteFiles, RemoveCandidate, Over, RequestsTypeOK,
                OpRow, reviewVars, history
  <2>2. \A g \in Handler : lock # g
    BY <1>2, HandlerAssumption
    DEF TakeLock, LoadCandidate, DeleteFiles, RemoveCandidate, RequestsTypeOK, Custody
  <2>3. \A g \in Handler : ~Locking(g) /\ ~Locking(g)'
    BY <2>1, <2>2 DEF RequestsTypeOK, Custody, Locking
  <2> QED BY <2>1, <2>3
      DEF CarriedInv, Carried, Carrying, Queueing, Resolved, Active
<1>3. CASE FinalizeDeleteRequest
  <2> DEFINE r == Finalized
  <2>1. /\ UNCHANGED <<lost, jobs, handler>>
        /\ op.at = "over" /\ op'.job = op.job /\ op.job \in DOMAIN jobs
    BY <1>3 DEF FinalizeDeleteRequest, RequestsTypeOK, Custody, OpRow, history
  <2>2. \A g \in Handler : ~Locking(g)'
    BY <2>1, HandlerAssumption DEF RequestsTypeOK, Custody, Locking
  <2>3. \A q \in Request : q # r \/ ~HasRow(q) => request'[q] = request[q]
    BY <1>3 DEF FinalizeDeleteRequest, RequestsTypeOK, HasRow
  <2>4. ASSUME NEW q \in Request, q = r, HasRow(q)
        PROVE  Resolved(q)'
    <3>1. request' = [request EXCEPT ![q] = Outcome(q, jobs[op.job].c)]
      BY <1>3, <2>4 DEF FinalizeDeleteRequest
    <3>2. PICK out : out = Outcome(q, jobs[op.job].c)
      OBVIOUS
    <3>3. out.executed \/ out.error \/ out.deferred
      <4>1. request[q] \in RequestRow
        BY DEF RequestsTypeOK
      <4> QED BY <4>1, <3>2 DEF Outcome, RequestRow
    <3>4. request'[q] = out
      BY <3>1, <3>2 DEF RequestsTypeOK
    <3> QED BY <3>3, <3>4 DEF Resolved
  <2>5. ASSUME NEW q \in Request, request'[q].status = "APPROVED"
        PROVE  Carried(q)'
    <3>1. CASE q = r /\ HasRow(q)
      BY <3>1, <2>4 DEF Carried
    <3>2. CASE ~(q = r /\ HasRow(q))
      <4>1. request'[q] = request[q]
        BY <3>2, <2>3
      <4>2. Carried(q) /\ HasRow(q)
        BY <4>1, <2>5 DEF CarriedInv, HasRow
      <4>3. jobs[op.job].r # q
        BY <4>2, <3>2, RequestAssumption DEF Finalized
      <4> QED BY <4>1, <4>2, <4>3, <2>1 DEF Carried, Carrying, Queueing, Resolved, Active
    <3> QED BY <3>1, <3>2
  <2> QED BY <2>2, <2>5 DEF CarriedInv
<1>4. CASE CompleteFileOp
  <2>1. /\ UNCHANGED <<request, lost, handler>> /\ op.at = "done" /\ op.job \in DOMAIN jobs
        /\ op'.at = "idle"
    BY <1>4 DEF CompleteFileOp, RequestsTypeOK, Custody, NoOp, reviewVars, history
  <2>2. \A i \in DOMAIN jobs \ {op.job} : i \in DOMAIN jobs' /\ jobs'[i] = jobs[i]
    BY <1>4, <2>1, Tables DEF CompleteFileOp
  <2> QED BY <2>1, <2>2
      DEF CarriedInv, Carried, RetryWaits, Carrying, Queueing, Resolved, Locking, Active
<1> QED BY <1>1, <1>2, <1>3, <1>4 DEF FileOpStep

LEMMA CarriedRestart ==
  ASSUME RequestsTypeOK, CarriedInv, Restart PROVE CarriedInv'
<1>1. /\ DOMAIN jobs' = DOMAIN jobs
      /\ \A j \in DOMAIN jobs : /\ jobs'[j].r = jobs[j].r
                                /\ Active(j)' <=> jobs[j].status = "PENDING"
      /\ \A h \in Handler : handler'[h] = NoHandler
      /\ op' = NoOp /\ UNCHANGED request
  BY RestartTable DEF Restart
<1>2. \A h \in Handler : ~Locking(h)'
  BY <1>1 DEF Locking, NoHandler
<1>3. ASSUME NEW q \in Request, request'[q].status = "APPROVED" PROVE Carried(q)'
  <2>1. Carried(q) /\ request[q].status = "APPROVED"
    BY <1>1, <1>3 DEF CarriedInv
  <2>2. CASE Resolved(q) \/ q \in lost
    BY <2>2, <1>1 DEF Carried, Resolved, Restart
  <2>3. ASSUME NEW j \in DOMAIN jobs, Carrying(j, q) PROVE Carried(q)'
    <3>1. CASE jobs[j].status = "PENDING"
      BY <3>1, <2>3, <1>1 DEF Carried, Carrying, NoOp
    <3>2. CASE jobs[j].status = "RUNNING"
      BY <3>2, <2>3, RequestAssumption DEF Carried, Carrying, Restart, CutShort
    <3> QED BY <2>3, <3>1, <3>2 DEF Carrying, Active
  <2>4. ASSUME NEW h \in Handler, Queueing(h, q) PROVE Carried(q)'
    <3>1. CASE handler[h].kind = "approve"
      BY <3>1, <2>4, RequestAssumption DEF Carried, Queueing, Restart, CutShort
    <3>2. CASE handler[h].kind = "retry"
      BY <3>2, <2>4, <2>1, <1>1
      DEF Carried, CarriedInv, RetryWaits, Locking, Queueing, Resolved
    <3> QED BY <2>4, <3>1, <3>2, HandlerFacts DEF Queueing, RequestsTypeOK
  <2> QED BY <2>1, <2>2, <2>3, <2>4 DEF Carried
<1> QED BY <1>2, <1>3 DEF CarriedInv

LEMMA StepCarried ==
  RequestsTypeOK /\ CarriedInv /\ [RequestsNext]_requestVars => CarriedInv'
<1> SUFFICES ASSUME RequestsTypeOK, CarriedInv, [RequestsNext]_requestVars
             PROVE  CarriedInv'
  OBVIOUS
<1>1. CASE UNCHANGED requestVars
  BY <1>1, CarriedFrame DEF requestVars, reviewVars, history
<1>2. CASE RequestsNext
  BY <1>2, CarriedSurroundings, CarriedReview, CarriedRetry, CarriedFileOp, CarriedRestart
  DEF RequestsNext, HandlerStep
<1> QED BY <1>1, <1>2

LEMMA InitCarried == RequestsInit => CarriedInv
BY DEF RequestsInit, CarriedInv, Blank, Locking, NoHandler

-----------------------------------------------------------------------------
(***************************************************************************)
(* ... and by one.                                                         *)
(***************************************************************************)
Uncarried(r) ==
  /\ \A j \in DOMAIN jobs : ~Carrying(j, r)
  /\ \A h \in Handler : ~Queueing(h, r)

OneCarrier(r) ==
  /\ \A j, k \in DOMAIN jobs : Carrying(j, r) /\ Carrying(k, r) => j = k
  /\ \A g, h \in Handler : Queueing(g, r) /\ Queueing(h, r) => g = h
  /\ \A j \in DOMAIN jobs, h \in Handler : ~(Carrying(j, r) /\ Queueing(h, r))

OneCarrierInv ==
  \A r \in Request \ (twice \cup crossed) :
    /\ OneCarrier(r)
    /\ request[r].status \in {"absent", "PENDING"} => Uncarried(r)

\* The carriers of r are among those it had, and it is not to be decided anew.
Fewer(r) ==
  /\ \A j \in DOMAIN jobs' : jobs'[j].status \in {"PENDING", "RUNNING"} /\ jobs'[j].r = r
       => j \in DOMAIN jobs /\ Carrying(j, r)
  /\ \A h \in Handler : handler'[h].at = "queue" /\ handler'[h].r = r => Queueing(h, r)
  /\ request'[r].status \in {"absent", "PENDING"} =>
       request[r].status \in {"absent", "PENDING"}

LEMMA FewerCarriers ==
  ASSUME OneCarrierInv, NEW r \in Request \ (twice' \cup crossed'),
         r \notin twice \cup crossed, Fewer(r)
  PROVE  /\ OneCarrier(r)'
         /\ request'[r].status \in {"absent", "PENDING"} => Uncarried(r)'
BY DEF OneCarrierInv, Fewer, OneCarrier, Uncarried, Carrying, Queueing, Active

LEMMA OneSurroundings ==
  ASSUME RequestsTypeOK, OneCarrierInv,
         \/ \E r \in Request : CreateDeleteRequest(r)
         \/ \E c \in CandidateId : DeleteCandidate(c) \/ ScanDrops(c)
         \/ \E t \in Title : \/ ScanAdds(t)
                             \/ RequestProtection(t) \/ AutoApproveProtection(t)
                             \/ EndProtection(t)
         \/ \E ask \in asked : ApproveProtection(ask)
  PROVE  OneCarrierInv'
<1>1. UNCHANGED <<handler, twice, crossed>>
  BY DEF CreateDeleteRequest, DeleteCandidate, ScanDrops, ScanAdds, RequestProtection,
         AutoApproveProtection, EndProtection, ApproveProtection, reviewVars, history
<1>2. \A r \in Request : Fewer(r)
  <2>1. ASSUME NEW q \in Request, CreateDeleteRequest(q) PROVE \A r \in Request : Fewer(r)
    BY <2>1, <1>1 DEF CreateDeleteRequest, Fewer, Carrying, Queueing, Active, RequestsTypeOK
  <2>2. ASSUME NEW c \in CandidateId, DeleteCandidate(c)
        PROVE  \A r \in Request : Fewer(r)
    <3>1. UNCHANGED op /\ QueueFileOp(c, NoRequest) /\ NoRequest \in People
      BY <2>2 DEF DeleteCandidate, People
    <3>n. PICK n \in Nat : JobAdded(n, c, NoRequest)
      BY <3>1, QueuedCarrier
    <3>2. /\ n \notin DOMAIN jobs
          /\ DOMAIN jobs' = DOMAIN jobs \cup {n}
          /\ \A j \in DOMAIN jobs : jobs'[j] = jobs[j]
          /\ jobs'[n].r = NoRequest /\ jobs'[n].c = c
          /\ jobs'[n].status = "PENDING"
          /\ ~(op'.at # "idle" /\ op'.job = n)
      BY <3>n DEF JobAdded
    <3> QED BY <2>2, <3>2, <1>1, RequestAssumption
        DEF DeleteCandidate, Fewer, Carrying, Queueing, Active, reviewVars
  <2>3. CASE UNCHANGED <<request, jobs, handler>>
    BY <2>3 DEF Fewer, Carrying, Queueing, Active
  <2> QED BY <2>1, <2>2, <2>3 DEF ScanDrops, ScanAdds, RequestProtection,
        AutoApproveProtection, EndProtection, ApproveProtection, reviewVars
<1> QED BY <1>1, <1>2, FewerCarriers DEF OneCarrierInv

LEMMA OneReview ==
  ASSUME RequestsTypeOK, OneCarrierInv, NEW h \in Handler,
         \/ \E r \in Request, kind \in {"approve", "deny", "cancel"} :
              Review(h, kind, r)
         \/ CommitApproval(h) \/ QueueApproval(h) \/ CommitDenial(h)
         \/ CommitCancel(h) \/ ReviewFails(h)
  PROVE  OneCarrierInv'
<1>0. handler[h].kind # "none" => handler[h].r \in Request
  BY HandlerFacts DEF RequestsTypeOK
<1> SUFFICES ASSUME NEW q \in Request \ (twice' \cup crossed')
             PROVE  /\ OneCarrier(q)'
                    /\ request'[q].status \in {"absent", "PENDING"} => Uncarried(q)'
  BY DEF OneCarrierInv
<1>t. q \notin twice \cup crossed
  BY DEF Review, CommitApproval, QueueApproval, CommitDenial, CommitCancel, ReviewFails,
         Decide, reviewVars, history
<1>1. ASSUME NEW r \in Request, NEW kind \in {"approve", "deny", "cancel"},
             Review(h, kind, r)
      PROVE  Fewer(q)
  BY <1>1 DEF Review, Open, NoHandler, RequestsTypeOK, Fewer, Carrying, Queueing, Active,
              reviewVars
<1>2. ASSUME CommitApproval(h)
      PROVE  /\ OneCarrier(q)'
             /\ request'[q].status \in {"absent", "PENDING"} => Uncarried(q)'
  <2>1. PICK r \in Request : r = handler[h].r
    BY <1>2, <1>0 DEF CommitApproval
  <2>2. /\ UNCHANGED jobs
        /\ \A g \in Handler \ {h} : handler'[g] = handler[g]
        /\ handler[h].at = "read" /\ handler'[h].at = "queue" /\ handler'[h].r = r
        /\ \A p \in Request \ {r} : request'[p] = request[p]
        /\ request'[r].status = "APPROVED"
    BY <1>2, <2>1 DEF CommitApproval, Open, RequestsTypeOK, RequestRow
  <2>3. CASE q = r
    <3>1. request[q].status = "PENDING"
      BY <1>2, <2>1, <2>3 DEF CommitApproval, Decide
    <3>2. Uncarried(q)
      BY <3>1, <1>t DEF OneCarrierInv
    <3> QED BY <3>2, <2>2, <2>3 DEF OneCarrier, Uncarried, Carrying, Queueing, Active
  <2>4. CASE q # r
    <3>1. Fewer(q)
      BY <2>4, <2>2 DEF Fewer, Carrying, Queueing, Active
    <3> QED BY <3>1, <1>t, FewerCarriers
  <2> QED BY <2>3, <2>4
<1>3. ASSUME QueueApproval(h)
      PROVE  /\ OneCarrier(q)'
             /\ request'[q].status \in {"absent", "PENDING"} => Uncarried(q)'
  <2>1. PICK r \in Request : r = handler[h].r
    BY <1>3, <1>0 DEF QueueApproval
  <2>2. /\ UNCHANGED <<request, op>> /\ Queueing(h, r)
        /\ \A g \in Handler \ {h} : handler'[g] = handler[g]
        /\ handler'[h].at # "queue"
    BY <1>3, <2>1 DEF QueueApproval, Close, NoHandler, RequestsTypeOK, Queueing
  <2>3. CASE UNCHANGED jobs
    <3>1. Fewer(q)
      BY <2>2, <2>3 DEF Fewer, Carrying, Queueing, Active
    <3> QED BY <3>1, <1>t, FewerCarriers
  <2>4. CASE QueueFileOp(handler[h].c, handler[h].r)
    <3>1. UNCHANGED op /\ handler[h].at = "queue"
      BY <2>2 DEF Queueing
    <3>n. PICK n \in Nat : JobAdded(n, handler[h].c, handler[h].r)
      BY <2>4, <3>1, QueuedByHandler
    <3>2. /\ n \notin DOMAIN jobs
          /\ DOMAIN jobs' = DOMAIN jobs \cup {n}
          /\ \A j \in DOMAIN jobs : jobs'[j] = jobs[j]
          /\ jobs'[n].r = handler[h].r /\ jobs'[n].c = handler[h].c
          /\ jobs'[n].status = "PENDING"
          /\ ~(op'.at # "idle" /\ op'.job = n)
      BY <3>n DEF JobAdded
    <3>3. CASE q = r
      <4>1. OneCarrier(q) /\ Queueing(h, q) /\ ~(request[q].status \in {"absent", "PENDING"})
        BY <3>3, <2>2, <1>t DEF OneCarrierInv, Uncarried
      <4>2. (\A j \in DOMAIN jobs : ~Carrying(j, q)) /\ \A g \in Handler \ {h} : ~Queueing(g, q)
        BY <4>1 DEF OneCarrier
      <4> QED BY <4>1, <4>2, <3>2, <2>2 DEF OneCarrier, Carrying, Queueing, Active
    <3>4. CASE q # r
      <4>1. Fewer(q)
        BY <3>4, <3>2, <2>1, <2>2 DEF Fewer, Carrying, Queueing, Active
      <4> QED BY <4>1, <1>t, FewerCarriers
    <3> QED BY <3>3, <3>4
  <2> QED BY <1>3, <2>3, <2>4 DEF QueueApproval
<1>4. ASSUME CommitDenial(h) \/ CommitCancel(h) PROVE Fewer(q)
  <2>1. PICK r \in Request : r = handler[h].r
    BY <1>4, <1>0 DEF CommitDenial, CommitCancel
  <2>2. /\ UNCHANGED <<jobs, op>>
        /\ \A g \in Handler \ {h} : handler'[g] = handler[g]
        /\ handler'[h].at # "queue"
        /\ \A p \in Request \ {r} : request'[p] = request[p]
        /\ request'[r].status \notin {"absent", "PENDING"}
    BY <1>4, <2>1 DEF CommitDenial, CommitCancel, Close, NoHandler, Blank, RequestsTypeOK,
          RequestRow
  <2> QED BY <2>2 DEF Fewer, Carrying, Queueing, Active
<1>5. ASSUME ReviewFails(h) PROVE Fewer(q)
  BY <1>5 DEF ReviewFails, Close, NoHandler, RequestsTypeOK, reviewVars, Fewer, Carrying,
              Queueing, Active
<1> QED BY <1>1, <1>2, <1>3, <1>4, <1>5, <1>t, FewerCarriers

LEMMA OneRetryCarries ==
  ASSUME RequestsTypeOK, OneCarrierInv, NEW h \in Handler,
         \/ \E r \in Request : CheckRetry(h, r)
         \/ QueueRetry(h) \/ ClearDeferral(h)
  PROVE  OneCarrierInv'
<1>0. Locking(h) => handler[h].r \in Request /\ handler[h].c \in CandidateId
  BY HandlerFacts DEF RequestsTypeOK, Locking
<1> SUFFICES ASSUME NEW q \in Request \ (twice' \cup crossed')
             PROVE  /\ OneCarrier(q)'
                    /\ request'[q].status \in {"absent", "PENDING"} => Uncarried(q)'
  BY DEF OneCarrierInv
<1>t. q \notin twice \cup crossed
  BY DEF CheckRetry, QueueRetry, ClearDeferral, reviewVars, history
<1>1. ASSUME NEW r \in Request, CheckRetry(h, r)
      PROVE  /\ OneCarrier(q)'
             /\ request'[q].status \in {"absent", "PENDING"} => Uncarried(q)'
  <2>1. /\ UNCHANGED <<request, jobs>>
        /\ \A g \in Handler \ {h} : handler'[g] = handler[g]
        /\ handler[h].at = "idle" /\ handler'[h].at = "queue" /\ handler'[h].r = r
        /\ request[r].status = "APPROVED"
    BY <1>1 DEF CheckRetry, Retryable, Open, NoHandler, RequestsTypeOK
  <2>2. CASE q = r
    <3>1. /\ \A j \in DOMAIN jobs : ~Carrying(j, q)
          /\ \A g \in Handler : ~Queueing(g, q)
      BY <1>1, <2>2 DEF CheckRetry, Retryable, QueuedFor, Carrying, Queueing
    <3> QED BY <3>1, <2>1, <2>2 DEF OneCarrier, Carrying, Queueing, Active
  <2>3. CASE q # r
    <3>1. Fewer(q)
      BY <2>3, <2>1 DEF Fewer, Carrying, Queueing, Active
    <3> QED BY <3>1, <1>t, FewerCarriers
  <2> QED BY <2>2, <2>3
<1>2. ASSUME QueueRetry(h)
      PROVE  /\ OneCarrier(q)'
             /\ request'[q].status \in {"absent", "PENDING"} => Uncarried(q)'
  <2>1. PICK r \in Request : r = handler[h].r
    BY <1>2, <1>0 DEF QueueRetry, Locking
  <2>2. /\ UNCHANGED <<request, op>> /\ Queueing(h, r)
        /\ \A g \in Handler \ {h} : handler'[g] = handler[g]
        /\ handler'[h].at # "queue"
    BY <1>2, <2>1
    DEF QueueRetry, Close, NoHandler, RequestsTypeOK, Queueing, reviewVars, HandlerRow
  <2>3. CASE UNCHANGED jobs
    <3>1. Fewer(q)
      BY <2>2, <2>3 DEF Fewer, Carrying, Queueing, Active
    <3> QED BY <3>1, <1>t, FewerCarriers
  <2>4. CASE QueueFileOp(handler[h].c, handler[h].r)
    <3>1. UNCHANGED op /\ handler[h].at = "queue"
      BY <2>2 DEF Queueing
    <3>n. PICK n \in Nat : JobAdded(n, handler[h].c, handler[h].r)
      BY <2>4, <3>1, QueuedByHandler
    <3>2. /\ n \notin DOMAIN jobs
          /\ DOMAIN jobs' = DOMAIN jobs \cup {n}
          /\ \A j \in DOMAIN jobs : jobs'[j] = jobs[j]
          /\ jobs'[n].r = handler[h].r /\ jobs'[n].c = handler[h].c
          /\ jobs'[n].status = "PENDING"
          /\ ~(op'.at # "idle" /\ op'.job = n)
      BY <3>n DEF JobAdded
    <3>3. CASE q = r
      <4>1. OneCarrier(q) /\ Queueing(h, q) /\ ~(request[q].status \in {"absent", "PENDING"})
        BY <3>3, <2>2, <1>t DEF OneCarrierInv, Uncarried
      <4>2. (\A j \in DOMAIN jobs : ~Carrying(j, q)) /\ \A g \in Handler \ {h} : ~Queueing(g, q)
        BY <4>1 DEF OneCarrier
      <4> QED BY <4>1, <4>2, <3>2, <2>2 DEF OneCarrier, Carrying, Queueing, Active
    <3>4. CASE q # r
      <4>1. Fewer(q)
        BY <3>4, <3>2, <2>1, <2>2 DEF Fewer, Carrying, Queueing, Active
      <4> QED BY <4>1, <1>t, FewerCarriers
    <3> QED BY <3>3, <3>4
  <2> QED BY <1>2, <2>3, <2>4 DEF QueueRetry
<1>3. ASSUME ClearDeferral(h) PROVE Fewer(q)
  <2>1. /\ UNCHANGED jobs
        /\ \A g \in Handler \ {h} : handler'[g] = handler[g]
        /\ handler'[h].at # "queue"
    BY <1>3 DEF ClearDeferral, Close, NoHandler, RequestsTypeOK
  <2>2. request'[q].status = request[q].status
    BY <1>3 DEF ClearDeferral, RequestsTypeOK, RequestRow
  <2> QED BY <2>1, <2>2 DEF Fewer, Carrying, Queueing, Active
<1> QED BY <1>1, <1>2, <1>3, <1>t, FewerCarriers

LEMMA OneFileOp ==
  ASSUME RequestsTypeOK, OneCarrierInv, FileOpStep \/ Restart PROVE OneCarrierInv'
<1>1. UNCHANGED <<twice, crossed>>
  BY DEF FileOpStep, ClaimFileOp, TakeLock, LoadCandidate, DeleteFiles, RemoveCandidate,
         FinalizeDeleteRequest, CompleteFileOp, Restart, reviewVars, history
<1>2. \A r \in Request : request'[r].status = request[r].status
  <2>1. CASE UNCHANGED request
    BY <2>1
  <2>2. CASE FinalizeDeleteRequest
    <3>1. \A r \in Request : request[r] \in RequestRow
      BY DEF RequestsTypeOK
    <3>2. ASSUME NEW r \in Request, NEW c PROVE Outcome(r, c).status = request[r].status
      BY <3>1 DEF Outcome, RequestRow
    <3>3. PICK r, c : request' = [request EXCEPT ![r] = Outcome(r, c)] \/ request' = request
      BY <2>2 DEF FinalizeDeleteRequest
    <3>4. ASSUME NEW q \in Request PROVE request'[q].status = request[q].status
      <4>1. CASE q = r
        BY <4>1, <3>2, <3>3 DEF RequestsTypeOK
      <4>2. CASE q # r
        BY <4>2, <3>3 DEF RequestsTypeOK
      <4> QED BY <4>1, <4>2
    <3> QED BY <3>4
  <2> QED BY <2>1, <2>2 DEF FileOpStep, ClaimFileOp, TakeLock, LoadCandidate, DeleteFiles,
        RemoveCandidate, CompleteFileOp, Restart, reviewVars
<1>3. \A h \in Handler : handler'[h] = handler[h] \/ handler'[h].at = "idle"
  <2>1. CASE Restart
    BY <2>1, RestartTable DEF NoHandler
  <2>2. CASE UNCHANGED handler
    BY <2>2
  <2> QED BY <2>1, <2>2 DEF FileOpStep, ClaimFileOp, TakeLock, LoadCandidate, DeleteFiles,
        RemoveCandidate, FinalizeDeleteRequest, CompleteFileOp
<1>4. \A j \in DOMAIN jobs' : jobs'[j].status \in {"PENDING", "RUNNING"} =>
        j \in DOMAIN jobs /\ Active(j) /\ jobs'[j].r = jobs[j].r
  <2>1. CASE UNCHANGED jobs
    BY <2>1 DEF Active
  <2>2. CASE ClaimFileOp
    <3>1. PICK j \in DOMAIN jobs :
            /\ jobs[j].status = "PENDING"
            /\ jobs' = [jobs EXCEPT ![j].status = "RUNNING"]
      BY <2>2 DEF ClaimFileOp
    <3> QED BY <3>1, MarkedTable DEF Active
  <2>3. CASE CompleteFileOp
    <3>1. op.job \in DOMAIN jobs
      BY <2>3 DEF CompleteFileOp, RequestsTypeOK, Custody
    <3>2. PICK status \in {"FAILED", "COMPLETED"} :
            jobs' = [jobs EXCEPT ![op.job].status = status]
      BY <2>3 DEF CompleteFileOp
    <3> QED BY <3>1, <3>2, MarkedTable DEF Active
  <2>4. CASE Restart
    BY <2>4, RestartTable DEF Active
  <2> QED BY <2>1, <2>2, <2>3, <2>4 DEF FileOpStep, TakeLock, LoadCandidate, DeleteFiles,
        RemoveCandidate, FinalizeDeleteRequest
<1>5. \A r \in Request : Fewer(r)
  BY <1>2, <1>3, <1>4 DEF Fewer, Carrying, Queueing
<1> QED BY <1>1, <1>5, FewerCarriers DEF OneCarrierInv

LEMMA StepOneCarrier ==
  RequestsTypeOK /\ OneCarrierInv /\ [RequestsNext]_requestVars => OneCarrierInv'
<1> SUFFICES ASSUME RequestsTypeOK, OneCarrierInv, [RequestsNext]_requestVars
             PROVE  OneCarrierInv'
  OBVIOUS
<1>1. CASE UNCHANGED requestVars
  BY <1>1 DEF requestVars, reviewVars, history, OneCarrierInv, OneCarrier, Uncarried,
              Carrying, Queueing, Active
<1>2. CASE RequestsNext
  BY <1>2, OneSurroundings, OneReview, OneRetryCarries, OneFileOp
  DEF RequestsNext, HandlerStep
<1> QED BY <1>1, <1>2

LEMMA InitOneCarrier == RequestsInit => OneCarrierInv
BY DEF RequestsInit, OneCarrierInv, OneCarrier, Uncarried, Queueing, NoHandler

(***************************************************************************)
(* However many reviewers, retries, manual deletions, protections and      *)
(* restarts there are, an approved request is never forgotten and never    *)
(* worked on by two jobs, outside the histories the invariant names.       *)
(***************************************************************************)
THEOREM CarriesApproved == RequestsSpec => []ApprovedIsCarried
<1>1. RequestsTypeOK /\ CarriedInv /\ OneCarrierInv => ApprovedIsCarried
  BY DEF CarriedInv, OneCarrierInv, ApprovedIsCarried, OneActiveJob, OneCarrier, Carried,
         Carrying, Queueing, QueuedFor
<1> QED BY <1>1, RequestsTypeCorrect, InitCarried, StepCarried, InitOneCarrier,
      StepOneCarrier, PTL DEF RequestsSpec

-----------------------------------------------------------------------------
(***************************************************************************)
(* The outcome.  What may still settle a request names its candidate: the  *)
(* candidate itself, a job, a handler about to queue one, the operation.   *)
(***************************************************************************)
Names(r, c) ==
  \/ c \in DOMAIN cands /\ cands[c].exists /\ cands[c].r = r
  \/ \E j \in DOMAIN jobs : Active(j) /\ jobs[j].r = r /\ jobs[j].c = c
  \/ \E h \in Handler : handler[h].at = "queue" /\ handler[h].r = r /\ handler[h].c = c
  \/ AtFiles /\ op.linked = r /\ jobs[op.job].c = c

\* The request that the operation is to finalize.
Owner == IF jobs[op.job].r # NoRequest THEN jobs[op.job].r ELSE op.linked

OneOutcome(r) ==
  /\ request[r].executed => ~request[r].error /\ ~request[r].deferred
  /\ request[r].error => ~request[r].deferred
  /\ Resolved(r) => request[r].status = "APPROVED"

OneName(r) ==
  /\ \A c, d \in CandidateId : Names(r, c) /\ Names(r, d) => c = d
  /\ request[r].status \in {"absent", "PENDING", "DENIED"} =>
       \A c \in CandidateId : ~Names(r, c)
  /\ request[r].executed => \A c \in CandidateId : Names(r, c) => ~Exists(c)

\* What the operation found out holds until it is written down.
Unspoiled(r) ==
  /\ \/ op.at = "removed"
     \/ op.at = "over" /\ op.result # "succeeded"
     => (Owner = r => ~request[r].executed)
  /\ op.at = "over" /\ op.result = "succeeded" /\ Owner = r => ~Exists(jobs[op.job].c)

Settled(r) == OneOutcome(r) /\ OneName(r) /\ Unspoiled(r)

SettledInv ==
  /\ \A r \in Request \ (twice \cup reused) : Settled(r)
  /\ op.at \in {"idle", "claimed", "locked"} => op.linked = NoRequest

\* Nothing is named that was not, and no name came to exist.
NoNewName(r) ==
  \A c \in CandidateId :
    /\ Names(r, c)' => Names(r, c)
    /\ Names(r, c)' /\ Exists(c)' => Exists(c)

\* The operation names its candidate to the request it is to finalize.
LEMMA OwnerNames ==
  ASSUME RequestsTypeOK, AtFiles, NEW r \in Request, Owner = r
  PROVE  Names(r, jobs[op.job].c) /\ jobs[op.job].c \in CandidateId
<1>1. op.job \in DOMAIN jobs /\ jobs[op.job].status = "RUNNING"
  BY DEF RequestsTypeOK, Custody, AtFiles
<1>2. jobs[op.job].c \in CandidateId
  BY <1>1, Tables
<1> QED BY <1>1, <1>2 DEF Names, Owner, Active

LEMMA SettledKept ==
  ASSUME RequestsTypeOK, RequestsTypeOK', NEW r \in Request, Settled(r),
         request'[r] = request[r], UNCHANGED op,
         NoNewName(r), AtFiles => jobs'[op.job] = jobs[op.job]
  PROVE  Settled(r)'
<1>1. OneOutcome(r)'
  BY DEF Settled, OneOutcome, Resolved
<1>2. OneName(r)'
  BY DEF Settled, OneName, NoNewName
<1>3. Unspoiled(r)'
  <2>1. AtFiles /\ Owner = r => /\ Names(r, jobs[op.job].c)
                               /\ jobs[op.job].c \in CandidateId
    BY OwnerNames
  <2>2. ASSUME AtFiles, Owner' = r, Exists(jobs[op.job].c)' PROVE Exists(jobs[op.job].c)
    <3>1. PICK c \in CandidateId : c = jobs[op.job].c /\ c = jobs'[op'.job].c
      BY <2>1, <2>2 DEF Owner
    <3>2. Owner = r /\ AtFiles'
      BY <2>2 DEF Owner, AtFiles
    <3>3. op'.job \in DOMAIN jobs' /\ jobs'[op'.job].status = "RUNNING"
      BY <3>2 DEF RequestsTypeOK, Custody, AtFiles
    <3>4. Names(r, c)'
      BY <3>1, <3>2, <3>3, <2>2 DEF Names, Owner, Active
    <3>5. Exists(c)'
      BY <2>2, <3>1
    <3> QED BY <3>1, <3>4, <3>5 DEF NoNewName
  <2>3. AtFiles => (Owner' = r <=> Owner = r)
    BY DEF Owner
  <2> QED BY <2>2, <2>3 DEF Settled, Unspoiled, AtFiles
<1> QED BY <1>1, <1>2, <1>3 DEF Settled

\* An id is given out: whoever named it is told.
LEMMA GivenOut ==
  ASSUME RequestsTypeOK, NEW t \in Title, NEW p \in People, NextId <= MaxCandidates,
         cands' = NewCandidate(t, p), GiveOut(NextId), UNCHANGED <<jobs, op>>,
         NEW r \in Request, r # p, r \notin reused',
         \A h \in Handler : handler'[h] = handler[h] \/ handler'[h].r = p
  PROVE  NoNewName(r)
<1>1. PICK n \in CandidateId : n = NextId /\ ~Exists(n)
  BY NextIdIsFree, Tables, BoundsAssumption DEF CandidateId
<1>2. /\ DOMAIN cands' = DOMAIN cands \cup {n}
      /\ cands'[n] = [title |-> t, r |-> p, exists |-> TRUE, deferred |-> FALSE]
      /\ \A c \in DOMAIN cands \ {n} : cands'[c] = cands[c]
  BY <1>1, NewCandidateTable
<1>3. r \notin Pursued(n)
  BY <1>1, RequestAssumption DEF GiveOut
<1>4. ~Names(r, n)
  BY <1>1, <1>3 DEF Names, Pursued, Exists
<1>5. \A c \in CandidateId : Names(r, c)' => Names(r, c)
  BY <1>2 DEF Names, Active, AtFiles
<1>6. \A c \in CandidateId : Exists(c)' /\ c # n => Exists(c)
  BY <1>2 DEF Exists
<1> QED BY <1>4, <1>5, <1>6 DEF NoNewName

\* Candidates go.
LEMMA DroppedNames ==
  ASSUME RequestsTypeOK, NEW S, NEW asks \in SUBSET asked, DropCandidates(S, asks),
         UNCHANGED <<jobs, handler, op>>, NEW r \in Request
  PROVE  NoNewName(r)
<1>1. /\ DOMAIN cands' = DOMAIN cands
      /\ \A c \in S \cap DOMAIN cands : ~cands'[c].exists
      /\ \A c \in DOMAIN cands \ S : cands'[c] = cands[c]
  BY DroppedTable
<1> QED BY <1>1 DEF NoNewName, Names, Exists, Active, AtFiles

LEMMA SettledSurroundings ==
  ASSUME RequestsTypeOK, RequestsTypeOK', SettledInv,
         \/ \E r \in Request : CreateDeleteRequest(r)
         \/ \E c \in CandidateId : DeleteCandidate(c) \/ ScanDrops(c)
         \/ \E t \in Title : \/ ScanAdds(t)
                             \/ RequestProtection(t) \/ AutoApproveProtection(t)
                             \/ EndProtection(t)
         \/ \E ask \in asked : ApproveProtection(ask)
  PROVE  SettledInv'
<1>0. /\ UNCHANGED op /\ UNCHANGED handler /\ UNCHANGED twice
      /\ reused \subseteq reused'
  BY DEF CreateDeleteRequest, DeleteCandidate, ScanDrops, ScanAdds, RequestProtection,
         AutoApproveProtection, EndProtection, ApproveProtection, GiveOut, reviewVars, history
<1> SUFFICES ASSUME NEW r \in Request \ (twice' \cup reused') PROVE Settled(r)'
  BY <1>0 DEF SettledInv
<1>s. Settled(r)
  BY <1>0 DEF SettledInv
<1>1. ASSUME NEW q \in Request, CreateDeleteRequest(q) PROVE Settled(r)'
  <2>1. UNCHANGED <<cands, jobs>>
    BY <1>1 DEF CreateDeleteRequest
  <2>2. NoNewName(r)
    BY <2>1, <1>0 DEF NoNewName, Names, Exists, Active, AtFiles
  <2>3. CASE q # r
    <3>1. request'[r] = request[r]
      BY <1>1, <2>3 DEF CreateDeleteRequest, RequestsTypeOK
    <3> QED BY <3>1, <2>1, <2>2, <1>0, <1>s, SettledKept
  <2>4. CASE q = r
    <3>1. /\ request[r].status = "absent" /\ request'[r].status = "PENDING"
          /\ request'[r].executed = request[r].executed
          /\ request'[r].error = request[r].error
          /\ request'[r].deferred = request[r].deferred
      BY <1>1, <2>4 DEF CreateDeleteRequest, RequestsTypeOK, RequestRow
    <3>2. ~Resolved(r) /\ \A c \in CandidateId : ~Names(r, c)
      BY <3>1, <1>s DEF Settled, OneOutcome, OneName
    <3>3. OneOutcome(r)'
      BY <3>1, <3>2 DEF OneOutcome, Resolved
    <3>4. OneName(r)'
      BY <3>1, <3>2, <2>2 DEF OneName, NoNewName, Resolved
    <3>5. Unspoiled(r)'
      BY <3>1, <1>s, <2>1, <1>0 DEF Settled, Unspoiled, Owner, Exists
    <3> QED BY <3>3, <3>4, <3>5 DEF Settled
  <2> QED BY <2>3, <2>4
<1>2. ASSUME NEW c \in CandidateId, DeleteCandidate(c) PROVE Settled(r)'
  <2>1. PICK p \in People : UNCHANGED op /\ QueueFileOp(c, p) /\ p # r
    BY <1>2, RequestAssumption DEF DeleteCandidate, People
  <2>n. PICK n \in Nat : JobAdded(n, c, p)
    BY <2>1, QueuedCarrier
  <2>2. /\ n \notin DOMAIN jobs
        /\ DOMAIN jobs' = DOMAIN jobs \cup {n}
        /\ \A j \in DOMAIN jobs : jobs'[j] = jobs[j]
        /\ jobs'[n].r = p /\ jobs'[n].c = c
        /\ jobs'[n].status = "PENDING"
        /\ ~(op'.at # "idle" /\ op'.job = n)
    BY <2>n DEF JobAdded
  <2>3. AtFiles => jobs'[op.job] = jobs[op.job]
    BY <2>2 DEF AtFiles, RequestsTypeOK, Custody
  <2>4. request'[r] = request[r] /\ UNCHANGED cands
    BY <1>2 DEF DeleteCandidate, reviewVars
  <2>5. NoNewName(r)
    BY <2>1, <2>2, <2>3, <2>4, <1>0 DEF NoNewName, Names, Exists, Active, AtFiles
  <2> QED BY <2>3, <2>4, <2>5, <1>0, <1>s, SettledKept
<1>3. ASSUME UNCHANGED request, UNCHANGED jobs, NoNewName(r) PROVE Settled(r)'
  <2>1. request'[r] = request[r] /\ (AtFiles => jobs'[op.job] = jobs[op.job])
    BY <1>3
  <2> QED BY <2>1, <1>3, <1>0, <1>s, SettledKept
<1>4. ASSUME NEW c \in CandidateId, ScanDrops(c) PROVE Settled(r)'
  <2>1. UNCHANGED <<request, jobs, handler, op>> /\ DropCandidates({c}, asked)
    BY <1>4 DEF ScanDrops
  <2> QED BY <2>1, DroppedNames, <1>3
<1>5. ASSUME NEW t \in Title, ScanAdds(t) PROVE Settled(r)'
  <2>1. /\ UNCHANGED <<request, jobs, handler, op>> /\ NextId <= MaxCandidates
        /\ cands' = NewCandidate(t, NoRequest) /\ GiveOut(NextId)
    BY <1>5 DEF ScanAdds
  <2>2. NoRequest \in People /\ r # NoRequest
    BY RequestAssumption DEF People
  <2> QED BY <2>1, <2>2, GivenOut, <1>3
<1>6. ASSUME NEW t \in Title, AutoApproveProtection(t) PROVE Settled(r)'
  <2>1. UNCHANGED <<request, jobs, handler, op>> /\ DropCandidates(CandidatesOf(t), asked)
    BY <1>6 DEF AutoApproveProtection
  <2> QED BY <2>1, DroppedNames, <1>3
<1>7. ASSUME NEW ask \in asked, ApproveProtection(ask) PROVE Settled(r)'
  <2>1. UNCHANGED <<request, jobs, handler, op>>
        /\ DropCandidates({ask.c}, asked \ {ask}) /\ asked \ {ask} \in SUBSET asked
    BY <1>7 DEF ApproveProtection
  <2> QED BY <2>1, DroppedNames, <1>3
<1>8. CASE UNCHANGED <<request, cands, jobs>>
  <2>1. NoNewName(r)
    BY <1>8, <1>0 DEF NoNewName, Names, Exists, Active, AtFiles
  <2> QED BY <2>1, <1>8, <1>3
<1> QED BY <1>1, <1>2, <1>4, <1>5, <1>6, <1>7, <1>8
    DEF RequestProtection, EndProtection, reviewVars

\* A handler that queues its job hands its candidate on.
LEMMA HandedOn ==
  ASSUME RequestsTypeOK, UNCHANGED <<op, cands>>, NEW h \in Handler,
         handler[h].at = "queue", handler'[h].at # "queue",
         \A g \in Handler \ {h} : handler'[g] = handler[g],
         \/ UNCHANGED jobs
         \/ QueueFileOp(handler[h].c, handler[h].r),
         NEW r \in Request
  PROVE  NoNewName(r) /\ (AtFiles => jobs'[op.job] = jobs[op.job])
<1>1. CASE UNCHANGED jobs
  BY <1>1 DEF NoNewName, Names, Exists, Active, AtFiles
<1>2. CASE QueueFileOp(handler[h].c, handler[h].r)
  <2>n. PICK n \in Nat : JobAdded(n, handler[h].c, handler[h].r)
    BY <1>2, QueuedByHandler
  <2>1. /\ n \notin DOMAIN jobs
        /\ DOMAIN jobs' = DOMAIN jobs \cup {n}
        /\ \A j \in DOMAIN jobs : jobs'[j] = jobs[j]
        /\ jobs'[n].r = handler[h].r /\ jobs'[n].c = handler[h].c
        /\ jobs'[n].status = "PENDING"
        /\ ~(op'.at # "idle" /\ op'.job = n)
    BY <2>n DEF JobAdded
  <2>2. AtFiles => jobs'[op.job] = jobs[op.job]
    BY <2>1 DEF AtFiles, RequestsTypeOK, Custody
  <2>3. NoNewName(r)
    BY <2>1, <2>2 DEF NoNewName, Names, Exists, Active, AtFiles
  <2> QED BY <2>2, <2>3
<1> QED BY <1>1, <1>2

LEMMA SettledReview ==
  ASSUME RequestsTypeOK, RequestsTypeOK', SettledInv, NEW h \in Handler,
         \/ \E r \in Request, kind \in {"approve", "deny", "cancel"} :
              Review(h, kind, r)
         \/ CommitApproval(h) \/ QueueApproval(h) \/ CommitDenial(h)
         \/ CommitCancel(h) \/ ReviewFails(h)
  PROVE  SettledInv'
<1>0. /\ UNCHANGED op
      /\ twice \subseteq twice' /\ reused \subseteq reused'
  BY DEF Review, CommitApproval, QueueApproval, CommitDenial, CommitCancel, ReviewFails,
         GiveOut, Decide, reviewVars, history
<1>h. handler[h].kind # "none" => handler[h].r \in Request
  BY HandlerFacts DEF RequestsTypeOK
<1> SUFFICES ASSUME NEW r \in Request \ (twice' \cup reused') PROVE Settled(r)'
  BY <1>0 DEF SettledInv
<1>s. Settled(r)
  BY <1>0 DEF SettledInv
<1>1. ASSUME NEW q \in Request, NEW kind \in {"approve", "deny", "cancel"},
             Review(h, kind, q)
      PROVE  Settled(r)'
  <2>1. /\ UNCHANGED <<request, cands, jobs>> /\ handler'[h].at # "queue"
        /\ \A g \in Handler \ {h} : handler'[g] = handler[g]
    BY <1>1 DEF Review, Open, RequestsTypeOK, reviewVars
  <2>2. NoNewName(r)
    BY <2>1, <1>0 DEF NoNewName, Names, Exists, Active, AtFiles
  <2>3. request'[r] = request[r] /\ (AtFiles => jobs'[op.job] = jobs[op.job])
    BY <2>1
  <2> QED BY <2>2, <2>3, <1>0, <1>s, SettledKept
<1>2. CASE CommitApproval(h)
  <2>1. PICK p \in Request : p = handler[h].r
    BY <1>2, <1>h DEF CommitApproval
  <2>2. PICK t \in Title : t = TitleOf[p]
    BY TitleAssumption
  <2>3. /\ UNCHANGED <<jobs, op>> /\ NextId <= MaxCandidates
        /\ cands' = NewCandidate(t, p) /\ GiveOut(NextId)
        /\ \A g \in Handler \ {h} : handler'[g] = handler[g]
        /\ handler[h].at = "read" /\ handler'[h].at = "queue" /\ handler'[h].r = p
        /\ handler'[h].c = NextId
        /\ \A q \in Request \ {p} : request'[q] = request[q]
        /\ request'[p].status = "APPROVED" /\ request'[p].error = FALSE
        /\ request'[p].executed = request[p].executed
        /\ request'[p].deferred = request[p].deferred
        /\ request[p].status = "PENDING" \/ p \in twice'
    <3>1. /\ UNCHANGED <<jobs, op>> /\ NextId <= MaxCandidates
          /\ cands' = NewCandidate(t, p) /\ GiveOut(NextId)
          /\ handler' = [handler EXCEPT ![h] = Open("approve", p, "queue", NextId)]
          /\ handler[h].at = "read"
          /\ request' = [request EXCEPT ![p].status = "APPROVED", ![p].error = FALSE]
          /\ Decide(p)
      BY <1>2, <2>1, <2>2 DEF CommitApproval
    <3>2. request[p] \in RequestRow /\ DOMAIN request = Request /\ DOMAIN handler = Handler
      BY DEF RequestsTypeOK
    <3>3. request'[p] = [request[p] EXCEPT !.status = "APPROVED", !.error = FALSE]
      BY <3>1, <3>2
    <3>4. /\ \A g \in Handler \ {h} : handler'[g] = handler[g]
          /\ handler'[h] = Open("approve", p, "queue", NextId)
          /\ \A q \in Request \ {p} : request'[q] = request[q]
      BY <3>1, <3>2
    <3>5. /\ handler'[h].at = "queue" /\ handler'[h].r = p /\ handler'[h].c = NextId
      BY <3>4 DEF Open
    <3>6. /\ request'[p].status = "APPROVED" /\ request'[p].error = FALSE
          /\ request'[p].executed = request[p].executed
          /\ request'[p].deferred = request[p].deferred
      BY <3>2, <3>3 DEF RequestRow
    <3>7. request[p].status = "PENDING" \/ p \in twice'
      BY <3>1 DEF Decide
    <3> QED BY <3>1, <3>4, <3>5, <3>6, <3>7
  <2>4. CASE r # p
    <3>1. NoNewName(r)
      <4>1. p \in People /\ \A g \in Handler : handler'[g] = handler[g] \/ handler'[g].r = p
        BY <2>3 DEF People
      <4> QED BY <4>1, <2>3, <2>4, GivenOut
    <3>2. request'[r] = request[r] /\ (AtFiles => jobs'[op.job] = jobs[op.job])
      BY <2>3, <2>4
    <3> QED BY <3>1, <3>2, <1>0, <1>s, SettledKept
  <2>5. CASE r = p
    <3>1. ~Resolved(r) /\ \A c \in CandidateId : ~Names(r, c)
      BY <2>3, <2>5, <1>s DEF Settled, OneOutcome, OneName
    <3>2. OneOutcome(r)' /\ ~request'[r].executed
      BY <3>1, <2>3, <2>5 DEF OneOutcome, Resolved
    <3>3. PICK n \in CandidateId : n = NextId
      BY <2>3, NextIdIsFree, Tables, BoundsAssumption DEF CandidateId
    <3>4. /\ DOMAIN cands' = DOMAIN cands \cup {n}
          /\ \A c \in DOMAIN cands \ {n} : cands'[c] = cands[c]
      BY <2>3, <3>3, NewCandidateTable DEF People
    <3>5. \A c \in CandidateId : Names(r, c)' => c = n
      BY <3>1, <3>3, <3>4, <2>3, <1>0 DEF Names, Active, AtFiles
    <3>6. OneName(r)'
      BY <3>2, <3>5, <2>3, <2>5 DEF OneName
    <3>7. AtFiles => Owner # r
      BY <3>1, OwnerNames
    <3>8. Unspoiled(r)'
      BY <3>2, <3>7, <2>3 DEF Unspoiled, AtFiles, Owner
    <3> QED BY <3>2, <3>6, <3>8 DEF Settled
  <2> QED BY <2>4, <2>5
<1>3. CASE QueueApproval(h)
  <2>1. /\ UNCHANGED <<request, cands, op>>
        /\ handler[h].at = "queue" /\ handler'[h].at # "queue"
        /\ \A g \in Handler \ {h} : handler'[g] = handler[g]
        /\ UNCHANGED jobs \/ QueueFileOp(handler[h].c, handler[h].r)
    BY <1>3 DEF QueueApproval, Close, NoHandler, RequestsTypeOK
  <2>2. NoNewName(r) /\ (AtFiles => jobs'[op.job] = jobs[op.job])
    BY <2>1, HandedOn
  <2> QED BY <2>1, <2>2, <1>s, SettledKept
<1>4. CASE CommitDenial(h)
  <2>1. PICK p \in Request : p = handler[h].r
    BY <1>4, <1>h DEF CommitDenial
  <2>2. /\ UNCHANGED <<jobs, op, cands>>
        /\ \A g \in Handler \ {h} : handler'[g] = handler[g]
        /\ handler'[h].at # "queue"
        /\ \A q \in Request \ {p} : request'[q] = request[q]
        /\ request'[p] = [request[p] EXCEPT !.status = "DENIED"]
        /\ request[p].status = "PENDING" \/ p \in twice'
    BY <1>4, <2>1 DEF CommitDenial, Close, NoHandler, Decide, RequestsTypeOK
  <2>3. NoNewName(r)
    BY <2>2 DEF NoNewName, Names, Exists, Active, AtFiles
  <2>4. CASE r # p
    <3>1. request'[r] = request[r] /\ (AtFiles => jobs'[op.job] = jobs[op.job])
      BY <2>2, <2>4
    <3> QED BY <3>1, <2>2, <2>3, <1>s, SettledKept
  <2>5. CASE r = p
    <3>1. ~Resolved(r) /\ \A c \in CandidateId : ~Names(r, c)
      BY <2>2, <2>5, <1>s DEF Settled, OneOutcome, OneName
    <3>2. /\ request'[r].executed = request[r].executed
          /\ request'[r].error = request[r].error
          /\ request'[r].deferred = request[r].deferred
      BY <2>2, <2>5 DEF RequestsTypeOK, RequestRow
    <3>3. OneOutcome(r)'
      BY <3>1, <3>2 DEF OneOutcome, Resolved
    <3>4. OneName(r)'
      BY <3>1, <3>2, <2>3 DEF OneName, NoNewName, Resolved
    <3>5. Unspoiled(r)'
      BY <3>2, <1>s, <2>2 DEF Settled, Unspoiled, Owner, Exists
    <3> QED BY <3>3, <3>4, <3>5 DEF Settled
  <2> QED BY <2>4, <2>5
<1>5. CASE CommitCancel(h)
  <2>1. PICK p \in Request : p = handler[h].r
    BY <1>5, <1>h DEF CommitCancel
  <2>2. /\ UNCHANGED <<jobs, op>>
        /\ \A g \in Handler \ {h} : handler'[g] = handler[g]
        /\ handler'[h].at # "queue"
        /\ \A q \in Request \ {p} : request'[q] = request[q]
        /\ request'[p] = Blank("gone")
        /\ DOMAIN cands' = DOMAIN cands
    BY <1>5, <2>1 DEF CommitCancel, Close, NoHandler, RequestsTypeOK
  <2>3. \A c \in DOMAIN cands :
          /\ cands'[c].exists = cands[c].exists
          /\ cands'[c].r = cands[c].r \/ cands'[c].r = NoRequest
    BY <1>5, Tables DEF CommitCancel, CandidateRow
  <2>4. NoNewName(r)
    BY <2>2, <2>3, RequestAssumption DEF NoNewName, Names, Exists, Active, AtFiles
  <2>5. CASE r # p
    <3>1. request'[r] = request[r] /\ (AtFiles => jobs'[op.job] = jobs[op.job])
      BY <2>2, <2>5
    <3> QED BY <3>1, <2>2, <2>4, <1>s, SettledKept
  <2>6. CASE r = p
    <3>1. ~Resolved(r)' /\ request'[r].status = "gone" /\ ~request'[r].executed
      BY <2>2, <2>6 DEF Resolved, Blank
    <3>2. OneOutcome(r)'
      BY <3>1 DEF OneOutcome, Resolved
    <3>3. OneName(r)'
      BY <3>1, <2>4, <1>s DEF Settled, OneName, NoNewName
    <3>4. Unspoiled(r)'
      BY <3>1, <1>s, <2>2, <2>3 DEF Settled, Unspoiled, Owner, Exists
    <3> QED BY <3>2, <3>3, <3>4 DEF Settled
  <2> QED BY <2>5, <2>6
<1>6. CASE ReviewFails(h)
  <2>1. /\ UNCHANGED <<request, cands, jobs>> /\ handler'[h].at # "queue"
        /\ \A g \in Handler \ {h} : handler'[g] = handler[g]
    BY <1>6 DEF ReviewFails, Close, NoHandler, RequestsTypeOK, reviewVars
  <2>2. NoNewName(r)
    BY <2>1, <1>0 DEF NoNewName, Names, Exists, Active, AtFiles
  <2>3. request'[r] = request[r] /\ (AtFiles => jobs'[op.job] = jobs[op.job])
    BY <2>1
  <2> QED BY <2>2, <2>3, <1>0, <1>s, SettledKept
<1> QED BY <1>1, <1>2, <1>3, <1>4, <1>5, <1>6

LEMMA SettledRetry ==
  ASSUME RequestsTypeOK, RequestsTypeOK', SettledInv, NEW h \in Handler,
         \/ \E r \in Request : CheckRetry(h, r)
         \/ QueueRetry(h) \/ ClearDeferral(h)
  PROVE  SettledInv'
<1>0. UNCHANGED <<op, cands, twice, reused>>
  BY DEF CheckRetry, QueueRetry, ClearDeferral, reviewVars, history
<1> SUFFICES ASSUME NEW r \in Request \ (twice' \cup reused') PROVE Settled(r)'
  BY <1>0 DEF SettledInv
<1>s. Settled(r)
  BY <1>0 DEF SettledInv
<1>1. ASSUME NEW q \in Request, CheckRetry(h, q) PROVE Settled(r)'
  <2>1. PICK c \in DOMAIN cands :
          /\ Exists(c) /\ cands[c].r = q
          /\ handler' = [handler EXCEPT ![h] = Open("retry", q, "queue", c)]
    BY <1>1 DEF CheckRetry
  <2>2. /\ UNCHANGED <<request, jobs>>
        /\ handler'[h].r = q /\ handler'[h].c = c
        /\ \A g \in Handler \ {h} : handler'[g] = handler[g]
    BY <1>1, <2>1 DEF CheckRetry, Open, RequestsTypeOK
  <2>3. NoNewName(r)
    BY <2>1, <2>2, <1>0 DEF NoNewName, Names, Exists, Active, AtFiles
  <2>4. request'[r] = request[r] /\ (AtFiles => jobs'[op.job] = jobs[op.job])
    BY <2>2
  <2> QED BY <2>3, <2>4, <1>0, <1>s, SettledKept
<1>2. CASE QueueRetry(h)
  <2>1. /\ UNCHANGED <<request, cands, op>>
        /\ handler[h].at = "queue" /\ handler'[h].at # "queue"
        /\ \A g \in Handler \ {h} : handler'[g] = handler[g]
        /\ UNCHANGED jobs \/ QueueFileOp(handler[h].c, handler[h].r)
    BY <1>2 DEF QueueRetry, Close, NoHandler, RequestsTypeOK, HandlerRow, reviewVars
  <2>2. NoNewName(r) /\ (AtFiles => jobs'[op.job] = jobs[op.job])
    BY <2>1, HandedOn
  <2> QED BY <2>1, <2>2, <1>s, SettledKept
<1>3. CASE ClearDeferral(h)
  <2>1. /\ UNCHANGED jobs /\ handler'[h].at # "queue"
        /\ \A g \in Handler \ {h} : handler'[g] = handler[g]
    BY <1>3 DEF ClearDeferral, Close, NoHandler, RequestsTypeOK
  <2>2. NoNewName(r)
    BY <2>1, <1>0 DEF NoNewName, Names, Exists, Active, AtFiles
  <2>3. /\ request'[r].status = request[r].status
        /\ request'[r].executed = request[r].executed
        /\ request'[r].error => request[r].error
        /\ request'[r].deferred => request[r].deferred
    BY <1>3 DEF ClearDeferral, RequestsTypeOK, RequestRow
  <2>4. OneOutcome(r)'
    BY <2>3, <1>s DEF Settled, OneOutcome, Resolved
  <2>5. OneName(r)'
    BY <2>3, <2>2, <1>s DEF Settled, OneName, NoNewName
  <2>6. Unspoiled(r)'
    BY <2>1, <2>3, <1>0, <1>s DEF Settled, Unspoiled, Owner, Exists
  <2> QED BY <2>4, <2>5, <2>6 DEF Settled
<1> QED BY <1>1, <1>2, <1>3

\* The operation is past its first look, with the request it is to finalize.
LEMMA SettledClaim ==
  ASSUME RequestsTypeOK, RequestsTypeOK', SettledInv,
         ClaimFileOp \/ TakeLock \/ CompleteFileOp \/ Restart
  PROVE  SettledInv'
<1>0. UNCHANGED <<request, cands, twice, reused>>
  BY DEF ClaimFileOp, TakeLock, CompleteFileOp, Restart, reviewVars, history
<1>1. /\ ~AtFiles' /\ (op'.at \in {"idle", "claimed", "locked"} => op'.linked = NoRequest)
      /\ \A j \in DOMAIN jobs' : jobs'[j].status \in {"PENDING", "RUNNING"} =>
           /\ j \in DOMAIN jobs /\ Active(j)
           /\ jobs'[j].r = jobs[j].r /\ jobs'[j].c = jobs[j].c
      /\ \A h \in Handler : handler'[h].at = "queue" => handler'[h] = handler[h]
  <2>1. CASE ClaimFileOp
    <3>1. PICK j \in DOMAIN jobs :
            /\ jobs[j].status = "PENDING"
            /\ jobs' = [jobs EXCEPT ![j].status = "RUNNING"]
            /\ op' = [NoOp EXCEPT !.at = "claimed", !.job = j]
      BY <2>1 DEF ClaimFileOp
    <3>2. op'.at = "claimed" /\ op'.linked = NoRequest /\ UNCHANGED handler
      BY <2>1, <3>1 DEF ClaimFileOp, NoOp
    <3> QED BY <3>1, <3>2, MarkedTable DEF Active, AtFiles
  <2>2. CASE TakeLock
    <3>1. op'.at = "locked" /\ op'.linked = NoRequest
      BY <2>2 DEF TakeLock, SettledInv, RequestsTypeOK, OpRow
    <3> QED BY <2>2, <3>1 DEF TakeLock, Active, AtFiles
  <2>3. CASE CompleteFileOp
    <3>1. op.job \in DOMAIN jobs /\ UNCHANGED handler /\ op' = NoOp
      BY <2>3 DEF CompleteFileOp, RequestsTypeOK, Custody
    <3>2. PICK status \in {"FAILED", "COMPLETED"} :
            jobs' = [jobs EXCEPT ![op.job].status = status]
      BY <2>3 DEF CompleteFileOp
    <3> QED BY <3>1, <3>2, MarkedTable DEF Active, AtFiles, NoOp
  <2>4. CASE Restart
    BY <2>4, RestartTable DEF Active, AtFiles, NoOp, NoHandler
  <2> QED BY <2>1, <2>2, <2>3, <2>4
<1>2. ASSUME NEW r \in Request \ (twice' \cup reused') PROVE Settled(r)'
  <2>1. Settled(r)
    BY <1>0, <1>2 DEF SettledInv
  <2>2. NoNewName(r)
    BY <1>0, <1>1 DEF NoNewName, Names, Exists, Active
  <2>3. OneOutcome(r)' /\ OneName(r)'
    BY <1>0, <2>1, <2>2 DEF Settled, OneOutcome, OneName, NoNewName, Resolved
  <2>4. Unspoiled(r)'
    BY <1>1 DEF Unspoiled, AtFiles
  <2> QED BY <2>3, <2>4 DEF Settled
<1> QED BY <1>1, <1>2 DEF SettledInv

LEMMA SettledLoad ==
  ASSUME RequestsTypeOK, RequestsTypeOK', SettledInv, LoadCandidate PROVE SettledInv'
<1>0. /\ UNCHANGED <<request, jobs, handler, twice, reused>>
      /\ op.at = "locked" /\ op.linked = NoRequest /\ op.job \in DOMAIN jobs
      /\ jobs[op.job].status = "RUNNING" /\ op'.job = op.job
  BY DEF LoadCandidate, SettledInv, RequestsTypeOK, Custody, OpRow, Over, history
<1>1. PICK c \in CandidateId, p \in People : c = jobs[op.job].c /\ p = jobs[op.job].r
  BY <1>0, Tables
<1>2. PICK linked : linked = IF p = NoRequest THEN cands[c].r ELSE p
  OBVIOUS
<1> SUFFICES ASSUME NEW r \in Request \ (twice' \cup reused') PROVE Settled(r)'
  <2>1. op'.at \in {"over", "deleting"}
    BY DEF LoadCandidate, Over, RequestsTypeOK, OpRow
  <2> QED BY <2>1 DEF SettledInv
<1>s. Settled(r)
  BY <1>0 DEF SettledInv
<1>n. p = r => Names(r, c)
  BY <1>0, <1>1 DEF Names, Active
<1>3. ASSUME NoNewName(r), Unspoiled(r)' PROVE Settled(r)'
  BY <1>0, <1>3, <1>s DEF Settled, OneOutcome, OneName, NoNewName, Resolved
<1>4. CASE ~Exists(c) /\ Over("succeeded") /\ UNCHANGED cands
  <2>1. op'.at = "over" /\ op'.result = "succeeded" /\ op'.linked = NoRequest
    BY <1>4, <1>0, OverType
  <2>2. NoNewName(r)
    BY <2>1, <1>0, <1>4, RequestAssumption DEF NoNewName, Names, Exists, Active
  <2>3. Unspoiled(r)'
    BY <2>1, <1>0, <1>1, <1>4 DEF Unspoiled, Exists
  <2> QED BY <2>2, <2>3, <1>3
<1>5. CASE p # NoRequest /\ ~HasRow(p) /\ Over("raised") /\ UNCHANGED cands
  <2>1. op'.at = "over" /\ op'.result = "raised" /\ op'.linked = NoRequest
    BY <1>5, <1>0, OverType
  <2>2. NoNewName(r)
    BY <2>1, <1>0, <1>5, RequestAssumption DEF NoNewName, Names, Exists, Active
  <2>3. p = r => ~request[r].executed
    BY <1>5, <1>s DEF Settled, OneOutcome, Resolved, HasRow
  <2>4. Unspoiled(r)'
    BY <2>1, <2>3, <1>0, <1>1, <1>5 DEF Unspoiled, Owner
  <2> QED BY <2>2, <2>4, <1>3
<1>6. CASE /\ Exists(c)
           /\ cands' = [cands EXCEPT ![c].r = linked]
           /\ Over("failed") \/ op' = [op EXCEPT !.at = "deleting", !.linked = linked]
  <2>1. /\ DOMAIN cands' = DOMAIN cands
        /\ cands'[c].r = linked /\ cands'[c].exists
        /\ \A d \in DOMAIN cands \ {c} : cands'[d] = cands[d]
    <3>1. c \in DOMAIN cands /\ cands[c].exists /\ cands[c] \in CandidateRow
      BY <1>6, Tables DEF Exists
    <3> QED BY <1>6, <3>1 DEF CandidateRow
  <2>2. \/ op'.at = "over" /\ op'.result = "failed" /\ op'.linked = NoRequest
        \/ op'.at = "deleting" /\ op'.linked = linked
    <3>1. CASE Over("failed")
      BY <3>1, <1>0, OverType
    <3>2. CASE op' = [op EXCEPT !.at = "deleting", !.linked = linked]
      BY <3>2 DEF RequestsTypeOK, OpRow
    <3> QED BY <1>6, <3>1, <3>2
  <2>3. linked = r => Names(r, c)
    BY <1>2, <1>6, <1>n DEF Names, Exists
  <2>4. NoNewName(r)
    BY <2>1, <2>2, <2>3, <1>0, <1>1, <1>6, RequestAssumption
    DEF NoNewName, Names, Exists, Active
  <2>5. p = r => ~request[r].executed
    BY <1>6, <1>n, <1>s DEF Settled, OneName
  <2>6. Unspoiled(r)'
    BY <2>2, <2>5, <1>0, <1>1, RequestAssumption DEF Unspoiled, Owner
  <2> QED BY <2>4, <2>6, <1>3
<1> QED BY <1>1, <1>2, <1>4, <1>5, <1>6 DEF LoadCandidate

LEMMA SettledFiles ==
  ASSUME RequestsTypeOK, RequestsTypeOK', SettledInv, DeleteFiles \/ RemoveCandidate
  PROVE  SettledInv'
<1>0. /\ UNCHANGED <<request, jobs, handler, twice, reused>>
      /\ op.at \in {"deleting", "removed"} /\ op.job \in DOMAIN jobs
      /\ op'.job = op.job /\ op'.linked = op.linked /\ op'.at \in {"removed", "over"}
  <2>1. op \in OpRow /\ op.at \in {"deleting", "removed"}
    BY DEF DeleteFiles, RemoveCandidate, RequestsTypeOK
  <2>2. UNCHANGED <<request, jobs, handler, twice, reused>>
    BY DEF DeleteFiles, RemoveCandidate, history
  <2>3. op.job \in DOMAIN jobs
    BY <2>1 DEF RequestsTypeOK, Custody
  <2>4. \/ \E result \in {"succeeded", "deferred", "failed", "raised"} : Over(result)
        \/ op' = [op EXCEPT !.at = "removed"]
    BY DEF DeleteFiles, RemoveCandidate
  <2>5. /\ op'.job = op.job /\ op'.linked = op.linked
        /\ op'.at \in {"removed", "over"}
    <3>1. CASE op' = [op EXCEPT !.at = "removed"]
      BY <2>1, <3>1 DEF OpRow
    <3>2. CASE \E result \in {"succeeded", "deferred", "failed", "raised"} : Over(result)
      BY <3>2, OverType
    <3> QED BY <2>4, <3>1, <3>2
  <2> QED BY <2>1, <2>2, <2>3, <2>5
<1>1. PICK c \in CandidateId : c = jobs[op.job].c
  BY <1>0, Tables
<1> SUFFICES ASSUME NEW r \in Request \ (twice' \cup reused') PROVE Settled(r)'
  BY <1>0 DEF SettledInv
<1>s. Settled(r)
  BY <1>0 DEF SettledInv
<1>n. Owner = r => Names(r, c)
  BY <1>0, <1>1, OwnerNames DEF AtFiles
<1>3. ASSUME NoNewName(r), Unspoiled(r)' PROVE Settled(r)'
  BY <1>0, <1>3, <1>s DEF Settled, OneOutcome, OneName, NoNewName, Resolved
<1>4. CASE DeleteFiles
  <2>1. /\ DOMAIN cands' = DOMAIN cands
        /\ \A d \in DOMAIN cands : /\ cands'[d].exists = cands[d].exists
                                   /\ cands'[d].r = cands[d].r
    <3>1. \/ UNCHANGED cands
          \/ \E b \in BOOLEAN : cands' = [cands EXCEPT ![c].deferred = b]
      BY <1>1, <1>4 DEF DeleteFiles
    <3>2. \A d \in DOMAIN cands : cands[d] \in CandidateRow
      BY Tables
    <3>3. ASSUME NEW b \in BOOLEAN, cands' = [cands EXCEPT ![c].deferred = b],
                 NEW d \in DOMAIN cands
          PROVE  cands'[d].exists = cands[d].exists /\ cands'[d].r = cands[d].r
      <4>1. cands'[d] = cands[d] \/ cands'[d] = [cands[d] EXCEPT !.deferred = b]
        BY <3>3
      <4> QED BY <3>2, <4>1 DEF CandidateRow
    <3>4. ASSUME NEW b \in BOOLEAN, cands' = [cands EXCEPT ![c].deferred = b]
          PROVE  DOMAIN cands' = DOMAIN cands
      BY <3>4
    <3> QED BY <3>1, <3>3, <3>4
  <2>2. NoNewName(r)
    BY <2>1, <1>0 DEF NoNewName, Names, Exists, Active, AtFiles
  <2>3. \/ /\ ~Exists(c) /\ op'.at = "over" /\ op'.result = "succeeded"
        \/ /\ Exists(c)
           /\ op'.at = "removed" \/ (op'.at = "over" /\ op'.result # "succeeded")
    <3>1. CASE ~Exists(c) /\ Over("succeeded")
      BY <3>1, OverType
    <3>2. CASE Exists(c) /\ Over("deferred")
      BY <3>2, OverType
    <3>3. CASE Exists(c) /\ \E result \in {"failed", "raised"} : Over(result)
      BY <3>3, OverType
    <3>4. CASE Exists(c) /\ op' = [op EXCEPT !.at = "removed"]
      BY <3>4 DEF RequestsTypeOK, OpRow
    <3> QED BY <1>4, <1>1, <3>1, <3>2, <3>3, <3>4 DEF DeleteFiles
  <2>4. Owner' = Owner
    BY <1>0 DEF Owner
  <2>5. Exists(c) => (Owner = r => ~request[r].executed)
    BY <1>n, <1>s DEF Settled, OneName
  <2>6. Unspoiled(r)'
    <3>1. jobs'[op'.job].c = c
      BY <1>0, <1>1
    <3>2. ~Exists(c) => ~Exists(c)'
      BY <2>1 DEF Exists
    <3> QED BY <2>3, <2>4, <2>5, <3>1, <3>2, <1>0 DEF Unspoiled, Exists
  <2> QED BY <2>2, <2>6, <1>3
<1>5. CASE RemoveCandidate
  <2>1. CASE Over("succeeded") /\ DropCandidates({c}, asked)
    <3>1. /\ DOMAIN cands' = DOMAIN cands
          /\ c \in DOMAIN cands => ~cands'[c].exists
          /\ \A d \in DOMAIN cands \ {c} : cands'[d] = cands[d]
      BY <2>1, DroppedTable
    <3>2. op'.result = "succeeded" /\ op'.at = "over" /\ jobs'[op'.job].c = c
      BY <2>1, <1>0, <1>1, OverType
    <3>3. NoNewName(r)
      BY <3>1, <1>0 DEF NoNewName, Names, Exists, Active, AtFiles
    <3>4. Unspoiled(r)'
      BY <3>1, <3>2 DEF Unspoiled, Exists
    <3> QED BY <3>3, <3>4, <1>3
  <2>2. CASE Over("failed") /\ UNCHANGED cands
    <3>1. op'.result = "failed" /\ op'.at = "over"
      BY <2>2, OverType
    <3>2. NoNewName(r)
      BY <2>2, <1>0 DEF NoNewName, Names, Exists, Active, AtFiles
    <3>3. Unspoiled(r)'
      BY <3>1, <1>0, <1>5, <1>s DEF RemoveCandidate, Settled, Unspoiled, Owner
    <3> QED BY <3>2, <3>3, <1>3
  <2> QED BY <1>5, <1>1, <2>1, <2>2 DEF RemoveCandidate
<1> QED BY <1>4, <1>5

LEMMA SettledFinalize ==
  ASSUME RequestsTypeOK, RequestsTypeOK', SettledInv, FinalizeDeleteRequest
  PROVE  SettledInv'
<1>0. /\ UNCHANGED <<jobs, handler, twice, reused>>
      /\ op.at = "over" /\ op.job \in DOMAIN jobs /\ op'.at = "done" /\ AtFiles
  BY DEF FinalizeDeleteRequest, RequestsTypeOK, Custody, OpRow, AtFiles, history
<1>1. PICK c \in CandidateId : c = jobs[op.job].c
  BY <1>0, Tables
<1>2. PICK q : q = Finalized
  OBVIOUS
<1> SUFFICES ASSUME NEW r \in Request \ (twice' \cup reused') PROVE Settled(r)'
  BY <1>0 DEF SettledInv
<1>s. Settled(r)
  BY <1>0 DEF SettledInv
<1>3. NoNewName(r)
  <2>1. CASE UNCHANGED cands
    BY <2>1, <1>0 DEF NoNewName, Names, Exists, Active, AtFiles
  <2>2. CASE DropCandidates({c}, asked)
    <3>1. /\ DOMAIN cands' = DOMAIN cands
          /\ c \in DOMAIN cands => ~cands'[c].exists
          /\ \A d \in DOMAIN cands \ {c} : cands'[d] = cands[d]
      BY <2>2, DroppedTable
    <3> QED BY <3>1, <1>0 DEF NoNewName, Names, Exists, Active, AtFiles
  <2> QED BY <1>1, <2>1, <2>2 DEF FinalizeDeleteRequest
<1>4. Unspoiled(r)'
  BY <1>0 DEF Unspoiled
<1>5. CASE q # r \/ ~HasRow(q)
  <2>1. request'[r] = request[r]
    BY <1>2, <1>5 DEF FinalizeDeleteRequest, RequestsTypeOK
  <2> QED BY <2>1, <1>3, <1>4, <1>s DEF Settled, OneOutcome, OneName, NoNewName, Resolved
<1>6. CASE q = r /\ HasRow(q)
  <2>1. Owner = r /\ Names(r, c)
    <3>1. Owner = r
      BY <1>2, <1>6, RequestAssumption DEF Finalized, Owner
    <3> QED BY <3>1, <1>0, <1>1, OwnerNames
  <2>2. request[r].status = "APPROVED"
    BY <2>1, <1>6, <1>s DEF Settled, OneName, HasRow, RequestsTypeOK, RequestRow, Statuses
  <2>3. request' = [request EXCEPT ![r] = Outcome(r, c)]
    BY <1>1, <1>2, <1>6 DEF FinalizeDeleteRequest
  <2>4. request'[r] = Outcome(r, c) /\ request[r] \in RequestRow
    BY <2>3 DEF RequestsTypeOK
  <2>5. CASE op.result = "succeeded"
    <3>1. /\ request'[r].status = "APPROVED" /\ request'[r].executed
          /\ ~request'[r].error /\ ~request'[r].deferred
      BY <2>4, <2>5, <2>2 DEF Outcome, RequestRow, Deferred
    <3>2. ~Exists(c)
      BY <2>1, <2>5, <1>0, <1>1, <1>s DEF Settled, Unspoiled
    <3>3. \A d \in CandidateId : Names(r, d)' => ~Exists(d)'
      BY <3>2, <2>1, <1>3, <1>s DEF NoNewName, Settled, OneName
    <3>4. OneName(r)'
      BY <3>1, <3>3, <1>3, <1>s DEF OneName, Settled, NoNewName
    <3>5. OneOutcome(r)'
      BY <3>1 DEF OneOutcome, Resolved
    <3> QED BY <3>4, <3>5, <1>4 DEF Settled
  <2>6. CASE op.result # "succeeded"
    <3>1. ~request[r].executed
      BY <2>1, <2>6, <1>0, <1>s DEF Settled, Unspoiled
    <3>2. /\ request'[r].status = "APPROVED" /\ ~request'[r].executed
          /\ request'[r].error => ~request'[r].deferred
      BY <2>4, <2>6, <2>2, <3>1 DEF Outcome, RequestRow
    <3>3. OneName(r)'
      BY <3>2, <1>3, <1>s DEF OneName, Settled, NoNewName
    <3>4. OneOutcome(r)'
      BY <3>2 DEF OneOutcome, Resolved
    <3> QED BY <3>3, <3>4, <1>4 DEF Settled
  <2> QED BY <2>5, <2>6
<1> QED BY <1>5, <1>6

LEMMA StepSettled ==
  /\ RequestsTypeOK /\ RequestsTypeOK' /\ SettledInv
  /\ [RequestsNext]_requestVars
  => SettledInv'
<1> SUFFICES ASSUME RequestsTypeOK, RequestsTypeOK', SettledInv,
                    [RequestsNext]_requestVars
             PROVE  SettledInv'
  OBVIOUS
<1>1. CASE UNCHANGED requestVars
  BY <1>1 DEF requestVars, reviewVars, history, SettledInv, Settled, OneOutcome, OneName,
              Unspoiled, Names, Exists, Owner, Resolved, Active, AtFiles
<1>2. CASE RequestsNext
  BY <1>2, SettledSurroundings, SettledReview, SettledRetry, SettledClaim, SettledLoad,
     SettledFiles, SettledFinalize
  DEF RequestsNext, HandlerStep, FileOpStep
<1> QED BY <1>1, <1>2

LEMMA InitSettled == RequestsInit => SettledInv
<1> SUFFICES ASSUME RequestsInit PROVE SettledInv
  OBVIOUS
<1>1. op.at = "idle" /\ op.linked = NoRequest /\ \A h \in Handler : handler[h].at = "idle"
  BY DEF RequestsInit, NoOp, NoHandler
<1>2. \A r \in Request : /\ request[r].status = "absent" /\ ~request[r].executed
                         /\ ~request[r].error /\ ~request[r].deferred
  BY DEF RequestsInit, Blank
<1>3. DOMAIN cands = {} /\ DOMAIN jobs = {}
  BY DEF RequestsInit
<1> QED BY <1>1, <1>2, <1>3
    DEF SettledInv, Settled, OneOutcome, OneName, Unspoiled, Names, Resolved, AtFiles

(***************************************************************************)
(* However many requests, titles, reviewers and manual deletions there     *)
(* are, a request that was decided once has one outcome, and only when it  *)
(* was approved, unless the id of its candidate was given out again while  *)
(* its own job still named it.                                             *)
(***************************************************************************)
THEOREM SettlesOnce == RequestsSpec => []OutcomeConsistent
<1>1. SettledInv => OutcomeConsistent
  BY DEF SettledInv, Settled, OneOutcome, OutcomeConsistent
<1> QED BY <1>1, RequestsTypeCorrect, InitSettled, StepSettled, PTL DEF RequestsSpec

-----------------------------------------------------------------------------
(***************************************************************************)
(* The jobs of the requests are commands of the pool, all of which need    *)
(* the files: approvals, retries and manual deletions submit one, the      *)
(* claim starts one when none runs, completion and restart end it.         *)
(***************************************************************************)
PoolStage(status) ==
  IF status = "PENDING" THEN "waiting"
  ELSE IF status = "RUNNING" THEN "running" ELSE "over"

FileCommand(status) == [need |-> {"files"}, state |-> PoolStage(status)]

FileCommands == [j \in DOMAIN jobs |-> FileCommand(jobs[j].status)]

FilePool == INSTANCE CommandPool WITH Need <- {{"files"}}, rows <- FileCommands

LEMMA FileCommandStates ==
  ASSUME RequestsTypeOK
  PROVE  /\ DOMAIN FileCommands = DOMAIN jobs /\ DOMAIN jobs = 1..Len(jobs)
         /\ Len(jobs) \in Nat
         /\ \A j \in DOMAIN jobs :
              /\ FileCommands[j] = FileCommand(jobs[j].status)
              /\ j \in FilePool!In("waiting") <=> jobs[j].status = "PENDING"
              /\ j \in FilePool!In("running") <=> jobs[j].status = "RUNNING"
         /\ FilePool!In("running") \subseteq DOMAIN jobs
<1>1. \A j \in DOMAIN jobs : FileCommands[j] = FileCommand(jobs[j].status)
  BY DEF FileCommands
<1>2. DOMAIN FileCommands = DOMAIN jobs
  BY DEF FileCommands
<1> QED BY <1>1, <1>2, Tables DEF FilePool!In, FileCommand, PoolStage

\* Commands move when the jobs S take another status and the others keep theirs.
LEMMA FileCommandsMove ==
  ASSUME RequestsTypeOK, NEW S \in SUBSET (DOMAIN jobs), NEW state,
         DOMAIN jobs' = DOMAIN jobs,
         \A j \in S : PoolStage(jobs'[j].status) = state,
         \A j \in DOMAIN jobs \ S : jobs'[j].status = jobs[j].status
  PROVE  FileCommands' = FilePool!Moved(S, state)
<1>1. FileCommands' = [j \in DOMAIN jobs |-> FileCommand(jobs'[j].status)]
  BY DEF FileCommands
<1>2. ASSUME NEW j \in DOMAIN jobs
      PROVE  FileCommand(jobs'[j].status) =
               IF j \in S THEN [FileCommands[j] EXCEPT !.state = state]
               ELSE FileCommands[j]
  <2>1. FileCommands[j] = FileCommand(jobs[j].status)
    BY FileCommandStates
  <2>2. CASE j \in S
    <3>1. FileCommand(jobs'[j].status) = [need |-> {"files"}, state |-> state]
      BY <2>2 DEF FileCommand
    <3>2. [FileCommands[j] EXCEPT !.state = state] = [need |-> {"files"}, state |-> state]
      <4>1. ASSUME NEW need, NEW old
            PROVE  [[need |-> need, state |-> old] EXCEPT !.state = state]
                     = [need |-> need, state |-> state]
        OBVIOUS
      <4>2. [FileCommand(jobs[j].status) EXCEPT !.state = state]
              = [need |-> {"files"}, state |-> state]
        BY <4>1 DEF FileCommand
      <4> QED BY <2>1, <4>2
    <3> QED BY <2>2, <3>1, <3>2
  <2>3. CASE j \notin S
    BY <2>1, <2>3
  <2> QED BY <2>2, <2>3
<1>3. DOMAIN FileCommands = DOMAIN jobs
  BY FileCommandStates
<1> QED BY <1>1, <1>2, <1>3 DEF FilePool!Moved

\* Queueing a file operation submits a command.
LEMMA QueueingSubmits ==
  ASSUME RequestsTypeOK, NEW c \in CandidateId, NEW r \in People, QueueFileOp(c, r)
  PROVE  FilePool!Next
<1> DEFINE n == Len(jobs)
           new == [need |-> {"files"}, state |-> "waiting"]
           moved == FilePool!Moved({}, "over")
           W == {FileCommands[j] : j \in DOMAIN jobs} \cup {new}
<1>1. /\ n \in Nat /\ DOMAIN jobs = 1..n /\ DOMAIN jobs' = 1..(n + 1)
      /\ jobs'[n + 1].status = "PENDING"
      /\ \A j \in 1..n : jobs'[j] = jobs[j]
  <2>1. n \in Nat /\ DOMAIN jobs = 1..n
    BY Tables
  <2>2. 1..(n + 1) = (1..n) \cup {n + 1}
    BY <2>1
  <2>3. /\ DOMAIN jobs' = DOMAIN jobs \cup {n + 1}
        /\ jobs'[n + 1] = [c |-> c, r |-> r, status |-> "PENDING"]
        /\ \A j \in DOMAIN jobs : jobs'[j] = jobs[j]
    BY QueuedTable
  <2> HIDE DEF n
  <2> QED BY <2>1, <2>2, <2>3
<1>2. moved = [j \in 1..n |-> FileCommands[j]]
  <2>1. DOMAIN FileCommands = 1..n
    BY <1>1 DEF FileCommands
  <2> QED BY <2>1 DEF FilePool!Moved
<1>3. FileCommands' = [j \in 1..(n + 1) |-> FileCommand(jobs'[j].status)]
  BY <1>1 DEF FileCommands
<1>4. FileCommands' = [j \in 1..(n + 1) |-> IF j \in 1..n THEN FileCommands[j] ELSE new]
  <2>1. \A j \in 1..n : FileCommand(jobs'[j].status) = FileCommands[j]
    BY <1>1, FileCommandStates
  <2>2. FileCommand(jobs'[n + 1].status) = new
    BY <1>1 DEF FileCommand, PoolStage
  <2>3. \A j \in 1..(n + 1) : j \in 1..n \/ (j = n + 1 /\ j \notin 1..n)
    BY <1>1
  <2> HIDE DEF new, n
  <2> QED BY <1>3, <2>1, <2>2, <2>3
<1>5. moved \in Seq(W) /\ Len(moved) = n /\ new \in W
  <2>1. moved \in [1..n -> W]
    BY <1>1, <1>2
  <2> QED BY <1>1, <2>1
<1> HIDE DEF new, n, W, moved
<1>6. Append(moved, new) = [j \in 1..(n + 1) |-> IF j \in 1..n THEN moved[j] ELSE new]
  <2>1. /\ Append(moved, new) \in Seq(W) /\ Len(Append(moved, new)) = n + 1
        /\ \A j \in 1..n : Append(moved, new)[j] = moved[j]
        /\ Append(moved, new)[n + 1] = new
    BY <1>1, <1>5
  <2>2. ASSUME NEW q \in Seq(W), Len(q) = n + 1
        PROVE  q = [j \in 1..(n + 1) |-> q[j]]
    BY <1>1, <2>2
  <2>3. \A j \in 1..(n + 1) : j \in 1..n \/ (j = n + 1 /\ j \notin 1..n)
    BY <1>1
  <2>4. Append(moved, new) = [j \in 1..(n + 1) |-> Append(moved, new)[j]]
    BY <2>1, <2>2
  <2>5. \A j \in 1..(n + 1) : Append(moved, new)[j] = IF j \in 1..n THEN moved[j] ELSE new
    BY <2>1, <2>3
  <2> QED BY <2>4, <2>5
<1>7. \A j \in 1..n : moved[j] = FileCommands[j]
  BY <1>2
<1>8. FileCommands' = Append(moved, new)
  BY <1>4, <1>6, <1>7
<1>9. FilePool!Submit({"files"}, {})
  BY <1>8 DEF FilePool!Submit, moved, new
<1> QED BY <1>9 DEF FilePool!Next

\* A claim starts a command, as none runs while the executor is idle.
LEMMA ClaimStartsCommand ==
  ASSUME RequestsTypeOK, ClaimFileOp PROVE FilePool!Next
<1>1. PICK j \in DOMAIN jobs :
        /\ op.at = "idle" /\ jobs[j].status = "PENDING"
        /\ jobs' = [jobs EXCEPT ![j].status = "RUNNING"]
  BY DEF ClaimFileOp
<1>2. DOMAIN jobs' = DOMAIN jobs /\ jobs'[j].status = "RUNNING"
      /\ \A i \in DOMAIN jobs \ {j} : jobs'[i] = jobs[i]
  BY <1>1, MarkedTable
<1>3. FilePool!In("running") = {} /\ j \in FilePool!In("waiting")
  BY <1>1, FileCommandStates DEF RequestsTypeOK, Custody
<1>4. FileCommands' = FilePool!Moved({j}, "running")
  BY <1>2, FileCommandsMove DEF PoolStage
<1>5. FilePool!Start(j)
  BY <1>3, <1>4 DEF FilePool!Start
<1>6. j \in DOMAIN FileCommands
  BY FileCommandStates
<1> QED BY <1>5, <1>6 DEF FilePool!Next

\* The job that ran ends, when it completes or is found by a restart.
LEMMA EndsCommand ==
  ASSUME RequestsTypeOK, DOMAIN jobs' = DOMAIN jobs,
         NEW S \in SUBSET (DOMAIN jobs), \A j \in S : jobs[j].status = "RUNNING",
         \A j \in S : jobs'[j].status \in {"COMPLETED", "FAILED"},
         \A j \in DOMAIN jobs \ S : jobs'[j].status = jobs[j].status
  PROVE  FilePool!Next
<1>1. FileCommands' = FilePool!Moved(S, "over")
  BY FileCommandsMove DEF PoolStage
<1>2. S \subseteq FilePool!In("waiting") \cup FilePool!In("running")
  BY FileCommandStates
<1>3. FilePool!End(S)
  BY <1>1 DEF FilePool!End
<1> QED BY <1>2, <1>3 DEF FilePool!Next

LEMMA StepsOfThePool ==
  ASSUME RequestsTypeOK, [RequestsNext]_requestVars
  PROVE  FilePool!Next \/ UNCHANGED FileCommands
<1>1. ASSUME UNCHANGED jobs PROVE UNCHANGED FileCommands
  BY <1>1 DEF FileCommands
<1>2. ASSUME NEW c \in CandidateId, DeleteCandidate(c) PROVE FilePool!Next
  BY <1>2, QueueingSubmits DEF DeleteCandidate, People
<1>3. ASSUME NEW h \in Handler, handler[h].at = "queue",
             QueueFileOp(handler[h].c, handler[h].r)
      PROVE  FilePool!Next
  <2>1. handler[h].c \in CandidateId /\ handler[h].r \in People
    BY <1>3, HandlerFacts DEF RequestsTypeOK
  <2> QED BY <1>3, <2>1, QueueingSubmits
<1>4. CASE CompleteFileOp
  <2>1. op.job \in DOMAIN jobs /\ jobs[op.job].status = "RUNNING"
    BY <1>4 DEF CompleteFileOp, RequestsTypeOK, Custody
  <2>2. PICK status \in {"COMPLETED", "FAILED"} :
          jobs' = [jobs EXCEPT ![op.job].status = status]
    BY <1>4 DEF CompleteFileOp
  <2>3. /\ DOMAIN jobs' = DOMAIN jobs /\ jobs'[op.job].status = status
        /\ \A i \in DOMAIN jobs \ {op.job} : jobs'[i] = jobs[i]
    BY <2>1, <2>2, MarkedTable
  <2>4. {op.job} \in SUBSET (DOMAIN jobs)
    BY <2>1
  <2> DEFINE S == {op.job}
  <2>5. /\ S \in SUBSET (DOMAIN jobs) /\ \A j \in S : jobs[j].status = "RUNNING"
        /\ \A j \in S : jobs'[j].status \in {"COMPLETED", "FAILED"}
        /\ \A j \in DOMAIN jobs \ S : jobs'[j].status = jobs[j].status
    BY <2>1, <2>3, <2>4
  <2> HIDE DEF S
  <2> QED BY <2>3, <2>5, EndsCommand
<1>5. CASE Restart
  <2> DEFINE S == {j \in DOMAIN jobs : jobs[j].status = "RUNNING"}
  <2>1. DOMAIN jobs' = DOMAIN jobs
    BY <1>5, RestartTable
  <2>2. \A j \in S : jobs'[j].status = "FAILED"
    <3>1. \A j \in DOMAIN jobs : jobs[j] \in JobRow
      BY Tables
    <3> QED BY <1>5, <3>1 DEF Restart, JobRow
  <2>3. \A j \in DOMAIN jobs \ S : jobs'[j].status = jobs[j].status
    BY <1>5 DEF Restart
  <2>4. S \in SUBSET (DOMAIN jobs) /\ \A j \in S : jobs[j].status = "RUNNING"
    OBVIOUS
  <2> HIDE DEF S
  <2> QED BY <2>1, <2>2, <2>3, <2>4, EndsCommand
<1>6. ASSUME NEW h \in Handler, HandlerStep(h)
      PROVE  FilePool!Next \/ UNCHANGED FileCommands
  <2>1. \/ UNCHANGED jobs
        \/ handler[h].at = "queue" /\ QueueFileOp(handler[h].c, handler[h].r)
    BY <1>6 DEF HandlerStep, CommitApproval, QueueApproval, CommitDenial, CommitCancel,
       ReviewFails, QueueRetry, ClearDeferral
  <2> QED BY <2>1, <1>1, <1>3
<1>7. CASE FileOpStep
  <2>1. ClaimFileOp \/ CompleteFileOp \/ UNCHANGED jobs
    BY <1>7 DEF FileOpStep, TakeLock, LoadCandidate, DeleteFiles, RemoveCandidate,
       FinalizeDeleteRequest
  <2> QED BY <2>1, <1>1, <1>4, ClaimStartsCommand
<1>8. CASE \/ \E r \in Request : CreateDeleteRequest(r)
           \/ \E h \in Handler, r \in Request :
                \/ \E kind \in {"approve", "deny", "cancel"} : Review(h, kind, r)
                \/ CheckRetry(h, r)
           \/ \E c \in CandidateId : ScanDrops(c)
           \/ \E t \in Title :
                \/ ScanAdds(t) \/ RequestProtection(t) \/ AutoApproveProtection(t)
                \/ EndProtection(t)
           \/ \E ask \in asked : ApproveProtection(ask)
           \/ UNCHANGED requestVars
  <2>1. UNCHANGED jobs
    BY <1>8 DEF CreateDeleteRequest, Review, CheckRetry, ScanDrops, ScanAdds,
       RequestProtection, AutoApproveProtection, EndProtection, ApproveProtection, requestVars
  <2> QED BY <2>1, <1>1
<1> QED BY <1>2, <1>5, <1>6, <1>7, <1>8 DEF RequestsNext

(***************************************************************************)
(* The queue the requests hand their file operations to, with its retries, *)
(* its restarts and the approvals that are never queued, is the command    *)
(* pool: one operation at a time, each started once and over once, which   *)
(* is what JobQueue, the queue of the code, is proved to implement.        *)
(***************************************************************************)
THEOREM RequestsUsePool == RequestsSpec => FilePool!Spec
<1>1. RequestsInit => FilePool!Init
  <2>1. RequestsInit => FileCommands = <<>>
    BY DEF RequestsInit, FileCommands
  <2> QED BY <2>1 DEF FilePool!Init
<1>2. RequestsTypeOK /\ [RequestsNext]_requestVars => [FilePool!Next]_FileCommands
  BY StepsOfThePool
<1> QED BY <1>1, <1>2, RequestsTypeCorrect, PTL DEF RequestsSpec, FilePool!Spec

-----------------------------------------------------------------------------
(***************************************************************************)
(* PART 2: THE DUPLICATES.                                                 *)
(***************************************************************************)
\* The files a run has yet to remove.
Going == run.todo \cup ({run.now} \cap File)

\* What a run may count on from its plan to its end.
Kept == run.kept # {} /\ run.kept \subseteq GroupFiles /\ run.kept \cap Going = {}

Removable ==
  /\ GroupFiles \cap given.odd = {}
  /\ given.server # "plex" =>
       \A f \in Going, g \in run.kept : given.item[f] # given.item[g]

Routed ==
  run.now # None /\ given.mapped =>
    \A r \in given.up : run.told[r] = run.now => run.kept \cap given.folder[r] # {}

PlanHolds ==
  run.at # "idle" =>
    /\ Kept /\ Removable /\ Routed
    /\ run.at # "next" => run.now \in File
    /\ ~misled => run.kept \subseteq disk

Inv == TypeOK /\ PlanHolds /\ AFileIsKept /\ EpisodeNamesAVersion

RunRow == [at : {"idle", "next", "arr", "server", "sidecars", "commit", "rescan"},
           todo : SUBSET File, kept : SUBSET File, now : File \cup {None},
           told : [Arr -> File \cup {None}], arrs : SUBSET given.up,
           calls : SUBSET Row, routed : SUBSET given.up]

-----------------------------------------------------------------------------
(***************************************************************************)
(* The group.                                                              *)
(***************************************************************************)
\* The files of a set of rows are files.
LEMMA GroupType ==
  ASSUME TypeOK
  PROVE  /\ \A ids : FilesOf(ids) \subseteq GroupFiles
         /\ GroupFiles \subseteq File
         /\ \A f : RowsOf(f) \subseteq Row
         /\ Used \subseteq Row
BY LayoutAssumption, RowAssumption DEF TypeOK, FilesOf, GroupFiles, RowsOf, Used

\* An idle run has its type.
LEMMA IdleType == Idle \in RunRow
BY DEF Idle, RunRow

\* The group is a function of the rows.
LEMMA SameGroup == rows' = rows => GroupFiles' = GroupFiles
BY DEF GroupFiles, FilesOf, Used

LEMMA InitInv == Init => Inv
<1> SUFFICES ASSUME Init PROVE Inv
    OBVIOUS
<1> USE DEF Init
<1>1. GroupFiles \subseteq File
  BY LayoutAssumption, RowAssumption DEF GroupFiles, FilesOf, Used
<1>2. TypeOK
  <2>1. run \in RunRow
    BY IdleType
  <2>2. rows \in [Row -> given.places \cup {None}]
    BY LayoutAssumption
  <2>3. disk \subseteq File /\ queue \subseteq SUBSET Row /\ left \in 0..MaxEvents
    BY LayoutAssumption, BoundAssumption
  <2> QED
    BY <1>1, <2>1, <2>2, <2>3 DEF TypeOK, RunRow
<1>3. PlanHolds
  BY DEF PlanHolds, Idle
<1>4. AFileIsKept
  BY LayoutAssumption DEF AFileIsKept
<1>5. EpisodeNamesAVersion
  BY DEF EpisodeNamesAVersion
<1> QED
  BY <1>2, <1>3, <1>4, <1>5 DEF Inv

-----------------------------------------------------------------------------
(***************************************************************************)
(* The surroundings.                                                       *)
(***************************************************************************)
LEMMA PickInv ==
  ASSUME Inv, NEW ids \in SUBSET Row, Pick(ids) PROVE Inv'
<1>1. TypeOK'
  BY BoundAssumption DEF Inv, TypeOK, Pick, Event, world, db
<1>2. PlanHolds'
  BY SameGroup DEF Inv, PlanHolds, Kept, Removable, Routed, Going, Pick, world, db
<1> QED
  BY <1>1, <1>2, SameGroup DEF Inv, AFileIsKept, EpisodeNamesAVersion, Pick, world, db

LEMMA ProtectInv ==
  ASSUME Inv, Protect PROVE Inv'
<1>1. TypeOK'
  <2>1. protected' \subseteq Row
    BY DEF Inv, TypeOK, Protect, Used
  <2> QED
    BY <2>1, BoundAssumption DEF Inv, TypeOK, Protect, Event, world
<1>2. PlanHolds'
  BY SameGroup DEF Inv, PlanHolds, Kept, Removable, Routed, Going, Protect, world
<1> QED
  BY <1>1, <1>2, SameGroup DEF Inv, AFileIsKept, EpisodeNamesAVersion, Protect, world

\* An upgrade brings a file, and marks the run when it takes a kept one.
LEMMA ImportInv ==
  ASSUME Inv, NEW r \in Arr, NEW f \in File, Import(r, f) PROVE Inv'
<1>1. TypeOK'
  BY BoundAssumption DEF Inv, TypeOK, Import, Event, db
<1>2. PlanHolds'
  BY SameGroup DEF Inv, PlanHolds, Kept, Removable, Routed, Going, Import, db
<1>3. AFileIsKept'
  BY DEF AFileIsKept, Import
<1> QED
  BY <1>1, <1>2, <1>3, SameGroup DEF Inv, EpisodeNamesAVersion, Import, db

\* What an Arr finds in its folder is a file or nothing.
LEMMA RescannedType ==
  ASSUME TypeOK, NEW r \in Arr PROVE Rescanned(r) \subseteq File \cup {None}
BY DEF Rescanned, TypeOK

LEMMA ArrScanInv ==
  ASSUME Inv, NEW r \in Arr, ArrScan(r) PROVE Inv'
<1>1. TypeOK'
  BY BoundAssumption, RescannedType DEF Inv, TypeOK, ArrScan, Event, db
<1>2. PlanHolds'
  BY SameGroup DEF Inv, PlanHolds, Kept, Removable, Routed, Going, ArrScan, db
<1> QED
  BY <1>1, <1>2, SameGroup DEF Inv, AFileIsKept, EpisodeNamesAVersion, ArrScan, db

-----------------------------------------------------------------------------
(***************************************************************************)
(* The sync.  New rows are numbered above the surviving ones, so that each *)
(* file the server reports is described by a row.                          *)
(***************************************************************************)
LEMMA NumberedType ==
  ASSUME NEW places, NEW ids \in SUBSET Row, NEW m \in Numbered(places, ids)
  PROVE  /\ DOMAIN m \subseteq Row
         /\ DOMAIN m \cap ids = {}
         /\ places = {m[i] : i \in DOMAIN m}
         /\ m \in [DOMAIN m -> places]
<1>1. PICK top \in ids \cup {0} :
        /\ \A i \in ids : i <= top
        /\ m \in [top + 1..top + Cardinality(places) -> places]
        /\ top + 1..top + Cardinality(places) \subseteq Row
        /\ places = {m[i] : i \in top + 1..top + Cardinality(places)}
  BY DEF Numbered, NewIds
<1>2. DOMAIN m = top + 1..top + Cardinality(places)
  BY <1>1
<1>3. top \in Int /\ \A i \in ids : i \in Int
  BY RowAssumption
<1>4. \A i \in DOMAIN m : i > top
  BY <1>2, <1>3
<1>5. DOMAIN m \cap ids = {}
  BY <1>1, <1>3, <1>4
<1> QED
  BY <1>1, <1>2, <1>5

LEMMA SyncInv ==
  ASSUME Inv, Sync PROVE Inv'
<1> DEFINE added == Authoritative \ {rows[r] : r \in Survivors}
<1>1. PICK main \in Numbered(added, Used) :
      \E more \in Numbered(Reported \ Authoritative, Survivors \cup DOMAIN main) :
        rows' = [r \in Row |-> IF r \in DOMAIN main THEN main[r]
                               ELSE IF r \in DOMAIN more THEN more[r]
                               ELSE IF r \in Survivors THEN rows[r] ELSE None]
  BY DEF Sync
<1>2. PICK more \in Numbered(Reported \ Authoritative, Survivors \cup DOMAIN main) :
        rows' = [r \in Row |-> IF r \in DOMAIN main THEN main[r]
                               ELSE IF r \in DOMAIN more THEN more[r]
                               ELSE IF r \in Survivors THEN rows[r] ELSE None]
  BY <1>1
<1>3. /\ Survivors \subseteq Used /\ Used \subseteq Row
      /\ Authoritative \subseteq Reported /\ Reported \subseteq given.places
  BY DEF Survivors, Used, Authoritative, Reported
<1>4. /\ DOMAIN main \subseteq Row /\ DOMAIN main \cap Used = {}
      /\ added = {main[i] : i \in DOMAIN main} /\ main \in [DOMAIN main -> added]
  BY <1>3, NumberedType
<1>5. /\ DOMAIN more \subseteq Row /\ DOMAIN more \cap (Survivors \cup DOMAIN main) = {}
      /\ Reported \ Authoritative = {more[i] : i \in DOMAIN more}
      /\ more \in [DOMAIN more -> Reported \ Authoritative]
  BY <1>3, <1>4, NumberedType
<1>6. \A r \in Row : rows'[r] \in Reported \cup {None}
  BY <1>2, <1>3, <1>4, <1>5 DEF Survivors
<1>7. \A p \in Reported : \E r \in Row : rows'[r] = p
  <2> TAKE p \in Reported
  <2>1. CASE p \in added
    BY <1>2, <1>4, <2>1
  <2>2. CASE p \in {rows[r] : r \in Survivors}
    BY <1>2, <1>3, <1>4, <1>5, <2>2
  <2>3. CASE p \in Reported \ Authoritative
    BY <1>2, <1>4, <1>5, <2>3
  <2> QED
    BY <2>1, <2>2, <2>3
<1>8. GroupFiles' = {p[1] : p \in Reported}
  <2>1. \A p \in Reported : p # None
    BY <1>3, LayoutAssumption, RowAssumption DEF Inv, TypeOK
  <2>2. Used' = {r \in Row : rows'[r] \in Reported}
    BY <1>6, <2>1 DEF Used
  <2>3. GroupFiles' = {rows'[r][1] : r \in Used'}
    BY DEF GroupFiles, FilesOf
  <2> QED
    BY <1>7, <2>2, <2>3
<1>9. TypeOK'
  <2>1. rows' \in [Row -> given.places \cup {None}]
    BY <1>2, <1>3, <1>6
  <2>2. protected' \subseteq Row
    BY <1>3 DEF Inv, TypeOK, Sync
  <2>3. path' \in File
    BY DEF Inv, TypeOK, Sync, Reported
  <2> QED
    BY <2>1, <2>2, <2>3, BoundAssumption DEF Inv, TypeOK, Sync, Event, world
<1>10. PlanHolds'
  BY DEF PlanHolds, Sync
<1>11. EpisodeNamesAVersion'
  BY <1>8 DEF EpisodeNamesAVersion, Sync
<1> QED
  BY <1>9, <1>10, <1>11 DEF Inv, AFileIsKept, Sync, world

-----------------------------------------------------------------------------
(***************************************************************************)
(* The job.                                                                *)
(***************************************************************************)
\* The start of a run plans from the rows of that moment.
LEMMA StartInv ==
  ASSUME Inv, NEW ids \in queue, Start(ids) PROVE Inv'
<1>1. CASE UNCHANGED <<run, misled>>
  <2>1. TypeOK'
    BY <1>1 DEF Inv, TypeOK, Start, world, db
  <2>2. PlanHolds'
    BY <1>1, SameGroup DEF Inv, PlanHolds, Start
  <2> QED
    BY <1>1, <2>1, <2>2, SameGroup
       DEF Inv, AFileIsKept, EpisodeNamesAVersion, Start, world, db
<1>2. CASE ~UNCHANGED <<run, misled>>
  <2> DEFINE picks == FilesOf(ids)
             kept == GroupFiles \ picks
  <2>1. /\ Plannable(ids)
        /\ run' = [Idle EXCEPT !.at = "next", !.todo = picks, !.kept = kept]
        /\ misled' = (misled \/ ~(kept \subseteq disk))
    BY <1>2 DEF Start
  <2>2. picks \subseteq GroupFiles /\ GroupFiles \subseteq File
    BY GroupType DEF Inv
  <2>3. /\ run'.at = "next" /\ run'.todo = picks /\ run'.kept = kept
        /\ run'.now = None /\ run' \in RunRow
    BY <2>1, <2>2 DEF Idle, RunRow
  <2>4. GroupFiles' = GroupFiles
    BY SameGroup DEF Start, db
  <2>5. TypeOK'
    BY <2>1, <2>3 DEF Inv, TypeOK, RunRow, Start, world, db
  <2>6. Going' = picks
    BY <2>2, <2>3, RowAssumption DEF Going
  <2>7. Kept'
    BY <2>1, <2>2, <2>3, <2>4, <2>6 DEF Kept, Plannable
  <2>8. Removable'
    BY <2>1, <2>2, <2>3, <2>4, <2>6 DEF Removable, Plannable, ManualReason, Start
  <2>9. PlanHolds'
    BY <2>1, <2>3, <2>7, <2>8 DEF PlanHolds, Routed, Start, world
  <2> QED
    BY <2>1, <2>4, <2>5, <2>9 DEF Inv, AFileIsKept, EpisodeNamesAVersion, Start, world, db
<1> QED
  BY <1>1, <1>2

\* A run that ends leaves no promise behind.
LEMMA AbandonInv ==
  ASSUME Inv, Abandon PROVE Inv'
<1>1. TypeOK'
  BY IdleType DEF Inv, TypeOK, RunRow, Abandon, world, db
<1>2. PlanHolds'
  BY DEF PlanHolds, Abandon, Idle
<1> QED
  BY <1>1, <1>2, SameGroup DEF Inv, AFileIsKept, EpisodeNamesAVersion, Abandon, world, db

LEMMA RouteInv ==
  ASSUME Inv, NEW f \in File, Route(f) PROVE Inv'
<1>1. Tracking(f) \subseteq given.up /\ RowsOf(f) \subseteq Row
  BY GroupType DEF Tracking, Inv
<1>2. /\ run'.at \in {"arr", "server"} /\ run'.now = f /\ run'.todo = run.todo \ {f}
      /\ run'.told = tracked /\ run'.kept = run.kept /\ run' \in RunRow
  BY <1>1 DEF Inv, TypeOK, RunRow, Route
<1>3. TypeOK'
  BY <1>2 DEF Inv, TypeOK, RunRow, Route, world, db
<1>4. Going' \subseteq Going
  BY <1>2 DEF Going, Route
<1>5. GroupFiles' = GroupFiles
  BY SameGroup DEF Route, db
<1>6. Kept' /\ Removable'
  BY <1>2, <1>4, <1>5 DEF Inv, PlanHolds, Kept, Removable, Route
<1>7. Routed'
  BY <1>2 DEF Routed, Route, Tracking, KeptInArrFolder
<1>8. PlanHolds'
  BY <1>2, <1>6, <1>7 DEF Inv, PlanHolds, Route, world
<1> QED
  BY <1>3, <1>8, <1>5 DEF Inv, AFileIsKept, EpisodeNamesAVersion, Route, world, db

\* No call and no cleanup takes a file that is kept.
LEMMA CallsSpareKept ==
  ASSUME Inv
  PROVE  /\ \A r \in Arr : DeleteFileInArr(r) => run.kept \cap (disk \ disk') = {}
         /\ \A r \in Row : DeleteVersion(r) => run.kept \cap (disk \ disk') = {}
         /\ CleanupSidecars => run.kept \cap (disk \ disk') = {}
<1>1. run.at \notin {"idle", "next"} => /\ run.now \in Going /\ run.now \notin run.kept
                                      /\ run.kept \subseteq File
  BY DEF Inv, TypeOK, PlanHolds, Kept, Going
<1>2. \A r \in Arr : DeleteFileInArr(r) => run.kept \cap (disk \ disk') = {}
  BY <1>1 DEF DeleteFileInArr
<1>3. run.at = "server" => DeletedWith(run.now) \cap run.kept = {}
  BY <1>1 DEF Inv, PlanHolds, Removable, DeletedWith
<1>4. \A r \in Row : DeleteVersion(r) => run.kept \cap (disk \ disk') = {}
  BY <1>3 DEF DeleteVersion
<1>5. CleanupSidecars => run.kept \cap (disk \ disk') = {}
  BY DEF CleanupSidecars, StemIsShared
<1> QED
  BY <1>2, <1>4, <1>5

\* A step of a run that takes other files only, or ends it.
LEMMA CallInv ==
  ASSUME Inv, run.at \notin {"idle", "next"},
         UNCHANGED <<given, rows, protected, path, queue, misled, left>>,
         disk' \subseteq disk, run.kept \cap (disk \ disk') = {},
         tracked' \in [Arr -> File \cup {None}],
         run' \in RunRow,
         run'.at # "idle" => /\ run'.kept = run.kept /\ run'.now = run.now
                             /\ run'.told = run.told /\ run'.todo = run.todo
  PROVE  Inv'
<1>1. GroupFiles' = GroupFiles
  BY SameGroup
<1>2. TypeOK'
  BY DEF Inv, TypeOK, RunRow
<1>3. run'.at # "idle" => Kept' /\ Removable' /\ Routed'
  BY <1>1 DEF Inv, PlanHolds, Kept, Removable, Routed, Going
<1>4. PlanHolds'
  BY <1>3 DEF Inv, PlanHolds
<1>5. AFileIsKept'
  BY DEF Inv, AFileIsKept, PlanHolds, Kept
<1> QED
  BY <1>1, <1>2, <1>4, <1>5 DEF Inv, EpisodeNamesAVersion

LEMMA DeleteFileInArrInv ==
  ASSUME Inv, NEW r \in Arr, DeleteFileInArr(r) PROVE Inv'
<1>1. run' \in RunRow /\ (run'.at # "idle" =>
         /\ run'.kept = run.kept /\ run'.now = run.now
         /\ run'.told = run.told /\ run'.todo = run.todo)
  <2>1. CASE run' = Idle
    BY <2>1, IdleType DEF Idle, RunRow, DeleteFileInArr
  <2>2. CASE run' = [run EXCEPT !.arrs = @ \ {r},
                           !.at = IF @ # "arr" \/ run.arrs # {r} THEN @ ELSE "commit"]
    BY <2>2 DEF Inv, TypeOK, RunRow, DeleteFileInArr
  <2> QED
    BY <2>1, <2>2 DEF DeleteFileInArr
<1>2. disk' \subseteq disk /\ tracked' \in [Arr -> File \cup {None}]
  BY DEF Inv, TypeOK, DeleteFileInArr
<1> QED
  BY <1>1, <1>2, CallsSpareKept, CallInv DEF DeleteFileInArr, db

LEMMA DeleteVersionInv ==
  ASSUME Inv, NEW r \in Row, DeleteVersion(r) PROVE Inv'
<1>1. run' \in RunRow /\ (run'.at # "idle" =>
         /\ run'.kept = run.kept /\ run'.now = run.now
         /\ run'.told = run.told /\ run'.todo = run.todo)
  <2>1. CASE run' = Idle
    BY <2>1, IdleType DEF Idle, RunRow, DeleteVersion
  <2>2. CASE run' = [run EXCEPT !.calls = @ \ {r},
                           !.at = IF run.calls = {r} THEN "sidecars" ELSE @]
    BY <2>2 DEF Inv, TypeOK, RunRow, DeleteVersion
  <2> QED
    BY <2>1, <2>2 DEF DeleteVersion
<1>2. disk' \subseteq disk /\ tracked' \in [Arr -> File \cup {None}]
  BY DEF Inv, TypeOK, DeleteVersion
<1> QED
  BY <1>1, <1>2, CallsSpareKept, CallInv DEF DeleteVersion, db

LEMMA CleanupSidecarsInv ==
  ASSUME Inv, CleanupSidecars PROVE Inv'
<1>1. run' \in RunRow /\ (run'.at # "idle" =>
         /\ run'.kept = run.kept /\ run'.now = run.now
         /\ run'.told = run.told /\ run'.todo = run.todo)
  BY DEF Inv, TypeOK, RunRow, CleanupSidecars
<1>2. disk' \subseteq disk /\ tracked' \in [Arr -> File \cup {None}]
  BY DEF Inv, TypeOK, CleanupSidecars
<1> QED
  BY <1>1, <1>2, CallsSpareKept, CallInv DEF CleanupSidecars, db

\* The commit drops the rows of one file, and the kept ones keep theirs.
LEMMA CommitInv ==
  ASSUME Inv, Commit PROVE Inv'
<1>1. run.now \in File /\ run.now \notin run.kept /\ run.kept \subseteq GroupFiles
  BY DEF Inv, PlanHolds, Kept, Going, Commit
<1>2. GroupFiles' = GroupFiles \ {run.now}
  BY RowAssumption DEF Commit, GroupFiles, FilesOf, Used, RowsOf
<1>3. /\ run' \in RunRow /\ run'.at = "rescan" /\ run'.now = run.now
      /\ run'.kept = run.kept /\ run'.todo = run.todo /\ run'.told = run.told
  BY DEF Inv, TypeOK, RunRow, Commit
<1>4. path' \in File
  BY DEF Inv, TypeOK, Commit, PathAfter
<1>5. TypeOK'
  <2>1. rows' \in [Row -> given.places \cup {None}]
    BY DEF Inv, TypeOK, Commit
  <2>2. protected' \subseteq Row
    BY DEF Inv, TypeOK, Commit
  <2> QED
    BY <1>3, <1>4, <2>1, <2>2 DEF Inv, TypeOK, RunRow, Commit, world
<1>6. PlanHolds'
  <2>1. Kept'
    BY <1>1, <1>2, <1>3 DEF Inv, PlanHolds, Kept, Going, Commit
  <2>2. Removable' /\ Routed'
    BY <1>2, <1>3 DEF Inv, PlanHolds, Removable, Routed, Going, Commit
  <2> QED
    BY <1>1, <1>3, <2>1, <2>2 DEF Inv, PlanHolds, Commit, world
<1>7. EpisodeNamesAVersion'
  <2>1. given.kind = "episode" => path \in GroupFiles
    BY <1>1 DEF Inv, EpisodeNamesAVersion, PlanHolds, Kept, Commit
  <2> QED
    BY <1>1, <1>2, <2>1 DEF EpisodeNamesAVersion, PathAfter, Commit
<1> QED
  BY <1>5, <1>6, <1>7 DEF Inv, AFileIsKept, Commit, world

\* The next file, or the end.
LEMMA RescanInv ==
  ASSUME Inv, Rescan PROVE Inv'
<1>1. GroupFiles' = GroupFiles
  BY SameGroup DEF Rescan, db
<1>2. CASE run' = Idle
  <2>1. TypeOK'
    BY <1>2, IdleType DEF Inv, TypeOK, RunRow, Rescan, db
  <2>2. PlanHolds'
    BY <1>2 DEF PlanHolds, Idle
  <2> QED
    BY <1>1, <2>1, <2>2 DEF Inv, AFileIsKept, EpisodeNamesAVersion, Rescan, db
<1>3. CASE run' = [Idle EXCEPT !.at = "next", !.todo = run.todo, !.kept = run.kept]
  <2>1. /\ run' \in RunRow /\ run'.at = "next" /\ run'.now = None
        /\ run'.kept = run.kept /\ run'.todo = run.todo
    BY <1>3 DEF Inv, TypeOK, RunRow, Idle
  <2>2. TypeOK'
    BY <2>1 DEF Inv, TypeOK, RunRow, Rescan, db
  <2>3. Going' \subseteq Going
    BY <2>1, RowAssumption DEF Going
  <2>4. Kept' /\ Removable' /\ Routed'
    BY <1>1, <2>1, <2>3 DEF Inv, PlanHolds, Kept, Removable, Routed, Rescan
  <2>5. PlanHolds'
    BY <2>1, <2>4 DEF Inv, PlanHolds, Rescan
  <2> QED
    BY <1>1, <2>2, <2>5 DEF Inv, AFileIsKept, EpisodeNamesAVersion, Rescan, db
<1> QED
  BY <1>2, <1>3 DEF Rescan

-----------------------------------------------------------------------------
LEMMA StepInv == Inv /\ [Next]_vars => Inv'
<1> SUFFICES ASSUME Inv, [Next]_vars PROVE Inv'
    OBVIOUS
<1>1. CASE Work
  BY <1>1, DeleteFileInArrInv, DeleteVersionInv, RouteInv, CleanupSidecarsInv,
     CommitInv, RescanInv, AbandonInv DEF Work
<1>2. CASE Surroundings
  BY <1>2, PickInv, ProtectInv, ArrScanInv, ImportInv, SyncInv DEF Surroundings
<1>3. CASE \E ids \in queue : Start(ids)
  BY <1>3, StartInv
<1>4. CASE UNCHANGED vars
  <2>1. TypeOK'
    BY <1>4 DEF Inv, TypeOK, vars
  <2>2. PlanHolds'
    BY <1>4, SameGroup DEF Inv, PlanHolds, Kept, Removable, Routed, Going, vars
  <2> QED
    BY <1>4, <2>1, <2>2, SameGroup DEF Inv, AFileIsKept, EpisodeNamesAVersion, vars
<1> QED
  BY <1>1, <1>2, <1>3, <1>4 DEF Next

LEMMA Invariant == Spec => []Inv
BY InitInv, StepInv, PTL DEF Spec

\* Only a run with a plan changes the disk, and never what it keeps.
LEMMA WorkSparesKept ==
  ASSUME Inv, Work
  PROVE  /\ run.kept \cap (disk \ disk') = {}
         /\ disk' # disk => run.at # "idle" /\ run.kept # {}
<1>1. CASE \/ \E r \in Arr : DeleteFileInArr(r)
           \/ \E r \in Row : DeleteVersion(r)
           \/ CleanupSidecars
  BY <1>1, CallsSpareKept
     DEF Inv, PlanHolds, Kept, DeleteFileInArr, DeleteVersion, CleanupSidecars
<1>2. CASE (\E f \in File : Route(f)) \/ Commit \/ Rescan \/ Abandon
  BY <1>2 DEF Route, Commit, Rescan, Abandon, world
<1> QED
  BY <1>1, <1>2 DEF Work

(***************************************************************************)
(* Every variable keeps its type.                                          *)
(***************************************************************************)
THEOREM TypeCorrect == Spec => []TypeOK
BY Invariant, PTL DEF Inv

(***************************************************************************)
(* Whatever jobs are queued for a title, one of its files is left, as long *)
(* as the files a run counted on were there: the job plans again.          *)
(***************************************************************************)
THEOREM LeavesAFile == Spec => []AFileIsKept
BY Invariant, PTL DEF Inv

(***************************************************************************)
(* The path of an episode names a file it has.                             *)
(***************************************************************************)
THEOREM NamesAVersion == Spec => []EpisodeNamesAVersion
BY Invariant, PTL DEF Inv

(***************************************************************************)
(* No step of a run takes a file its plan keeps, or one of several         *)
(* episodes, on any server and whatever files share an item or a stem.     *)
(***************************************************************************)
THEOREM SparesKeptFiles == Spec => KeptFilesSurvive
<1>1. Inv /\ [Next]_vars =>
        [Work => (run.kept \cup (given.odd \cap GroupFiles)) \cap (disk \ disk') = {}]_vars
  BY WorkSparesKept DEF Inv, PlanHolds, Removable
<1> QED
  BY <1>1, Invariant, PTL DEF Spec, KeptFilesSurvive

(***************************************************************************)
(* An Arr that loses the file it tracks to a run has a kept one in its     *)
(* folder, for any number of Arrs, folders and files.                      *)
(***************************************************************************)
THEOREM LeavesAnArrAFile == Spec => ArrIsLeftAFile
<1>1. ASSUME Inv, Work, given.mapped, ~misled, NEW r \in given.up,
             run.told[r] = run.now, tracked[r] = run.now, run.now \in disk \ disk'
      PROVE  given.folder[r] \cap disk' # {}
  <2>1. run.at # "idle" /\ run.kept \cap (disk \ disk') = {}
    BY <1>1, WorkSparesKept
  <2>2. run.now # None
    BY <1>1, RowAssumption DEF Inv, TypeOK
  <2>3. run.kept \cap given.folder[r] # {} /\ run.kept \subseteq disk
    BY <1>1, <2>1, <2>2 DEF Inv, PlanHolds, Routed
  <2> QED
    BY <2>1, <2>3
<1>2. Inv /\ [Next]_vars =>
        [Work /\ given.mapped /\ ~misled =>
           \A r \in given.up :
             /\ run.told[r] = run.now /\ tracked[r] = run.now
             /\ run.now \in disk \ disk'
             => given.folder[r] \cap disk' # {}]_vars
  BY <1>1
<1> QED
  BY <1>2, Invariant, PTL DEF Spec, ArrIsLeftAFile
=============================================================================
