------------------------ MODULE WebhookDelivery_proofs ------------------------
(***************************************************************************)
(* Theorems about WebhookDelivery, for every set of events and endpoints,  *)
(* every number of attempts, crashes, failed enqueues and manual retries.  *)
(*                                                                         *)
(* TypeCorrect           the types, with at most one waiting job for a     *)
(*                       delivery and no attempt beyond MaxAttempts        *)
(* PendingStaysCarried   a pending delivery is carried by something        *)
(* DeliveredStays        a delivered verdict is earned and final           *)
(*                                                                         *)
(* Each follows from Inv.  What it adds to the properties is AttemptsInv,  *)
(* about the provider call: between the two halves of an attempt the row   *)
(* may be canceled or made pending afresh, but nothing delivers it or uses *)
(* up its attempts, because no other job of the endpoint runs.             *)
(***************************************************************************)
EXTENDS WebhookDelivery, SequenceTheorems, TLAPS

Status == {"absent", "pending", "delivered", "failed", "canceled"}
Row == [status: Status, attempts: 0..MaxAttempts, next: Nat]
Job == [d: Delivery, sched: Nat]
Place == {"idle", "claimed", "sending", "requeue", "done"} \cup Outcome
Slot == [d: Delivery \cup {Idle.d}, at: Place]

\* A job for a delivery at most.
Distinct(q) == \A i, k \in DOMAIN q : q[i].d = q[k].d => i = k

\* The deliveries that have a waiting job, and those that have a running one
\* which is not over.
InQueue(q) == {q[i].d : i \in DOMAIN q}
Waits == InQueue(queue)
Attempted == {d \in Delivery : Attempting(d)}

DataInv ==
  /\ endpoint \in [Endpoint -> {"enabled", "disabled", "deleted"}]
  /\ row \in [Delivery -> Row]
  /\ \A d \in Delivery : row[d].status = "pending" => row[d].attempts < MaxAttempts
  /\ unqueued \subseteq Delivery
  /\ server \in {"down", "recovering", "up"}
  /\ toRecover \subseteq Delivery
  /\ now \in 0..MaxTime
  /\ budget \in [{"crashes", "errors", "retries"} -> Nat]

QueueInv == queue \in Seq(Job) /\ Distinct(queue)

RunInv ==
  /\ run \in [Endpoint -> Slot]
  /\ \A e \in Endpoint :
       \/ run[e] = Idle
       \/ /\ run[e].d \in Delivery /\ EndpointOf(run[e].d) = e
          /\ run[e].at # "idle"

InFlight == {"sending"} \cup Outcome

AttemptsInv ==
  \A e \in Endpoint :
    /\ run[e].at \in InFlight =>
         /\ row[run[e].d].status # "delivered"
         /\ row[run[e].d].attempts < MaxAttempts
    /\ run[e].at = "success" => run[e].d \in got

CarriedInv ==
  server = "down"
    \/ PendingRows \subseteq unqueued \cup toRecover \cup dropped \cup Waits \cup Attempted

Inv == DataInv /\ QueueInv /\ RunInv /\ AttemptsInv /\ CarriedInv

-----------------------------------------------------------------------------
(***************************************************************************)
(* The queue.                                                              *)
(***************************************************************************)
\* Removing one element of a sequence.
LEMMA RemoveAtProperties ==
  ASSUME NEW S, NEW s \in Seq(S), NEW i \in 1..Len(s)
  PROVE  /\ RemoveAt(s, i) \in Seq(S) /\ Len(RemoveAt(s, i)) = Len(s) - 1
         /\ \A j \in 1..Len(s) - 1 :
              RemoveAt(s, i)[j] = IF j < i THEN s[j] ELSE s[j + 1]
<1> DEFINE front == SubSeq(s, 1, i - 1)
           back == SubSeq(s, i + 1, Len(s))
<1>1. Len(s) \in Nat /\ i \in Nat /\ \A j \in 1..Len(s) : s[j] \in S
  BY ElementOfSeq
<1>2. /\ front \in Seq(S) /\ Len(front) = i - 1
      /\ \A j \in 1..i - 1 : front[j] = s[j]
  BY <1>1, SubSeqProperties
<1>3. /\ back \in Seq(S) /\ Len(back) = Len(s) - i
      /\ \A j \in 1..Len(s) - i : back[j] = s[i + j]
  BY <1>1, SubSeqProperties
<1>4. /\ front \o back \in Seq(S) /\ Len(front \o back) = Len(front) + Len(back)
      /\ \A j \in 1..Len(front) + Len(back) :
           (front \o back)[j] = IF j <= Len(front) THEN front[j] ELSE back[j - Len(front)]
  BY <1>2, <1>3, ConcatProperties
<1>5. RemoveAt(s, i) = front \o back
  BY DEF RemoveAt
<1> HIDE DEF front, back
<1>6. Len(front) + Len(back) = Len(s) - 1 /\ Len(front) = i - 1
  BY <1>1, <1>2, <1>3
<1>7. ASSUME NEW j \in 1..Len(s) - 1
      PROVE  (front \o back)[j] = IF j < i THEN s[j] ELSE s[j + 1]
  <2>1. (front \o back)[j] = IF j <= i - 1 THEN front[j] ELSE back[j - (i - 1)]
    BY <1>4, <1>6
  <2>2. ASSUME j < i PROVE j \in 1..i - 1 /\ j <= i - 1
    BY <2>2, <1>1
  <2>3. ASSUME ~(j < i)
        PROVE  /\ j - (i - 1) \in 1..Len(s) - i /\ i + (j - (i - 1)) = j + 1
               /\ ~(j <= i - 1)
    BY <2>3, <1>1
  <2> QED
    BY <2>1, <2>2, <2>3, <1>2, <1>3
<1> QED
  BY <1>4, <1>5, <1>6, <1>7

\* Taking out the job at k, whether it is claimed or replaced: the others stay,
\* and none of them is for the same delivery.
LEMMA RemoveJobProperties ==
  ASSUME NEW q \in Seq(Job), Distinct(q), NEW k \in DOMAIN q
  PROVE  /\ RemoveAt(q, k) \in Seq(Job) /\ Distinct(RemoveAt(q, k))
         /\ InQueue(RemoveAt(q, k)) = InQueue(q) \ {q[k].d}
<1> DEFINE r == RemoveAt(q, k)
<1>1. DOMAIN q = 1..Len(q) /\ k \in 1..Len(q) /\ Len(q) \in Nat
  OBVIOUS
<1>2. /\ r \in Seq(Job) /\ Len(r) = Len(q) - 1
      /\ \A j \in 1..Len(q) - 1 : r[j] = IF j < k THEN q[j] ELSE q[j + 1]
  BY <1>1, RemoveAtProperties
<1> HIDE DEF r
<1>3. DOMAIN r = 1..Len(q) - 1
  BY <1>2
<1>4. \A j \in 1..Len(q) - 1 : \E x \in 1..Len(q) :
        x = (IF j < k THEN j ELSE j + 1) /\ r[j] = q[x] /\ x # k
  <2> TAKE j \in 1..Len(q) - 1
  <2>1. CASE j < k
    <3>1. j \in 1..Len(q) /\ r[j] = q[j] /\ j # k
      BY <2>1, <1>1, <1>2
    <3> QED
      BY <2>1, <3>1
  <2>2. CASE ~(j < k)
    <3>1. j + 1 \in 1..Len(q) /\ r[j] = q[j + 1] /\ j + 1 # k
      BY <2>2, <1>1, <1>2
    <3> QED
      BY <2>2, <3>1
  <2> QED
    BY <2>1, <2>2
<1>5. Distinct(r)
  <2> SUFFICES ASSUME NEW i \in 1..Len(q) - 1, NEW j \in 1..Len(q) - 1, r[i].d = r[j].d
               PROVE  i = j
      BY <1>3 DEF Distinct
  <2>1. PICK x \in 1..Len(q) : x = (IF i < k THEN i ELSE i + 1) /\ r[i] = q[x]
    BY <1>4
  <2>2. PICK y \in 1..Len(q) : y = (IF j < k THEN j ELSE j + 1) /\ r[j] = q[y]
    BY <1>4
  <2>3. x = y
    BY <2>1, <2>2, <1>1 DEF Distinct
  <2> QED
    BY <2>1, <2>2, <2>3, <1>1
<1>6. InQueue(r) \subseteq InQueue(q) \ {q[k].d}
  <2> SUFFICES ASSUME NEW j \in 1..Len(q) - 1
               PROVE  r[j].d \in InQueue(q) /\ r[j].d # q[k].d
      BY <1>3 DEF InQueue
  <2>1. PICK x \in 1..Len(q) : r[j] = q[x] /\ x # k
    BY <1>4
  <2> QED
    BY <2>1, <1>1 DEF Distinct, InQueue
<1>7. InQueue(q) \ {q[k].d} \subseteq InQueue(r)
  <2> SUFFICES ASSUME NEW x \in 1..Len(q), q[x].d # q[k].d
               PROVE  q[x].d \in InQueue(r)
      BY <1>1 DEF InQueue
  <2>1. CASE x < k
    <3>1. x \in 1..Len(q) - 1 /\ r[x] = q[x]
      BY <2>1, <1>1, <1>2
    <3> QED
      BY <3>1, <1>3 DEF InQueue
  <2>2. CASE x > k
    <3>1. x - 1 \in 1..Len(q) - 1 /\ ~(x - 1 < k) /\ (x - 1) + 1 = x
      BY <2>2, <1>1
    <3>2. r[x - 1] = q[(x - 1) + 1]
      BY <3>1, <1>2
    <3> QED
      BY <3>1, <3>2, <1>3 DEF InQueue
  <2> QED
    BY <2>1, <2>2, <1>1
<1> QED
  BY <1>2, <1>5, <1>6, <1>7 DEF r

\* Replacing the waiting job of a delivery leaves it one, and the others theirs.
LEMMA EnqueuedProperties ==
  ASSUME NEW q \in Seq(Job), Distinct(q), NEW d \in Delivery, NEW sched \in Nat
  PROVE  /\ Enqueued(q, d, sched) \in Seq(Job) /\ Distinct(Enqueued(q, d, sched))
         /\ InQueue(Enqueued(q, d, sched)) = InQueue(q) \cup {d}
<1> DEFINE w == Without(q, d)
           job == [d |-> d, sched |-> sched]
           r == Append(w, job)
<1>1. w \in Seq(Job) /\ Distinct(w) /\ InQueue(w) = InQueue(q) \ {d}
  <2>1. CASE \E i \in DOMAIN q : q[i].d = d
    <3> DEFINE k == CHOOSE i \in DOMAIN q : q[i].d = d
    <3>1. k \in DOMAIN q /\ q[k].d = d
      BY <2>1
    <3>2. w = RemoveAt(q, k)
      BY <2>1 DEF Without
    <3> HIDE DEF k, w
    <3> QED
      BY <3>1, <3>2, RemoveJobProperties
  <2>2. CASE ~\E i \in DOMAIN q : q[i].d = d
    BY <2>2 DEF Without, InQueue
  <2> QED
    BY <2>1, <2>2
<1>2. job \in Job /\ job.d = d
  BY DEF Job
<1> HIDE DEF w, job
<1>3. /\ r \in Seq(Job) /\ DOMAIN w = 1..Len(w) /\ DOMAIN r = 1..Len(w) + 1
      /\ \A i \in 1..Len(w) : r[i] = w[i]
      /\ r[Len(w) + 1] = job /\ Len(w) \in Nat
  BY <1>1, <1>2, AppendProperties
<1> HIDE DEF r
<1>4. /\ \A i \in 1..Len(w) + 1 : i \in 1..Len(w) \/ i = Len(w) + 1
      /\ Len(w) + 1 \in 1..Len(w) + 1 /\ 1..Len(w) \subseteq 1..Len(w) + 1
  BY <1>3
<1>5. Distinct(r)
  <2>1. \A i \in 1..Len(w) : r[i].d # r[Len(w) + 1].d
    BY <1>1, <1>2, <1>3 DEF InQueue
  <2>2. \A i, k \in 1..Len(w) : r[i].d = r[k].d => i = k
    BY <1>1, <1>3 DEF Distinct
  <2> QED
    BY <1>3, <1>4, <2>1, <2>2 DEF Distinct
<1>6. InQueue(r) \subseteq InQueue(w) \cup {d}
  BY <1>2, <1>3, <1>4 DEF InQueue
<1>7. InQueue(w) \cup {d} \subseteq InQueue(r)
  BY <1>2, <1>3, <1>4 DEF InQueue
<1>8. Enqueued(q, d, sched) = r
  BY DEF Enqueued, r, w, job
<1> QED
  BY <1>1, <1>3, <1>5, <1>6, <1>7, <1>8

\* An enqueue queues the delivery or is recorded as having raised, and loses no
\* other.
LEMMA EnqueueDeliveryProperties ==
  ASSUME DataInv, QueueInv, NEW d \in Delivery, NEW sched \in Nat,
         EnqueueDelivery(d, sched)
  PROVE  /\ QueueInv' /\ budget' \in [{"crashes", "errors", "retries"} -> Nat]
         /\ (dropped' \cup Waits') = (dropped \cup Waits \cup {d})
<1>1. CASE /\ queue' = Enqueued(queue, d, sched) /\ dropped' = dropped \ {d}
           /\ UNCHANGED budget
  <2>1. /\ queue' \in Seq(Job) /\ Distinct(queue') /\ InQueue(queue') = InQueue(queue) \cup {d}
    BY <1>1, EnqueuedProperties DEF QueueInv
  <2> QED
    BY <1>1, <2>1 DEF QueueInv, Waits, DataInv
<1>2. CASE /\ budget' = [budget EXCEPT !["errors"] = @ + 1]
           /\ dropped' = dropped \cup {d} /\ UNCHANGED queue
  <2>1. budget["errors"] + 1 \in Nat
    BY DEF DataInv
  <2> QED
    BY <1>2, <2>1 DEF QueueInv, Waits, DataInv
<1> QED
  BY <1>1, <1>2 DEF EnqueueDelivery

-----------------------------------------------------------------------------
(***************************************************************************)
(* The running jobs.                                                       *)
(***************************************************************************)
LEMMA DeliveryProperties ==
  /\ Idle.d \notin Delivery /\ Idle.at = "idle"
  /\ \A d \in Delivery : EndpointOf(d) \in Endpoint
BY EventAssumption DEF Delivery, EndpointOf, Idle

\* A running job that goes on is still an attempt until it is done.
LEMMA GoToProperties ==
  ASSUME RunInv, NEW e \in Endpoint, run[e].at # "idle",
         NEW place \in Place \ {"idle"}, GoTo(e, place)
  PROVE  /\ RunInv' /\ run'[e].d = run[e].d /\ run'[e].at = place
         /\ \A o \in Endpoint \ {e} : run'[o] = run[o]
         /\ Attempted \ {run[e].d} \subseteq Attempted'
         /\ place # "done" => Attempted \subseteq Attempted'
<1>1. run[e] \in Slot /\ run[e].d \in Delivery /\ EndpointOf(run[e].d) = e
  BY DeliveryProperties DEF RunInv
<1>2. /\ run'[e] = [run[e] EXCEPT !.at = place]
      /\ \A o \in Endpoint \ {e} : run'[o] = run[o]
      /\ run' = [run EXCEPT ![e] = [run[e] EXCEPT !.at = place]]
  BY DEF GoTo, RunInv
<1>3. run'[e] \in Slot /\ run'[e].d = run[e].d /\ run'[e].at = place
  BY <1>1, <1>2 DEF Slot
<1>4. run' \in [Endpoint -> Slot]
  BY <1>2, <1>3 DEF RunInv
<1>5. RunInv'
  <2> SUFFICES ASSUME NEW o \in Endpoint
               PROVE  \/ run'[o] = Idle
                      \/ /\ run'[o].d \in Delivery /\ EndpointOf(run'[o].d) = o
                         /\ run'[o].at # "idle"
      BY <1>4 DEF RunInv
  <2> QED
    BY <1>1, <1>2, <1>3 DEF RunInv
<1>6. ASSUME NEW d \in Attempted, d # run[e].d \/ place # "done" PROVE d \in Attempted'
  <2>1. d \in Delivery /\ EndpointOf(d) \in Endpoint
    BY DeliveryProperties DEF Attempted
  <2>2. run[EndpointOf(d)].d = d /\ run[EndpointOf(d)].at # "done"
    BY DEF Attempted, Attempting
  <2>3. run'[EndpointOf(d)].d = d /\ run'[EndpointOf(d)].at # "done"
    BY <1>2, <1>3, <1>6, <2>1, <2>2
  <2> QED
    BY <2>1, <2>3 DEF Attempted, Attempting
<1> QED
  BY <1>2, <1>3, <1>5, <1>6

\* Steps that leave the running jobs alone, and what their attempts rely on.
LEMMA AttemptsUnchanged ==
  ASSUME RunInv, AttemptsInv, UNCHANGED run,
         \A e \in Endpoint : run[e].at \in InFlight =>
           /\ row'[run[e].d].status # "delivered"
           /\ row'[run[e].d].attempts < MaxAttempts,
         got \subseteq got'
  PROVE  RunInv' /\ AttemptsInv' /\ Attempted' = Attempted
BY DEF RunInv, AttemptsInv, InFlight, Attempted, Attempting

-----------------------------------------------------------------------------
(***************************************************************************)
(* The handlers.                                                           *)
(***************************************************************************)
\* A running job is for a delivery whose row exists.
LEMMA RunningIsDelivery ==
  ASSUME RunInv, NEW e \in Endpoint, run[e].at # "idle"
  PROVE  run[e] \in Slot /\ run[e].d \in Delivery /\ EndpointOf(run[e].d) = e
BY DeliveryProperties DEF RunInv

LEMMA AddLifecycleEventInv ==
  ASSUME Inv, NEW ev \in Event, AddLifecycleEvent(ev)
  PROVE  Inv'
<1> USE DEF Inv
<1> DEFINE ds == {d \in {ev} \X Endpoint : endpoint[EndpointOf(d)] = "enabled"}
           fresh == [status |-> "pending", attempts |-> 0, next |-> now]
<1>1. /\ ds \subseteq Delivery
      /\ row' = [d \in Delivery |-> IF d \in ds THEN fresh ELSE row[d]]
      /\ unqueued' = unqueued \cup ds
      /\ UNCHANGED <<endpoint, queue, run, server, toRecover, now, got, dropped, budget>>
  BY DEF AddLifecycleEvent, history, Delivery
<1>2. /\ fresh \in Row /\ fresh.status = "pending" /\ fresh.attempts = 0
      /\ 0 < MaxAttempts
  BY AttemptAssumption, BoundAssumption DEF DataInv, Row, Status
<1> HIDE DEF ds, fresh
<1>3. \A d \in Delivery : row'[d] = fresh \/ (row'[d] = row[d] /\ d \notin ds)
  BY <1>1
<1>4. DataInv'
  BY <1>1, <1>2, <1>3 DEF DataInv
<1>5. \A e \in Endpoint : run[e].at \in InFlight =>
           /\ row'[run[e].d].status # "delivered"
           /\ row'[run[e].d].attempts < MaxAttempts
  BY <1>2, <1>3, RunningIsDelivery DEF AttemptsInv, InFlight, Outcome
<1>6. RunInv' /\ AttemptsInv' /\ Attempted' = Attempted
  BY <1>1, <1>5, AttemptsUnchanged
<1>7. PendingRows' \subseteq PendingRows \cup ds
  BY <1>1, <1>3 DEF PendingRows
<1> QED
  BY <1>1, <1>4, <1>6, <1>7 DEF QueueInv, CarriedInv, Waits

LEMMA EnqueueEventDeliveryInv ==
  ASSUME Inv, NEW d \in Delivery, EnqueueEventDelivery(d)
  PROVE  Inv'
<1> USE DEF Inv
<1>1. /\ unqueued' = unqueued \ {d}
      /\ UNCHANGED <<endpoint, row, run, server, toRecover, now, got>>
  BY DEF EnqueueEventDelivery
<1>2. row[d].next \in Nat
  BY DEF DataInv, Row
<1>3. RunInv' /\ AttemptsInv' /\ Attempted' = Attempted
  BY <1>1, AttemptsUnchanged DEF AttemptsInv
<1>4. CASE EnqueueDelivery(d, row[d].next)
  <2>1. /\ QueueInv' /\ budget' \in [{"crashes", "errors", "retries"} -> Nat]
        /\ (dropped' \cup Waits') = (dropped \cup Waits \cup {d})
    BY <1>2, <1>4, EnqueueDeliveryProperties
  <2>2. DataInv'
    BY <1>1, <2>1 DEF DataInv
  <2>3. CarriedInv'
    BY <1>1, <1>3, <2>1 DEF CarriedInv, PendingRows
  <2> QED
    BY <1>3, <2>1, <2>2, <2>3
<1>5. CASE row[d].status # "pending" /\ UNCHANGED <<queue, dropped, budget>>
  BY <1>1, <1>3, <1>5 DEF DataInv, QueueInv, CarriedInv, Waits, PendingRows
<1> QED
  BY <1>4, <1>5 DEF EnqueueEventDelivery

LEMMA UpdateWebhookEndpointInv ==
  ASSUME Inv, NEW e \in Endpoint, UpdateWebhookEndpoint(e)
  PROVE  Inv'
<1> USE DEF Inv
<1>1. /\ endpoint' \in [Endpoint -> {"enabled", "disabled", "deleted"}]
      /\ UNCHANGED <<row, unqueued, queue, run, server, toRecover, now, got, dropped,
                     budget>>
  BY DEF UpdateWebhookEndpoint, DataInv, history
<1>2. RunInv' /\ AttemptsInv' /\ Attempted' = Attempted
  BY <1>1, AttemptsUnchanged DEF AttemptsInv
<1> QED
  BY <1>1, <1>2 DEF DataInv, QueueInv, CarriedInv, Waits, PendingRows

LEMMA DeleteWebhookEndpointInv ==
  ASSUME Inv, NEW e \in Endpoint, DeleteWebhookEndpoint(e)
  PROVE  Inv'
<1> USE DEF Inv
<1>1. /\ endpoint' \in [Endpoint -> {"enabled", "disabled", "deleted"}]
      /\ row' = [d \in Delivery |->
                   IF EndpointOf(d) = e /\ d \in PendingRows
                   THEN [row[d] EXCEPT !.status = "canceled"] ELSE row[d]]
      /\ UNCHANGED <<unqueued, queue, run, server, toRecover, now, got, dropped, budget>>
  BY DEF DeleteWebhookEndpoint, DataInv, history
<1>2. \A d \in Delivery :
        /\ row'[d] \in Row /\ row'[d].attempts = row[d].attempts
        /\ row'[d].status \in {row[d].status, "canceled"}
  BY <1>1 DEF DataInv, Row, Status
<1>3. DataInv'
  BY <1>1, <1>2 DEF DataInv
<1>4. \A o \in Endpoint : run[o].at \in InFlight =>
           /\ row'[run[o].d].status # "delivered"
           /\ row'[run[o].d].attempts < MaxAttempts
  BY <1>2, RunningIsDelivery DEF AttemptsInv, InFlight, Outcome
<1>5. RunInv' /\ AttemptsInv' /\ Attempted' = Attempted
  BY <1>1, <1>4, AttemptsUnchanged
<1>6. PendingRows' \subseteq PendingRows
  BY <1>1, <1>2 DEF PendingRows
<1> QED
  BY <1>1, <1>3, <1>5, <1>6 DEF QueueInv, CarriedInv, Waits

LEMMA RetryWebhookDeliveryInv ==
  ASSUME Inv, NEW d \in Delivery, RetryWebhookDelivery(d)
  PROVE  Inv'
<1> USE DEF Inv
<1> DEFINE fresh == [status |-> "pending", attempts |-> 0, next |-> now]
<1>1. /\ row' = [row EXCEPT ![d] = fresh] /\ unqueued' = unqueued \cup {d}
      /\ budget' = [budget EXCEPT !["retries"] = @ + 1]
      /\ UNCHANGED <<endpoint, queue, run, server, toRecover, now, got, dropped>>
  BY DEF RetryWebhookDelivery
<1>2. /\ fresh \in Row /\ fresh.status = "pending" /\ fresh.attempts = 0
      /\ 0 < MaxAttempts /\ budget["retries"] + 1 \in Nat
  BY AttemptAssumption, BoundAssumption DEF DataInv, Row, Status
<1> HIDE DEF fresh
<1>3. row'[d] = fresh /\ \A o \in Delivery \ {d} : row'[o] = row[o]
  BY <1>1 DEF DataInv
<1>4. DataInv'
  BY <1>1, <1>2, <1>3 DEF DataInv
<1>5. \A e \in Endpoint : run[e].at \in InFlight =>
           /\ row'[run[e].d].status # "delivered"
           /\ row'[run[e].d].attempts < MaxAttempts
  BY <1>2, <1>3, RunningIsDelivery DEF AttemptsInv, InFlight, Outcome
<1>6. RunInv' /\ AttemptsInv' /\ Attempted' = Attempted
  BY <1>1, <1>5, AttemptsUnchanged
<1>7. PendingRows' \subseteq PendingRows \cup {d}
  BY <1>1, <1>3 DEF PendingRows
<1> QED
  BY <1>1, <1>4, <1>6, <1>7 DEF QueueInv, CarriedInv, Waits

-----------------------------------------------------------------------------
(***************************************************************************)
(* The job.                                                                *)
(***************************************************************************)
\* A claimed job is carried by its attempt from then on.
LEMMA ClaimInv ==
  ASSUME Inv, NEW e \in Endpoint, Claim(e)
  PROVE  Inv'
<1> USE DEF Inv
<1>1. PICK i \in Waiting(e) :
        /\ run' = [run EXCEPT ![e] = [d |-> queue[i].d, at |-> "claimed"]]
        /\ queue' = RemoveAt(queue, i)
  BY DEF Claim
<1>2. UNCHANGED <<endpoint, row, unqueued, server, toRecover, now, got, dropped, budget>>
  BY DEF Claim, history
<1> DEFINE d == queue[i].d
<1>3. i \in DOMAIN queue /\ EndpointOf(d) = e
  BY <1>1 DEF Waiting
<1>4. d \in Delivery
  <2>1. queue[i] \in Job
    BY <1>3 DEF QueueInv
  <2> QED
    BY <2>1 DEF Job
<1>5. QueueInv' /\ Waits' = Waits \ {d}
  BY <1>1, <1>3, RemoveJobProperties DEF QueueInv, Waits
<1> HIDE DEF d
<1>6. /\ run'[e] = [d |-> d, at |-> "claimed"] /\ run[e] = Idle
      /\ \A o \in Endpoint \ {e} : run'[o] = run[o]
      /\ run' \in [Endpoint -> Slot]
  <2>1. [d |-> d, at |-> "claimed"] \in Slot
    BY <1>4 DEF Slot, Place
  <2> QED
    BY <1>1, <2>1 DEF RunInv, d, Claim
<1>7. RunInv'
  <2> SUFFICES ASSUME NEW o \in Endpoint
               PROVE  \/ run'[o] = Idle
                      \/ /\ run'[o].d \in Delivery /\ EndpointOf(run'[o].d) = o
                         /\ run'[o].at # "idle"
      BY <1>6 DEF RunInv
  <2> QED
    BY <1>3, <1>4, <1>6 DEF RunInv
<1>8. AttemptsInv'
  <2> SUFFICES ASSUME NEW o \in Endpoint
               PROVE  /\ run'[o].at \in InFlight =>
                           /\ row[run'[o].d].status # "delivered"
                           /\ row[run'[o].d].attempts < MaxAttempts
                      /\ run'[o].at = "success" => run'[o].d \in got
      BY <1>2 DEF AttemptsInv
  <2>1. CASE o = e
    BY <1>6, <2>1 DEF InFlight, Outcome
  <2>2. CASE o # e
    BY <1>6, <2>2 DEF AttemptsInv
  <2> QED
    BY <2>1, <2>2
<1>9. Attempted \cup {d} \subseteq Attempted'
  <2>1. d \in Attempted'
    BY <1>3, <1>4, <1>6 DEF Attempted, Attempting
  <2>2. ASSUME NEW x \in Attempted PROVE x \in Attempted'
    <3>1. /\ x \in Delivery /\ EndpointOf(x) \in Endpoint
          /\ run[EndpointOf(x)].d = x /\ run[EndpointOf(x)].at # "done"
      BY DeliveryProperties DEF Attempted, Attempting
    <3>2. EndpointOf(x) # e
      BY <3>1, <1>6, DeliveryProperties
    <3>3. run'[EndpointOf(x)] = run[EndpointOf(x)]
      BY <3>1, <3>2, <1>6
    <3> QED
      BY <3>1, <3>3 DEF Attempted, Attempting
  <2> QED
    BY <2>1, <2>2
<1> QED
  BY <1>2, <1>5, <1>7, <1>8, <1>9 DEF DataInv, CarriedInv, PendingRows

\* The first half: only a pending row is sent.
LEMMA ReadDeliveryInv ==
  ASSUME Inv, NEW e \in Endpoint, ReadDelivery(e)
  PROVE  Inv'
<1> USE DEF Inv
<1> DEFINE d == run[e].d
<1>1. /\ run[e].at = "claimed"
      /\ UNCHANGED <<endpoint, unqueued, queue, server, toRecover, now, got, dropped, budget>>
  BY DEF ReadDelivery, At, history
<1>2. d \in Delivery /\ EndpointOf(d) = e
  BY <1>1, RunningIsDelivery
<1>3. PICK place \in {"sending", "done"} :
        /\ GoTo(e, place)
        /\ \/ row' = row \/ (place = "done" /\ row' = [row EXCEPT ![d].status = "canceled"])
        /\ place = "sending" => row[d].status = "pending" /\ row' = row
        /\ place = "done" => row'[d].status # "pending"
  BY <1>2 DEF ReadDelivery, DataInv, Row
<1> HIDE DEF d
<1>4. /\ RunInv' /\ run'[e].d = d /\ run'[e].at = place
      /\ \A o \in Endpoint \ {e} : run'[o] = run[o]
      /\ Attempted \ {d} \subseteq Attempted'
      /\ place # "done" => Attempted \subseteq Attempted'
  BY <1>1, <1>3, GoToProperties DEF d, Place
<1>5. \A o \in Delivery :
        /\ row'[o] \in Row /\ row'[o].attempts = row[o].attempts
        /\ row'[o].status \in {row[o].status, "canceled"}
  BY <1>2, <1>3 DEF DataInv, Row, Status
<1>6. DataInv'
  BY <1>1, <1>2, <1>3, <1>5 DEF DataInv
<1>7. AttemptsInv'
  <2> SUFFICES ASSUME NEW o \in Endpoint
               PROVE  /\ run'[o].at \in InFlight =>
                           /\ row'[run'[o].d].status # "delivered"
                           /\ row'[run'[o].d].attempts < MaxAttempts
                      /\ run'[o].at = "success" => run'[o].d \in got
      BY <1>1 DEF AttemptsInv
  <2>1. CASE o = e
    BY <1>2, <1>3, <1>4, <2>1 DEF InFlight, Outcome, DataInv
  <2>2. CASE o # e
    <3>1. run'[o] = run[o]
      BY <1>4, <2>2
    <3>2. run[o].at \in InFlight => run[o].d \in Delivery
      BY RunningIsDelivery DEF InFlight, Outcome
    <3> QED
      BY <1>5, <3>1, <3>2 DEF AttemptsInv
  <2> QED
    BY <2>1, <2>2
<1>8. PendingRows' \subseteq PendingRows
  BY <1>5 DEF PendingRows
<1>9. CarriedInv'
  <2>1. d \in PendingRows' => place # "done"
    BY <1>3 DEF PendingRows
  <2> QED
    BY <1>1, <1>4, <1>8, <2>1 DEF CarriedInv, Waits
<1> QED
  BY <1>1, <1>4, <1>6, <1>7, <1>9 DEF QueueInv

LEMMA SendInv ==
  ASSUME Inv, NEW e \in Endpoint, Send(e)
  PROVE  Inv'
<1> USE DEF Inv
<1>1. PICK outcome \in Outcome, accepted \in BOOLEAN :
        /\ outcome = "success" => accepted
        /\ GoTo(e, outcome)
        /\ got' = IF accepted THEN got \cup {run[e].d} ELSE got
  BY DEF Send
<1>2. /\ run[e].at = "sending"
      /\ UNCHANGED <<endpoint, row, unqueued, queue, server, toRecover, now, dropped, budget>>
  BY DEF Send, At
<1>3. /\ RunInv' /\ run'[e].d = run[e].d /\ run'[e].at = outcome
      /\ \A o \in Endpoint \ {e} : run'[o] = run[o]
      /\ Attempted \subseteq Attempted'
  BY <1>1, <1>2, GoToProperties DEF Place, Outcome
<1>4. AttemptsInv'
  <2> SUFFICES ASSUME NEW o \in Endpoint
               PROVE  /\ run'[o].at \in InFlight =>
                           /\ row[run'[o].d].status # "delivered"
                           /\ row[run'[o].d].attempts < MaxAttempts
                      /\ run'[o].at = "success" => run'[o].d \in got'
      BY <1>2 DEF AttemptsInv
  <2>1. CASE o = e
    BY <1>1, <1>2, <1>3, <2>1 DEF AttemptsInv, InFlight
  <2>2. CASE o # e
    BY <1>1, <1>3, <2>2 DEF AttemptsInv
  <2> QED
    BY <2>1, <2>2
<1> QED
  BY <1>2, <1>3, <1>4 DEF DataInv, QueueInv, CarriedInv, Waits, PendingRows

\* The second half: one attempt more than before the call, so MaxAttempts at the
\* most, and a row that stays pending is about to be queued again.
LEMMA RecordAttemptInv ==
  ASSUME Inv, NEW e \in Endpoint, RecordAttempt(e)
  PROVE  Inv'
<1> USE DEF Inv
<1> DEFINE d == run[e].d
           attempts == row[d].attempts + 1
<1>1. /\ run[e].at \in Outcome
      /\ UNCHANGED <<endpoint, unqueued, queue, server, toRecover, now, got, dropped, budget>>
  BY DEF RecordAttempt, history
<1>2. /\ d \in Delivery /\ EndpointOf(d) = e /\ run[e].at # "idle"
      /\ row[d].attempts < MaxAttempts /\ row[d] \in Row
  BY <1>1, RunningIsDelivery DEF Outcome, AttemptsInv, InFlight, DataInv
<1>3. attempts \in 0..MaxAttempts
  BY <1>2, AttemptAssumption DEF Row
<1>4. PICK place \in {"requeue", "done"} :
        /\ GoTo(e, place)
        /\ \A o \in Delivery \ {d} : row'[o] = row[o]
        /\ row' \in [Delivery -> Row]
        /\ place = "done" => row'[d].status # "pending"
        /\ place = "requeue" => row'[d].attempts < MaxAttempts
  <2>1. CASE /\ row' = [row EXCEPT ![d].attempts = attempts, ![d].status = "delivered"]
             /\ GoTo(e, "done")
    <3>1. /\ row'[d] = [row[d] EXCEPT !.attempts = attempts, !.status = "delivered"]
          /\ \A o \in Delivery \ {d} : row'[o] = row[o]
      BY <1>2, <2>1 DEF DataInv
    <3>2. row'[d] \in Row /\ row'[d].status = "delivered"
      BY <1>2, <1>3, <3>1 DEF Row, Status
    <3> QED
      BY <2>1, <3>1, <3>2 DEF DataInv
  <2>2. CASE /\ row' = [row EXCEPT ![d].attempts = attempts, ![d].status = "failed"]
             /\ GoTo(e, "done")
    <3>1. /\ row'[d] = [row[d] EXCEPT !.attempts = attempts, !.status = "failed"]
          /\ \A o \in Delivery \ {d} : row'[o] = row[o]
      BY <1>2, <2>2 DEF DataInv
    <3>2. row'[d] \in Row /\ row'[d].status = "failed"
      BY <1>2, <1>3, <3>1 DEF Row, Status
    <3> QED
      BY <2>2, <3>1, <3>2 DEF DataInv
  <2>3. CASE /\ ~GivesUp(run[e].at, attempts)
             /\ \E at \in {now, now + 1} \cap (0..MaxTime) :
                  row' = [row EXCEPT ![d].attempts = attempts, ![d].next = at]
             /\ GoTo(e, "requeue")
    <3>1. PICK at \in {now, now + 1} \cap (0..MaxTime) :
            row' = [row EXCEPT ![d].attempts = attempts, ![d].next = at]
      BY <2>3
    <3>2. /\ row'[d] = [row[d] EXCEPT !.attempts = attempts, !.next = at]
          /\ \A o \in Delivery \ {d} : row'[o] = row[o]
      BY <1>2, <3>1 DEF DataInv
    <3>3. at \in Nat /\ attempts < MaxAttempts
      BY <1>3, <2>3, AttemptAssumption, BoundAssumption DEF GivesUp, Exhausted
    <3>4. row'[d] \in Row /\ row'[d].attempts < MaxAttempts
      BY <1>2, <1>3, <3>2, <3>3 DEF Row
    <3> QED
      BY <2>3, <3>1, <3>2, <3>4 DEF DataInv
  <2> QED
    BY <2>1, <2>2, <2>3 DEF RecordAttempt
<1> HIDE DEF d, attempts
<1>5. /\ RunInv' /\ run'[e].d = d /\ run'[e].at = place
      /\ \A o \in Endpoint \ {e} : run'[o] = run[o]
      /\ Attempted \ {d} \subseteq Attempted'
      /\ place # "done" => Attempted \subseteq Attempted'
  BY <1>2, <1>4, GoToProperties DEF d, Place
<1>6. DataInv'
  <2>1. ASSUME NEW o \in Delivery, row'[o].status = "pending"
        PROVE  row'[o].attempts < MaxAttempts
    BY <1>4, <2>1 DEF DataInv
  <2> QED
    BY <1>1, <1>4, <2>1 DEF DataInv
<1>7. AttemptsInv'
  <2> SUFFICES ASSUME NEW o \in Endpoint
               PROVE  /\ run'[o].at \in InFlight =>
                           /\ row'[run'[o].d].status # "delivered"
                           /\ row'[run'[o].d].attempts < MaxAttempts
                      /\ run'[o].at = "success" => run'[o].d \in got
      BY <1>1 DEF AttemptsInv
  <2>1. CASE o = e
    BY <1>4, <1>5, <2>1 DEF InFlight, Outcome
  <2>2. CASE o # e
    <3>1. run'[o] = run[o]
      BY <1>5, <2>2
    <3>2. run[o].at \in InFlight => run[o].d \in Delivery \ {d}
      BY <1>2, <2>2, RunningIsDelivery DEF InFlight, Outcome
    <3> QED
      BY <1>4, <3>1, <3>2 DEF AttemptsInv
  <2> QED
    BY <2>1, <2>2
<1>8. CarriedInv'
  <2>1. PendingRows' \ {d} \subseteq PendingRows
    BY <1>4 DEF PendingRows
  <2>2. d \in PendingRows' => d \in Attempted'
    BY <1>2, <1>4, <1>5 DEF PendingRows, Attempted, Attempting
  <2> QED
    BY <1>1, <1>5, <2>1, <2>2 DEF CarriedInv, Waits
<1> QED
  BY <1>1, <1>5, <1>6, <1>7, <1>8 DEF QueueInv

LEMMA RequeueInv ==
  ASSUME Inv, NEW e \in Endpoint, Requeue(e)
  PROVE  Inv'
<1> USE DEF Inv
<1> DEFINE d == run[e].d
<1>1. /\ run[e].at = "requeue" /\ EnqueueDelivery(d, row[d].next) /\ GoTo(e, "done")
      /\ UNCHANGED <<endpoint, row, unqueued, server, toRecover, now, got>>
  BY DEF Requeue, At
<1>2. d \in Delivery /\ row[d].next \in Nat
  BY <1>1, RunningIsDelivery DEF DataInv, Row
<1>3. /\ QueueInv' /\ budget' \in [{"crashes", "errors", "retries"} -> Nat]
      /\ (dropped' \cup Waits') = (dropped \cup Waits \cup {d})
  BY <1>1, <1>2, EnqueueDeliveryProperties
<1> HIDE DEF d
<1>4. /\ RunInv' /\ run'[e].d = d /\ run'[e].at = "done"
      /\ \A o \in Endpoint \ {e} : run'[o] = run[o]
      /\ Attempted \ {d} \subseteq Attempted'
  BY <1>1, GoToProperties DEF d, Place
<1>5. AttemptsInv'
  BY <1>1, <1>4 DEF AttemptsInv, InFlight, Outcome
<1>6. CarriedInv'
  BY <1>1, <1>3, <1>4 DEF CarriedInv, PendingRows
<1> QED
  BY <1>1, <1>3, <1>4, <1>5, <1>6 DEF DataInv

LEMMA FinishJobInv ==
  ASSUME Inv, NEW e \in Endpoint, FinishJob(e)
  PROVE  Inv'
<1> USE DEF Inv
<1>1. /\ run[e].at = "done" /\ run' = [run EXCEPT ![e] = Idle]
      /\ UNCHANGED <<endpoint, row, unqueued, queue, server, toRecover, now, got, dropped,
                     budget>>
  BY DEF FinishJob, At, history
<1>2. /\ run' \in [Endpoint -> Slot] /\ run'[e] = Idle
      /\ \A o \in Endpoint \ {e} : run'[o] = run[o]
  BY <1>1 DEF RunInv, Slot, Place, Idle
<1>3. RunInv'
  BY <1>2 DEF RunInv
<1>4. AttemptsInv'
  BY <1>1, <1>2, DeliveryProperties DEF AttemptsInv, InFlight, Outcome
<1>5. Attempted \subseteq Attempted'
  <2> SUFFICES ASSUME NEW x \in Attempted PROVE x \in Attempted'
      OBVIOUS
  <2>1. /\ x \in Delivery /\ EndpointOf(x) \in Endpoint
        /\ run[EndpointOf(x)].d = x /\ run[EndpointOf(x)].at # "done"
    BY DeliveryProperties DEF Attempted, Attempting
  <2>2. run'[EndpointOf(x)] = run[EndpointOf(x)]
    BY <1>1, <1>2, <2>1
  <2> QED
    BY <2>1, <2>2 DEF Attempted, Attempting
<1> QED
  BY <1>1, <1>3, <1>4, <1>5 DEF DataInv, QueueInv, CarriedInv, Waits, PendingRows

-----------------------------------------------------------------------------
(***************************************************************************)
(* Crash, restart and recovery.                                            *)
(***************************************************************************)
LEMMA CrashInv ==
  ASSUME Inv, Crash
  PROVE  Inv'
<1> USE DEF Inv
<1>1. /\ server' = "down" /\ run' = [e \in Endpoint |-> Idle]
      /\ unqueued' = {} /\ toRecover' = {}
      /\ budget' = [budget EXCEPT !["crashes"] = @ + 1]
      /\ UNCHANGED <<endpoint, row, queue, now, got, dropped>>
  BY DEF Crash, history
<1>2. budget["crashes"] + 1 \in Nat
  BY DEF DataInv
<1>3. DataInv' /\ QueueInv' /\ CarriedInv'
  BY <1>1, <1>2 DEF DataInv, QueueInv, CarriedInv
<1>4. Idle \in Slot
  BY DEF Slot, Place, Idle
<1>5. RunInv' /\ AttemptsInv'
  BY <1>1, <1>4, DeliveryProperties DEF RunInv, AttemptsInv, InFlight, Outcome
<1> QED
  BY <1>3, <1>5

\* The start that follows a crash finds every pending delivery.
LEMMA RestartInv ==
  ASSUME Inv, Restart
  PROVE  Inv'
<1> USE DEF Inv
<1>1. /\ server' = "recovering" /\ toRecover' = PendingRows
      /\ UNCHANGED <<endpoint, row, unqueued, queue, run, now, got, dropped, budget>>
  BY DEF Restart, history
<1>2. RunInv' /\ AttemptsInv' /\ Attempted' = Attempted
  BY <1>1, AttemptsUnchanged DEF AttemptsInv
<1> QED
  BY <1>1, <1>2 DEF DataInv, QueueInv, CarriedInv, PendingRows

LEMMA RecoverOneInv ==
  ASSUME Inv, RecoverOne
  PROVE  Inv'
<1> USE DEF Inv
<1>1. PICK d \in toRecover :
        toRecover' = toRecover \ {d} /\ EnqueueDelivery(d, row[d].next)
  BY DEF RecoverOne
<1>2. UNCHANGED <<endpoint, row, unqueued, run, server, now, got>>
  BY DEF RecoverOne
<1>3. d \in Delivery /\ row[d].next \in Nat
  BY DEF DataInv, Row
<1>4. /\ QueueInv' /\ budget' \in [{"crashes", "errors", "retries"} -> Nat]
      /\ (dropped' \cup Waits') = (dropped \cup Waits \cup {d})
  BY <1>1, <1>3, EnqueueDeliveryProperties
<1>5. RunInv' /\ AttemptsInv' /\ Attempted' = Attempted
  BY <1>2, AttemptsUnchanged DEF AttemptsInv
<1>6. CarriedInv'
  BY <1>1, <1>2, <1>4, <1>5 DEF CarriedInv, PendingRows
<1> QED
  BY <1>1, <1>2, <1>4, <1>5, <1>6 DEF DataInv

LEMMA ClockAndPoolInv ==
  ASSUME Inv, StartWorkerPool \/ Tick \/ UNCHANGED vars
  PROVE  Inv'
<1> USE DEF Inv
<1>1. /\ server' \in {server, "up"}
      /\ server = "down" => server' = "down"
      /\ now' \in 0..MaxTime
      /\ UNCHANGED <<endpoint, row, unqueued, queue, run, toRecover, got, dropped, budget>>
  BY BoundAssumption DEF StartWorkerPool, Tick, vars, history, DataInv
<1>2. RunInv' /\ AttemptsInv' /\ Attempted' = Attempted
  BY <1>1, AttemptsUnchanged DEF AttemptsInv
<1> QED
  BY <1>1, <1>2 DEF DataInv, QueueInv, CarriedInv, Waits, PendingRows

-----------------------------------------------------------------------------
(***************************************************************************)
(* The theorems.                                                           *)
(***************************************************************************)
LEMMA InitInv == Init => Inv
<1> SUFFICES ASSUME Init PROVE Inv
    OBVIOUS
<1> USE DEF Init
<1>1. [status |-> "absent", attempts |-> 0, next |-> 0] \in Row /\ Idle \in Slot
  BY AttemptAssumption DEF Row, Status, Slot, Place, Idle
<1>2. DataInv
  BY <1>1, BoundAssumption DEF DataInv
<1>3. QueueInv
  BY DEF QueueInv, Distinct
<1>4. RunInv /\ AttemptsInv
  BY <1>1, DeliveryProperties DEF RunInv, AttemptsInv, InFlight, Outcome
<1>5. CarriedInv
  BY DEF CarriedInv, PendingRows
<1> QED
  BY <1>2, <1>3, <1>4, <1>5 DEF Inv

LEMMA StepInv == Inv /\ [Next]_vars => Inv'
<1> SUFFICES ASSUME Inv, [Next]_vars PROVE Inv'
    OBVIOUS
<1>1. CASE \E ev \in Event : AddLifecycleEvent(ev)
  BY <1>1, AddLifecycleEventInv
<1>2. CASE \E d \in Delivery : EnqueueEventDelivery(d) \/ RetryWebhookDelivery(d)
  BY <1>2, EnqueueEventDeliveryInv, RetryWebhookDeliveryInv
<1>3. CASE \E e \in Endpoint : UpdateWebhookEndpoint(e) \/ DeleteWebhookEndpoint(e)
  BY <1>3, UpdateWebhookEndpointInv, DeleteWebhookEndpointInv
<1>4. ASSUME NEW e \in Endpoint, JobStep(e) PROVE Inv'
  BY <1>4, ClaimInv, ReadDeliveryInv, SendInv, RecordAttemptInv, RequeueInv, FinishJobInv
     DEF JobStep
<1>5. CASE Crash \/ Restart \/ RecoverOne
  BY <1>5, CrashInv, RestartInv, RecoverOneInv
<1>6. CASE StartWorkerPool \/ Tick \/ UNCHANGED vars
  BY <1>6, ClockAndPoolInv
<1> QED
  BY <1>1, <1>2, <1>3, <1>4, <1>5, <1>6 DEF Next

\* The inductive invariant of the component.
THEOREM InvariantHolds == Spec => []Inv
<1> QED
  BY InitInv, StepInv, PTL DEF Spec

\* The tables and the queue keep their types: whatever crashes, raises or is
\* retried by hand, a delivery has one waiting job at most (replace_pending) and
\* is never attempted more than MAX_DELIVERY_ATTEMPTS times.
THEOREM TypeCorrect == Spec => []TypeOK
<1>1. Inv => TypeOK
  <2> SUFFICES ASSUME Inv PROVE TypeOK
      OBVIOUS
  <2>1. \A e \in Endpoint :
          \/ run[e] = Idle
          \/ /\ EndpointOf(run[e].d) = e
             /\ run[e].at \in {"claimed", "sending", "requeue", "done"} \cup Outcome
    <3> TAKE e \in Endpoint
    <3>1. run[e] \in Slot
      BY DEF Inv, RunInv
    <3> QED
      BY <3>1 DEF Inv, RunInv, Slot, Place
  <2> QED
    BY <2>1 DEF Inv, DataInv, QueueInv, TypeOK, Distinct, Row, Status, Job
<1> QED
  BY <1>1, InvariantHolds, PTL

\* A pending row is always carried: by the handler that committed it, the queue,
\* a running attempt or the recovery of this start, unless the server is down or
\* its last enqueue raised.
THEOREM PendingStaysCarried == Spec => []PendingIsCarried
<1>1. Inv => PendingIsCarried
  BY DEF Inv, CarriedInv, PendingIsCarried, Waits, InQueue, Queued, Attempted
<1> QED
  BY <1>1, InvariantHolds, PTL

\* A step that settles a row on "delivered" has the receiver's acceptance, and one
\* that takes the verdict back starts the delivery afresh.
VerdictStep(d) ==
  /\ row[d].status = "delivered" =>
       row'[d].status = "delivered" \/ row'[d].attempts = 0
  /\ row[d].status # "delivered" /\ row'[d].status = "delivered" => d \in got

LEMMA DeliveredStep ==
  ASSUME Inv, [Next]_vars, NEW d \in Delivery
  PROVE  VerdictStep(d)
<1> USE DEF Inv, VerdictStep
<1>0. row[d] \in Row /\ row \in [Delivery -> Row]
  BY DEF DataInv
<1>1. ASSUME row'[d] = row[d] PROVE VerdictStep(d)
  BY <1>1
<1>2. ASSUME NEW ev \in Event, AddLifecycleEvent(ev) PROVE VerdictStep(d)
  <2>1. row'[d] = row[d] \/ row'[d] = [status |-> "pending", attempts |-> 0, next |-> now]
    BY <1>2 DEF AddLifecycleEvent
  <2> QED
    BY <2>1
<1>3. ASSUME NEW o \in Delivery, RetryWebhookDelivery(o) PROVE VerdictStep(d)
  <2>1. row'[d] = row[d] \/ row'[d] = [status |-> "pending", attempts |-> 0, next |-> now]
    BY <1>0, <1>3 DEF RetryWebhookDelivery
  <2> QED
    BY <2>1
<1>4. ASSUME NEW e \in Endpoint, DeleteWebhookEndpoint(e) PROVE VerdictStep(d)
  <2>1. \/ row'[d] = row[d]
        \/ row'[d] = [row[d] EXCEPT !.status = "canceled"] /\ row[d].status = "pending"
    BY <1>4 DEF DeleteWebhookEndpoint, PendingRows
  <2> QED
    BY <2>1, <1>0 DEF Row
<1>5. ASSUME NEW e \in Endpoint, ReadDelivery(e) PROVE VerdictStep(d)
  <2>1. \/ row'[d] = row[d]
        \/ row'[d] = [row[d] EXCEPT !.status = "canceled"] /\ row[d].status = "pending"
    BY <1>0, <1>5 DEF ReadDelivery
  <2> QED
    BY <2>1, <1>0 DEF Row
<1>6. ASSUME NEW e \in Endpoint, RecordAttempt(e) PROVE VerdictStep(d)
  <2>1. /\ run[e].at \in Outcome /\ run[e].d \in Delivery
        /\ row[run[e].d].status # "delivered"
        /\ run[e].at = "success" => run[e].d \in got
    BY <1>6, RunningIsDelivery DEF RecordAttempt, AttemptsInv, InFlight, Outcome
  <2>2. CASE d # run[e].d
    <3>1. row'[d] = row[d]
      BY <1>0, <1>6, <2>2 DEF RecordAttempt
    <3> QED
      BY <3>1
  <2>3. CASE d = run[e].d /\ run[e].at = "success"
    BY <2>1, <2>3
  <2>4. CASE d = run[e].d /\ run[e].at # "success"
    <3>1. row'[d].status \in {row[d].status, "failed"}
      <4>1. ~At(e, "success")
        BY <2>4 DEF At
      <4>2. \/ row' = [row EXCEPT ![d].attempts = row[d].attempts + 1, ![d].status = "failed"]
            \/ \E at \in {now, now + 1} \cap (0..MaxTime) :
                 row' = [row EXCEPT ![d].attempts = row[d].attempts + 1, ![d].next = at]
        BY <1>6, <2>4, <4>1 DEF RecordAttempt
      <4>3. ASSUME row' = [row EXCEPT ![d].attempts = row[d].attempts + 1, ![d].status = "failed"]
            PROVE  row'[d].status = "failed"
        <5>1. row'[d] = [row[d] EXCEPT !.attempts = row[d].attempts + 1, !.status = "failed"]
          BY <1>0, <4>3
        <5> QED
          BY <1>0, <5>1 DEF Row
      <4>4. ASSUME NEW at,
                   row' = [row EXCEPT ![d].attempts = row[d].attempts + 1, ![d].next = at]
            PROVE  row'[d].status = row[d].status
        <5>1. row'[d] = [row[d] EXCEPT !.attempts = row[d].attempts + 1, !.next = at]
          BY <1>0, <4>4
        <5> QED
          BY <1>0, <5>1 DEF Row
      <4> QED
        BY <4>2, <4>3, <4>4
    <3> QED
      BY <2>1, <2>4, <3>1
  <2> QED
    BY <2>2, <2>3, <2>4
<1> HIDE DEF Inv, VerdictStep
<1>7. CASE \E o \in Delivery : EnqueueEventDelivery(o)
  BY <1>1, <1>7 DEF EnqueueEventDelivery
<1>8. CASE \E e \in Endpoint :
             UpdateWebhookEndpoint(e) \/ Claim(e) \/ Send(e) \/ Requeue(e) \/ FinishJob(e)
  BY <1>1, <1>8 DEF UpdateWebhookEndpoint, Claim, Send, Requeue, FinishJob
<1>9. CASE Crash \/ Restart \/ RecoverOne \/ StartWorkerPool \/ Tick \/ UNCHANGED vars
  <2>1. row' = row
    BY <1>9 DEF Crash, Restart, RecoverOne, StartWorkerPool, Tick, vars
  <2> QED
    BY <1>1, <2>1
<1>10. ASSUME NEW e \in Endpoint,
              UpdateWebhookEndpoint(e) \/ DeleteWebhookEndpoint(e) \/ JobStep(e)
       PROVE  VerdictStep(d)
  BY <1>4, <1>5, <1>6, <1>8, <1>10 DEF JobStep
<1>11. ASSUME NEW o \in Delivery, EnqueueEventDelivery(o) \/ RetryWebhookDelivery(o)
       PROVE  VerdictStep(d)
  BY <1>3, <1>7, <1>11
<1> QED
  BY <1>2, <1>9, <1>10, <1>11 DEF Next

\* A delivery is recorded as delivered only when the receiver accepted it, and
\* only a retry by hand takes that verdict back: neither a late second half of
\* an attempt, nor recovery, nor the removal of its endpoint does.
THEOREM DeliveredStays == Spec => DeliveredIsFinal
<1>1. Inv /\ [Next]_vars =>
        [\A d \in Delivery :
           /\ row[d].status = "delivered" =>
                row'[d].status = "delivered" \/ row'[d].attempts = 0
           /\ row[d].status # "delivered" /\ row'[d].status = "delivered" =>
                d \in got]_vars
  BY DeliveredStep DEF VerdictStep
<1> QED
  BY <1>1, InvariantHolds, PTL DEF Spec, DeliveredIsFinal
=============================================================================
