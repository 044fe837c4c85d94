--------------------------- MODULE WebhookDelivery ---------------------------
(***************************************************************************)
(* Durable lifecycle webhooks (services/lifecycle_webhooks.py and the      *)
(* endpoint routes of api/routes/settings/integrations.py).  The rows of   *)
(* webhook_deliveries are the source of truth; a delivery is carried by a  *)
(* background job that is queued after the row was committed, and queued   *)
(* again after every failed attempt.                                       *)
(*                                                                         *)
(* Of the command queue this module keeps what JobQueue shows of it: one   *)
(* waiting job for a delivery at most (NoDuplicates), one running job for  *)
(* an endpoint at most (ResourcesExclusive), and first the job that has    *)
(* been due the longest; and it assumes that the table stays within the    *)
(* rows house keeping leaves.  A load-modify-commit of one row without another  *)
(* await is one step; the provider call of an attempt is not.              *)
(***************************************************************************)
EXTENDS Integers, Sequences, SequencesExt

CONSTANTS
  Event,              \* numbered in the order they are committed
  Endpoint,
  MaxAttempts,        \* MAX_DELIVERY_ATTEMPTS (6 in the code)
  MaxTime,            \* bound on the clock
  MaxCrashes,         \* bound on the deaths of the server
  MaxEnqueueErrors,   \* bound on the enqueues that raise
  MaxRetries          \* bound on the manual retries

ASSUME EventAssumption == Event \subseteq Nat \ {0}
ASSUME AttemptAssumption == MaxAttempts \in Nat \ {0}
ASSUME BoundAssumption == MaxTime \in Nat

VARIABLES
  endpoint,   \* webhook_endpoints: "enabled", "disabled" or "deleted"
  row,        \* webhook_deliveries: status, attempts and next_attempt_at
  unqueued,   \* deliveries committed by a handler that has yet to queue them
  queue,      \* waiting jobs by id: the delivery and scheduled_at
  run,        \* the running job of each endpoint
  server,     \* "down", "recovering" or "up"
  toRecover,  \* pending deliveries found at startup, not yet queued
  now,        \* the clock
  got,        \* history: deliveries the receiver has accepted
  dropped,    \* history: deliveries whose last enqueue raised
  budget      \* crashes, enqueue errors and manual retries so far

vars == <<endpoint, row, unqueued, queue, run, server, toRecover, now, got,
          dropped, budget>>

history == <<got, dropped>>

Delivery == Event \X Endpoint
EndpointOf(d) == d[2]

Idle == [d |-> <<0, 0>>, at |-> "idle"]
Outcome == {"success", "retryable", "permanent"}

TypeOK ==
  /\ endpoint \in [Endpoint -> {"enabled", "disabled", "deleted"}]
  /\ row \in [Delivery -> [status: {"absent", "pending", "delivered", "failed",
                                    "canceled"},
                           attempts: 0..MaxAttempts, next: Nat]]
  /\ \A d \in Delivery : row[d].status = "pending" => row[d].attempts < MaxAttempts
  /\ unqueued \subseteq Delivery
  /\ queue \in Seq([d: Delivery, sched: Nat])
  /\ \A i, k \in DOMAIN queue : queue[i].d = queue[k].d => i = k
  /\ \A e \in Endpoint :
       \/ run[e] = Idle
       \/ /\ EndpointOf(run[e].d) = e
          /\ run[e].at \in {"claimed", "sending", "requeue", "done"} \cup Outcome
  /\ server \in {"down", "recovering", "up"}
  /\ toRecover \subseteq Delivery
  /\ now \in 0..MaxTime
  /\ budget \in [{"crashes", "errors", "retries"} -> Nat]

Init ==
  /\ endpoint = [e \in Endpoint |-> "enabled"]
  /\ row = [d \in Delivery |-> [status |-> "absent", attempts |-> 0, next |-> 0]]
  /\ unqueued = {}
  /\ queue = <<>>
  /\ run = [e \in Endpoint |-> Idle]
  /\ server = "up"
  /\ toRecover = {}
  /\ now = 0
  /\ got = {}
  /\ dropped = {}
  /\ budget = [kind \in {"crashes", "errors", "retries"} |-> 0]

PendingRows == {d \in Delivery : row[d].status = "pending"}

-----------------------------------------------------------------------------
(***************************************************************************)
(* enqueue_delivery: replace_pending takes the waiting job of the delivery *)
(* out of the queue and adds a new one.                                    *)
(***************************************************************************)
\* Seeded fault: the waiting job of the delivery stays.
EnqueuedAgain(q, d, sched) == Append(q, [d |-> d, sched |-> sched])

\* The others: the queue holds one job of a delivery at most.
Without(q, d) ==
  IF \E i \in DOMAIN q : q[i].d = d
  THEN RemoveAt(q, CHOOSE i \in DOMAIN q : q[i].d = d)
  ELSE q

Enqueued(q, d, sched) == Append(Without(q, d), [d |-> d, sched |-> sched])

\* Seeded fault: skip_if_active, which also counts the job that is failing now.
EnqueueUnlessActive(d, sched) ==
  /\ queue' = IF \E e \in Endpoint : run[e].d = d
              THEN queue ELSE Enqueued(queue, d, sched)
  /\ dropped' = dropped \ {d}
  /\ UNCHANGED budget

EnqueueDelivery(d, sched) ==
  \/ /\ queue' = Enqueued(queue, d, sched)
     /\ dropped' = dropped \ {d}
     /\ UNCHANGED budget
  \/ /\ budget["errors"] < MaxEnqueueErrors
     /\ budget' = [budget EXCEPT !["errors"] = @ + 1]
     /\ dropped' = dropped \cup {d}
     /\ UNCHANGED queue

\* add_lifecycle_event: the event and a delivery for every active endpoint,
\* in the transaction of the handler that caused it.
AddLifecycleEvent(ev) ==
  LET ds == {d \in {ev} \X Endpoint : endpoint[EndpointOf(d)] = "enabled"}
  IN  /\ server = "up"
      /\ \A d \in Delivery : row[d].status # "absent" => d[1] < ev
      /\ ds # {}
      /\ row' = [d \in Delivery |->
                   IF d \in ds
                   THEN [status |-> "pending", attempts |-> 0, next |-> now]
                   ELSE row[d]]
      /\ unqueued' = unqueued \cup ds
      /\ UNCHANGED <<endpoint, queue, run, server, toRecover, now, history,
                     budget>>

\* enqueue_event_deliveries, after the commit: one of the rows that were pending
\* when it read them.  An enqueue that raises is logged; the row waits for the
\* next start.  The retry of an administrator ends the same way.
EnqueueEventDelivery(d) ==
  /\ d \in unqueued
  /\ unqueued' = unqueued \ {d}
  /\ \/ EnqueueDelivery(d, row[d].next)
     \/ row[d].status # "pending" /\ UNCHANGED <<queue, dropped, budget>>
  /\ UNCHANGED <<endpoint, row, run, server, toRecover, now, got>>

-----------------------------------------------------------------------------
(***************************************************************************)
(* The administrator.                                                      *)
(***************************************************************************)
UpdateWebhookEndpoint(e) ==
  /\ server = "up"
  /\ endpoint[e] # "deleted"
  /\ \E state \in {"enabled", "disabled"} :
       endpoint' = [endpoint EXCEPT ![e] = state]
  /\ UNCHANGED <<row, unqueued, queue, run, server, toRecover, now, history,
                 budget>>

DeleteWebhookEndpoint(e) ==
  /\ server = "up"
  /\ endpoint[e] # "deleted"
  /\ endpoint' = [endpoint EXCEPT ![e] = "deleted"]
  /\ row' = [d \in Delivery |->
               IF EndpointOf(d) = e /\ d \in PendingRows
               THEN [row[d] EXCEPT !.status = "canceled"]
               ELSE row[d]]
  /\ UNCHANGED <<unqueued, queue, run, server, toRecover, now, history, budget>>

\* retry_webhook_delivery: the row is pending afresh, then its job is queued.
RetryWebhookDelivery(d) ==
  /\ server = "up"
  /\ budget["retries"] < MaxRetries
  /\ row[d].status # "absent"
  /\ endpoint[EndpointOf(d)] = "enabled"
  /\ row' = [row EXCEPT ![d] = [status |-> "pending", attempts |-> 0,
                                next |-> now]]
  /\ unqueued' = unqueued \cup {d}
  /\ budget' = [budget EXCEPT !["retries"] = @ + 1]
  /\ UNCHANGED <<endpoint, queue, run, server, toRecover, now, got, dropped>>

-----------------------------------------------------------------------------
(***************************************************************************)
(* The job.                                                                *)
(***************************************************************************)
Waiting(e) ==
  {i \in DOMAIN queue : EndpointOf(queue[i].d) = e /\ queue[i].sched <= now}

Claim(e) ==
  /\ server = "up"
  /\ run[e] = Idle
  /\ \E i \in Waiting(e) :
       /\ \A k \in Waiting(e) \ {i} :
            \/ queue[i].sched < queue[k].sched
            \/ queue[i].sched = queue[k].sched /\ i < k
       /\ run' = [run EXCEPT ![e] = [d |-> queue[i].d, at |-> "claimed"]]
       /\ queue' = RemoveAt(queue, i)
  /\ UNCHANGED <<endpoint, row, unqueued, server, toRecover, now, history, budget>>

At(e, place) == run[e].at = place
GoTo(e, place) == run' = [run EXCEPT ![e].at = place]

\* Seeded fault: the status is not looked at before sending.
ReadAnyDelivery(e) ==
  /\ At(e, "claimed")
  /\ endpoint[e] = "enabled"
  /\ GoTo(e, "sending")
  /\ UNCHANGED <<endpoint, row, unqueued, queue, server, toRecover, now, history,
                 budget>>

\* The first half of run_webhook_delivery_job: read the row and its endpoint.
ReadDelivery(e) ==
  LET d == run[e].d
  IN  /\ At(e, "claimed")
      /\ \/ /\ row[d].status # "pending"
            /\ GoTo(e, "done")
            /\ UNCHANGED row
         \/ /\ row[d].status = "pending"
            /\ endpoint[e] # "enabled"
            /\ row' = [row EXCEPT ![d].status = "canceled"]
            /\ GoTo(e, "done")
         \/ /\ row[d].status = "pending"
            /\ endpoint[e] = "enabled"
            /\ GoTo(e, "sending")
            /\ UNCHANGED row
      /\ UNCHANGED <<endpoint, unqueued, queue, server, toRecover, now, history,
                     budget>>

\* send_webhook_payload.  A call that times out may have reached the receiver.
Send(e) ==
  /\ At(e, "sending")
  /\ \E outcome \in Outcome, accepted \in BOOLEAN :
       /\ outcome = "success" => accepted
       /\ outcome = "permanent" => ~accepted
       /\ GoTo(e, outcome)
       /\ got' = IF accepted THEN got \cup {run[e].d} ELSE got
  /\ UNCHANGED <<endpoint, row, unqueued, queue, server, toRecover, now, dropped,
                 budget>>

Exhausted(attempts) == attempts >= MaxAttempts

GivesUp(outcome, attempts) == outcome = "permanent" \/ Exhausted(attempts)

\* The second half: load the row again and record the attempt.  The delay before
\* the next one may be 0: the receiver chooses it in Retry-After.
RecordAttempt(e) ==
  LET d == run[e].d
      attempts == row[d].attempts + 1
  IN  /\ run[e].at \in Outcome
      /\ \/ /\ At(e, "success")
            /\ row' = [row EXCEPT ![d].attempts = attempts,
                                  ![d].status = "delivered"]
            /\ GoTo(e, "done")
         \/ /\ ~At(e, "success")
            /\ GivesUp(run[e].at, attempts)
            /\ row' = [row EXCEPT ![d].attempts = attempts,
                                  ![d].status = "failed"]
            /\ GoTo(e, "done")
         \/ /\ ~At(e, "success")
            /\ ~GivesUp(run[e].at, attempts)
            /\ \E at \in {now, now + 1} \cap (0..MaxTime) :
                 row' = [row EXCEPT ![d].attempts = attempts, ![d].next = at]
            /\ GoTo(e, "requeue")
      /\ UNCHANGED <<endpoint, unqueued, queue, server, toRecover, now, history,
                     budget>>

\* The failed attempt queues the next one.  When that raises, the job fails and
\* the row waits for the next start.
Requeue(e) ==
  /\ At(e, "requeue")
  /\ EnqueueDelivery(run[e].d, row[run[e].d].next)
  /\ GoTo(e, "done")
  /\ UNCHANGED <<endpoint, row, unqueued, server, toRecover, now, got>>

\* complete_background_job frees the endpoint.
FinishJob(e) ==
  /\ At(e, "done")
  /\ run' = [run EXCEPT ![e] = Idle]
  /\ UNCHANGED <<endpoint, row, unqueued, queue, server, toRecover, now, history,
                 budget>>

-----------------------------------------------------------------------------
(***************************************************************************)
(* Crash, restart and recovery.  The tables survive; the running jobs are  *)
(* failed by reset_stale_jobs, and no handler and no executor runs before  *)
(* every pending delivery was offered to the queue again.                  *)
(***************************************************************************)
Crash ==
  /\ server # "down"
  /\ budget["crashes"] < MaxCrashes
  /\ budget' = [budget EXCEPT !["crashes"] = @ + 1]
  /\ server' = "down"
  /\ run' = [e \in Endpoint |-> Idle]
  /\ unqueued' = {}
  /\ toRecover' = {}
  /\ UNCHANGED <<endpoint, row, queue, now, history>>

\* Seeded fault: recovery skips the deliveries that were attempted before.
RestartFresh ==
  /\ server = "down"
  /\ server' = "recovering"
  /\ toRecover' = {d \in PendingRows : row[d].attempts = 0}
  /\ UNCHANGED <<endpoint, row, unqueued, queue, run, now, history, budget>>

Restart ==
  /\ server = "down"
  /\ server' = "recovering"
  /\ toRecover' = PendingRows
  /\ UNCHANGED <<endpoint, row, unqueued, queue, run, now, history, budget>>

\* recover_pending_webhook_deliveries: one delivery at a time, in row order.
RecoverOne ==
  /\ server = "recovering"
  /\ \E d \in toRecover :
       /\ toRecover' = toRecover \ {d}
       /\ EnqueueDelivery(d, row[d].next)
  /\ UNCHANGED <<endpoint, row, unqueued, run, server, now, got>>

StartWorkerPool ==
  /\ server = "recovering"
  /\ toRecover = {}
  /\ server' = "up"
  /\ UNCHANGED <<endpoint, row, unqueued, queue, run, toRecover, now, history,
                 budget>>

Tick ==
  /\ now < MaxTime
  /\ now' = now + 1
  /\ UNCHANGED <<endpoint, row, unqueued, queue, run, server, toRecover, history,
                 budget>>

-----------------------------------------------------------------------------
JobStep(e) ==
  Claim(e) \/ ReadDelivery(e) \/ Send(e) \/ RecordAttempt(e) \/ Requeue(e)
    \/ FinishJob(e)

Next ==
  \/ \E ev \in Event : AddLifecycleEvent(ev)
  \/ \E d \in Delivery : EnqueueEventDelivery(d) \/ RetryWebhookDelivery(d)
  \/ \E e \in Endpoint :
       UpdateWebhookEndpoint(e) \/ DeleteWebhookEndpoint(e) \/ JobStep(e)
  \/ Crash \/ Restart \/ RecoverOne \/ StartWorkerPool
  \/ Tick

Spec == Init /\ [][Next]_vars

(***************************************************************************)
(* A handler that committed goes on to queue, the executors keep running   *)
(* and the provider call ends (timeout_seconds), time passes, and a server *)
(* that went down is started again.                                        *)
(***************************************************************************)
Fairness ==
  /\ \A d \in Delivery : WF_vars(EnqueueEventDelivery(d))
  /\ \A e \in Endpoint : WF_vars(JobStep(e))
  /\ WF_vars(Restart) /\ WF_vars(RecoverOne) /\ WF_vars(StartWorkerPool)
  /\ WF_vars(Tick)

FairSpec == Spec /\ Fairness

-----------------------------------------------------------------------------
(***************************************************************************)
(* A pending delivery is never forgotten: at every moment a handler, the   *)
(* queue, a running attempt or the recovery of this start still carries    *)
(* it, unless the server is down or the enqueue itself raised.             *)
(***************************************************************************)
Queued(d) == \E i \in DOMAIN queue : queue[i].d = d

Attempting(d) ==
  LET e == EndpointOf(d)
  IN  run[e].d = d /\ run[e].at # "done"

PendingIsCarried ==
  \A d \in PendingRows :
    \/ server = "down"
    \/ d \in unqueued \cup toRecover \cup dropped
    \/ Queued(d)
    \/ Attempting(d)

(***************************************************************************)
(* A delivery is recorded as delivered only when the receiver accepted it, *)
(* and that verdict is final: no late attempt, recovery or removal of the  *)
(* endpoint turns it into anything but a retry asked for by hand.          *)
(***************************************************************************)
DeliveredIsFinal ==
  [][\A d \in Delivery :
       /\ row[d].status = "delivered" =>
            row'[d].status = "delivered" \/ row'[d].attempts = 0
       /\ row[d].status # "delivered" /\ row'[d].status = "delivered" =>
            d \in got]_vars

(***************************************************************************)
(* Every pending delivery is settled in the end, across crashes, retries   *)
(* and endpoints that are switched off, unless its enqueue raised.         *)
(***************************************************************************)
EveryDeliverySettles ==
  \A d \in Delivery :
    d \in PendingRows ~> d \notin PendingRows \/ d \in dropped
=============================================================================
