------------------------------ MODULE Webhooks ------------------------------
(***************************************************************************)
(* Delivery of webhooks (Backend/src/webhooks/webhooks.service.ts) by one  *)
(* process of the backend, whose calls to all endpoints go through one     *)
(* circuit, `external-webhooks': the module CircuitBreaker, with a worker  *)
(* as the call it has in flight.                                           *)
(*                                                                         *)
(* A worker is one execution of publishEvent, retryDelivery or             *)
(* processDueDeliveries. Nothing keeps two of them off the same delivery:  *)
(* the cron task of a minute does not wait for that of the last one. Each  *)
(* reads the row, calls the endpoint and writes what it made of the row it *)
(* read. Payloads, signatures, event filters and the back-off are left out *)
(* (a tick takes any of the rows to be tried, in any order).               *)
(***************************************************************************)
EXTENDS Integers, Sequences, FiniteSets

CONSTANTS
  Subscriptions,
  Deliveries,
  SubscriptionOf,   \* the subscription of every delivery
  Workers,
  MaxAttempts,      \* MAX_ATTEMPTS, 10 in the source
  MaxTrouble,       \* bound on retries, failures and changed subscriptions
  \* the circuit's configuration
  FailureThreshold, FailureWindow, OpenTimeout, HalfOpenMaxCalls,
  HalfOpenSuccessThreshold

ASSUME WebhooksAssumption ==
  /\ SubscriptionOf \in [Deliveries -> Subscriptions]
  /\ MaxAttempts \in Nat \ {0}
  /\ MaxTrouble \in Nat
\* As in CircuitBreaker: mergeConfig clamps every setting to at least one.
ASSUME CircuitAssumption ==
  /\ IsFiniteSet(Workers)
  /\ FailureThreshold \in Nat \ {0}
  /\ FailureWindow \in Nat \ {0}
  /\ OpenTimeout \in Nat \ {0}
  /\ HalfOpenMaxCalls \in Nat \ {0}
  /\ HalfOpenSuccessThreshold \in Nat \ {0}

VARIABLES
  circuit, calls,   \* of the CircuitBreaker
  subscriptions,    \* the status of every subscription
  rows,             \* the row of every delivery
  worker,           \* what every worker is doing
  tries,            \* history: how often each delivery was tried
  accepted,         \* history: deliveries the endpoint answered 2xx to
  trouble

Breaker == INSTANCE CircuitBreaker WITH Call <- Workers

own == <<subscriptions, rows, worker, tries, accepted, trouble>>
vars == <<circuit, calls, own>>

\* A row is ABSENT before the event is published and GONE once it was deleted
\* with its subscription.
Delivery ==
  [ status   : {"ABSENT", "GONE", "PENDING", "RETRYING", "DELIVERED", "FAILED"},
    attempts : Nat ]

SubscriptionStatus == {"ACTIVE", "PAUSED", "DELETED"}

\* A worker: the deliveries it has yet to look at (or, for now, to create), the
\* one it is on, and the number of the attempt it makes.
Work ==
  [ pc      : {"idle", "create", "read", "send", "wait", "delivered", "failed"},
    batch   : SUBSET Deliveries,
    on      : SUBSET Deliveries,
    attempt : Nat ]

NoWork == [pc |-> "idle", batch |-> {}, on |-> {}, attempt |-> 0]

\* The worker that looks at the deliveries of batch next.
Reading(batch) ==
  IF batch = {} THEN NoWork ELSE [NoWork EXCEPT !.pc = "read", !.batch = batch]

Exists(d) == rows[d].status \notin {"ABSENT", "GONE"}

\* What processDueDeliveries selects.
Due_Bug == {d \in Deliveries : rows[d].status = "PENDING"}
Due == {d \in Deliveries : /\ rows[d].status \in {"PENDING", "RETRYING"}
                           /\ rows[d].attempts < MaxAttempts}

Init ==
  /\ Breaker!Init
  /\ subscriptions = [s \in Subscriptions |-> "ACTIVE"]
  /\ rows = [d \in Deliveries |-> [status |-> "ABSENT", attempts |-> 0]]
  /\ worker = [w \in Workers |-> NoWork]
  /\ tries = [d \in Deliveries |-> 0]
  /\ accepted = {}
  /\ trouble = 0

Trouble == trouble < MaxTrouble /\ trouble' = trouble + 1

-----------------------------------------------------------------------------
\* publishEvent: finds the active subscriptions an event matches, then creates
\* their rows. One that was paused meanwhile gets its row all the same; one that
\* was deleted makes its creation throw, and the rows are left to the cron task.
\* (Without that they are tried side by side; one worker here is the work on one
\* of them, and those no worker is free for are the cron task's, too.)
Match(w, new) ==
  /\ worker[w].pc = "idle"
  /\ new # {}
  /\ \A d \in new :
       /\ rows[d].status = "ABSENT"
       /\ subscriptions[SubscriptionOf[d]] = "ACTIVE"
       /\ \A v \in Workers : worker[v].pc = "create" => d \notin worker[v].batch
  /\ worker' = [worker EXCEPT ![w] = [NoWork EXCEPT !.pc = "create", !.batch = new]]
  /\ UNCHANGED <<circuit, calls, subscriptions, rows, tries, accepted, trouble>>

Creatable(w) == {d \in worker[w].batch : subscriptions[SubscriptionOf[d]] # "DELETED"}

Created(new) ==
  [d \in Deliveries |-> IF d \in new THEN [status |-> "PENDING", attempts |-> 0] ELSE rows[d]]

Create(w) ==
  /\ worker[w].pc = "create"
  /\ rows' = Created(Creatable(w))
  /\ IF Creatable(w) = worker[w].batch
     THEN \E d \in worker[w].batch : worker' = [worker EXCEPT ![w] = Reading({d})]
     ELSE worker' = [worker EXCEPT ![w] = NoWork]
  /\ UNCHANGED <<circuit, calls, subscriptions, tries, accepted, trouble>>

\* processDueDeliveries, called by the cron task.
StartTick(w, batch) ==
  /\ worker[w].pc = "idle"
  /\ batch # {}
  /\ worker' = [worker EXCEPT ![w] = Reading(batch)]
  /\ UNCHANGED <<circuit, calls, subscriptions, rows, tries, accepted, trouble>>

\* retryDelivery: the row starts over, whatever its status.
RetryDelivery(w, d) ==
  /\ worker[w].pc = "idle"
  /\ Exists(d)
  /\ rows' = [rows EXCEPT ![d] = [status |-> "PENDING", attempts |-> 0]]
  /\ worker' = [worker EXCEPT ![w] = Reading({d})]
  /\ Trouble
  /\ UNCHANGED <<circuit, calls, subscriptions, tries, accepted>>

-----------------------------------------------------------------------------
\* processDeliveryById. The row is read whatever its status has become. One that
\* is gone ends the tick, one of a paused subscription is passed over.
Read(w, d) ==
  LET rest == worker[w].batch \ {d} IN
  /\ worker[w].pc = "read"
  /\ d \in worker[w].batch
  /\ worker' = [worker EXCEPT ![w] =
       CASE ~Exists(d) -> NoWork
         [] Exists(d) /\ subscriptions[SubscriptionOf[d]] # "ACTIVE" -> Reading(rest)
         [] OTHER -> [pc |-> "send", batch |-> rest, on |-> {d},
                      attempt |-> rows[d].attempts + 1]]
  /\ UNCHANGED <<circuit, calls, subscriptions, rows, tries, accepted, trouble>>

Go(w, pc) == worker' = [worker EXCEPT ![w].pc = pc]

\* Each passage through execute is a try, the circuit's rejections included.
CountTry(w) ==
  tries' = [d \in Deliveries |-> IF d \in worker[w].on THEN tries[d] + 1 ELSE tries[d]]

Send(w) ==
  /\ worker[w].pc = "send"
  /\ Breaker!Admit(w)
  /\ CountTry(w)
  /\ Go(w, "wait")
  /\ UNCHANGED <<subscriptions, rows, accepted, trouble>>

\* What execute rejects without calling the endpoint.
CircuitOpen ==
  \/ circuit.override = "FORCE_OPEN"
  \/ /\ circuit.override = "AUTO"
     /\ circuit.state = "OPEN"
     /\ circuit.openedAge < OpenTimeout
  \/ /\ circuit.override = "AUTO"
     /\ circuit.state = "HALF_OPEN"
     /\ ~Breaker!MayProbe(circuit)

Rejected_Bug(w) ==
  /\ worker[w].pc = "send"
  /\ CircuitOpen
  /\ CountTry(w)
  /\ Go(w, "wait")
  /\ UNCHANGED <<circuit, calls, subscriptions, rows, accepted, trouble>>
Rejected(w) ==
  /\ worker[w].pc = "send"
  /\ CircuitOpen
  /\ CountTry(w)
  /\ Go(w, "failed")
  /\ UNCHANGED <<circuit, calls, subscriptions, rows, accepted, trouble>>

\* The endpoint answers; the circuit takes any answer for a success, and only a
\* 2xx whose body can be read delivers.
Outcome_Bug(ok) == {"delivered"}
Outcome(ok) == IF ok THEN {"delivered", "failed"} ELSE {"failed"}

Answered(w, ok) ==
  /\ worker[w].pc = "wait"
  /\ Breaker!Succeed(w)
  /\ accepted' = IF ok THEN accepted \cup worker[w].on ELSE accepted
  /\ \E pc \in Outcome(ok) : Go(w, pc)
  /\ UNCHANGED <<subscriptions, rows, tries, trouble>>

\* No answer before the time-out: only this fails the circuit's call.
NoAnswer(w) ==
  /\ worker[w].pc = "wait"
  /\ Breaker!Fail(w)
  /\ Go(w, "failed")
  /\ UNCHANGED <<subscriptions, rows, tries, accepted, trouble>>

\* The update of a row that is gone throws: of DELIVERED into the catch, where
\* the second update throws once more and ends the tick.
WriteDelivered(w) ==
  /\ worker[w].pc = "delivered"
  /\ \E d \in worker[w].on :
       IF Exists(d)
       THEN /\ rows' = [rows EXCEPT ![d] = [status |-> "DELIVERED",
                                            attempts |-> worker[w].attempt]]
            /\ worker' = [worker EXCEPT ![w] = Reading(worker[w].batch)]
       ELSE /\ Go(w, "failed")
            /\ UNCHANGED rows
  /\ UNCHANGED <<circuit, calls, subscriptions, tries, accepted, trouble>>

FinalAttempt_Bug(n) == n + 1 >= MaxAttempts
FinalAttempt(n) == n >= MaxAttempts

WriteFailed(w) ==
  /\ worker[w].pc = "failed"
  /\ \E d \in worker[w].on :
       IF Exists(d)
       THEN /\ rows' = [rows EXCEPT ![d] =
                 [status |-> IF FinalAttempt(worker[w].attempt) THEN "FAILED" ELSE "RETRYING",
                  attempts |-> worker[w].attempt]]
            /\ worker' = [worker EXCEPT ![w] = Reading(worker[w].batch)]
       ELSE /\ worker' = [worker EXCEPT ![w] = NoWork]
            /\ UNCHANGED rows
  /\ UNCHANGED <<circuit, calls, subscriptions, tries, accepted, trouble>>

\* The database fails: of the rows of an event some may be created; a read or the
\* update of a failed try ends the tick and leaves the row as it is; the update to
\* DELIVERED throws into the catch.
DatabaseFails(w) ==
  /\ \/ /\ worker[w].pc = "create"
        /\ \E new \in SUBSET Creatable(w) : rows' = Created(new)
        /\ worker' = [worker EXCEPT ![w] = NoWork]
     \/ /\ worker[w].pc \in {"read", "failed"}
        /\ worker' = [worker EXCEPT ![w] = NoWork]
        /\ UNCHANGED rows
     \/ /\ worker[w].pc = "delivered"
        /\ Go(w, "failed")
        /\ UNCHANGED rows
  /\ Trouble
  /\ UNCHANGED <<circuit, calls, subscriptions, tries, accepted>>

-----------------------------------------------------------------------------
\* updateSubscription, of the status.
UpdateSubscription(s, status) ==
  /\ subscriptions[s] # "DELETED"
  /\ status \in {"ACTIVE", "PAUSED"}
  /\ subscriptions' = [subscriptions EXCEPT ![s] = status]
  /\ Trouble
  /\ UNCHANGED <<circuit, calls, rows, worker, tries, accepted>>

\* deleteSubscription: its deliveries' rows go with it.
DeleteSubscription(s) ==
  /\ subscriptions[s] # "DELETED"
  /\ subscriptions' = [subscriptions EXCEPT ![s] = "DELETED"]
  /\ rows' = [d \in Deliveries |->
       IF SubscriptionOf[d] = s /\ Exists(d) THEN [rows[d] EXCEPT !.status = "GONE"]
       ELSE rows[d]]
  /\ Trouble
  /\ UNCHANGED <<circuit, calls, worker, tries, accepted>>

\* The process restarts: its workers are gone and its circuit is a new one.
NewCircuit ==
  [ state |-> "CLOSED", override |-> "AUTO", failures |-> <<>>, successes |-> 0,
    allowed |-> 1, inFlight |-> 0, openedAge |-> Breaker!NotOpened ]

Crash ==
  /\ worker' = [w \in Workers |-> NoWork]
  /\ circuit' = NewCircuit
  /\ calls' = [w \in Workers |-> "idle"]
  /\ Trouble
  /\ UNCHANGED <<subscriptions, rows, tries, accepted>>

\* The circuit's own: time, and its operators.
CircuitStep ==
  /\ \/ Breaker!Tick /\ UNCHANGED trouble
     \/ Breaker!Operate /\ Trouble
  /\ UNCHANGED <<subscriptions, rows, worker, tries, accepted>>

Step(w) ==
  \/ Create(w)
  \/ \E d \in Deliveries : Read(w, d)
  \/ Send(w) \/ Rejected(w)
  \/ \E ok \in BOOLEAN : Answered(w, ok)
  \/ NoAnswer(w) \/ WriteDelivered(w) \/ WriteFailed(w)

Next ==
  \/ \E w \in Workers :
       \/ Step(w)
       \/ DatabaseFails(w)
       \/ \E new \in SUBSET Deliveries : Match(w, new)
       \/ \E batch \in SUBSET Due : StartTick(w, batch)
       \/ \E d \in Deliveries : RetryDelivery(w, d)
  \/ \E s \in Subscriptions :
       DeleteSubscription(s) \/ \E status \in SubscriptionStatus : UpdateSubscription(s, status)
  \/ Crash
  \/ CircuitStep

Spec == Init /\ [][Next]_vars

-----------------------------------------------------------------------------
\* Every variable has its type. (Attempts may exceed MaxAttempts: a worker may
\* come to a row in its batch after others have used them up.)
TypeInvariant ==
  /\ Breaker!TypeOK
  /\ subscriptions \in [Subscriptions -> SubscriptionStatus]
  /\ rows \in [Deliveries -> Delivery]
  /\ worker \in [Workers -> Work]
  /\ \A w \in Workers :
       /\ Cardinality(worker[w].on) = IF worker[w].pc \in {"idle", "create", "read"} THEN 0 ELSE 1
       /\ calls[w] # "idle" <=> worker[w].pc = "wait"
  /\ tries \in [Deliveries -> Nat]
  /\ accepted \subseteq Deliveries
  /\ trouble \in 0..MaxTrouble

\* A delivery is DELIVERED only if its endpoint once answered 2xx to it, in
\* whatever order the workers on it write.
DeliveredWasAccepted ==
  \A d \in Deliveries : rows[d].status = "DELIVERED" => d \in accepted

\* A delivery is given up only after MaxAttempts tries, however many workers
\* write numbers of attempts they took from rows read earlier: of an attempt a
\* number may be lost, none is ever counted that was not made.
GivenUpAfterAllTries ==
  \A d \in Deliveries : rows[d].status = "FAILED" => tries[d] >= MaxAttempts

\* The cron task runs every minute, the event loop goes on, and fetch has a
\* time-out. A row to be tried is selected in the end: its back-off passes, and
\* the oldest come first.
Fairness ==
  /\ \A w \in Workers : WF_vars(Step(w))
  /\ \A d \in Deliveries :
       SF_vars(\E w \in Workers, batch \in SUBSET Due : d \in batch /\ StartTick(w, batch))

FairSpec == Spec /\ Fairness

\* Every delivery that is published comes to an end and stays there, unless its
\* subscription is paused: workers that overwrite each other's results, crashes
\* and an open circuit delay the end but do not prevent it.
Settled(d) ==
  \/ rows[d].status \in {"DELIVERED", "FAILED", "GONE"}
  \/ subscriptions[SubscriptionOf[d]] = "PAUSED"

Settles == \A d \in Deliveries : rows[d].status = "PENDING" ~> []Settled(d)
=============================================================================
