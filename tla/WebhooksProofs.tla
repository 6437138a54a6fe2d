--------------------------- MODULE WebhooksProofs ---------------------------
(***************************************************************************)
(* Proofs about Webhooks, for any subscriptions, deliveries, workers and   *)
(* any configuration of the circuit. What the circuit lets through decides *)
(* when a worker goes on, never what it writes: the proofs about the rows  *)
(* use only what the steps do to the workers, the rows and the history.    *)
(* Those about the circuit use CircuitBreakerProofs: every step here is    *)
(* one of the circuit, leaves it alone, or begins a new one.               *)
(***************************************************************************)
EXTENDS Webhooks, TLAPS, FiniteSetTheorems

Types ==
  /\ worker \in [Workers -> Work]
  /\ rows \in [Deliveries -> Delivery]
  /\ tries \in [Deliveries -> Nat]

\* The number a worker is about to write counts tries that were made (one that
\* is about to be made included), and it reports what the endpoint said.
WorkerOk(w) ==
  /\ worker[w].pc = "delivered" => worker[w].on \subseteq accepted
  /\ \A d \in worker[w].on :
       /\ worker[w].pc = "send" => worker[w].attempt <= tries[d] + 1
       /\ worker[w].pc \in {"wait", "delivered", "failed"} =>
            worker[w].attempt <= tries[d]

RowOk(d) ==
  /\ rows[d].attempts <= tries[d]
  /\ rows[d].status = "FAILED" => tries[d] >= MaxAttempts
  /\ rows[d].status = "DELIVERED" => d \in accepted

IInv ==
  /\ Types
  /\ \A w \in Workers : WorkerOk(w)
  /\ \A d \in Deliveries : RowOk(d)

\* Tries and 2xx answers are never forgotten.
HistoryGrows ==
  /\ \A d \in Deliveries : tries'[d] >= tries[d]
  /\ accepted \subseteq accepted'

-----------------------------------------------------------------------------
(* What one worker or one row keeps when the rest of the system moves. *)

LEMMA IdleWorker ==
  /\ NoWork \in Work /\ NoWork.pc = "idle"
  /\ \A batch \in SUBSET Deliveries :
       Reading(batch) \in Work /\ Reading(batch).pc \in {"idle", "read"}
  BY DEF NoWork, Work, Reading

LEMMA OtherWorker ==
  ASSUME Types, Types', HistoryGrows, NEW v \in Workers, WorkerOk(v),
         worker'[v] = worker[v]
  PROVE  WorkerOk(v)'
  <1>1. PICK x \in Work : x = worker[v]
    BY DEF Types
  <1>2. x.on \subseteq Deliveries /\ x.attempt \in Nat
    BY DEF Work
  <1>3. ASSUME NEW d \in x.on
        PROVE  /\ x.pc = "send" => x.attempt <= tries'[d] + 1
               /\ x.pc \in {"wait", "delivered", "failed"} => x.attempt <= tries'[d]
    <2>1. PICK old \in Nat : old = tries[d]
      BY <1>2 DEF Types
    <2>2. PICK new \in Nat : new = tries'[d]
      BY <1>2 DEF Types
    <2>3. old <= new
      BY <1>2, <2>1, <2>2 DEF HistoryGrows
    <2>4. /\ x.pc = "send" => x.attempt <= old + 1
          /\ x.pc \in {"wait", "delivered", "failed"} => x.attempt <= old
      BY <1>1, <2>1 DEF WorkerOk
    <2> QED BY <1>2, <2>2, <2>3, <2>4
  <1>4. x.pc = "delivered" => x.on \subseteq accepted'
    BY <1>1 DEF WorkerOk, HistoryGrows
  <1> QED BY <1>1, <1>3, <1>4 DEF WorkerOk

LEMMA OtherRow ==
  ASSUME Types, Types', HistoryGrows, NEW d \in Deliveries, RowOk(d),
         rows'[d] = rows[d]
  PROVE  RowOk(d)'
  <1>1. PICK r \in Delivery : r = rows[d] /\ r.attempts \in Nat
    BY DEF Types, Delivery
  <1>2. PICK old \in Nat : old = tries[d]
    BY DEF Types
  <1>3. PICK new \in Nat : new = tries'[d]
    BY DEF Types
  <1>4. old <= new
    BY <1>2, <1>3 DEF HistoryGrows
  <1>5. r.attempts <= new /\ (r.status = "FAILED" => new >= MaxAttempts)
    <2>1. r.attempts <= old /\ (r.status = "FAILED" => old >= MaxAttempts)
      BY <1>1, <1>2 DEF RowOk
    <2> QED BY <1>1, <1>4, <2>1, WebhooksAssumption
  <1>6. r.status = "DELIVERED" => d \in accepted'
    BY <1>1 DEF RowOk, HistoryGrows
  <1> QED BY <1>1, <1>3, <1>5, <1>6 DEF RowOk

LEMMA StepKeeps ==
  ASSUME IInv, NEW w \in Workers, Types', HistoryGrows,
         \A v \in Workers \ {w} : worker'[v] = worker[v],
         WorkerOk(w)',
         \A d \in Deliveries : rows'[d] = rows[d] \/ RowOk(d)'
  PROVE  IInv'
  <1>1. \A v \in Workers : WorkerOk(v)'
    BY OtherWorker DEF IInv
  <1>2. \A d \in Deliveries : RowOk(d)'
    BY OtherRow DEF IInv
  <1> QED BY <1>1, <1>2 DEF IInv

\* A worker that goes back to idle, to creating rows or to reading them.
LEMMA RestKeeps ==
  ASSUME IInv, NEW w \in Workers, NEW x \in Work,
         x.pc \in {"idle", "create", "read"},
         worker' = [worker EXCEPT ![w] = x],
         rows' \in [Deliveries -> Delivery],
         \A d \in Deliveries : rows'[d] = rows[d] \/ RowOk(d)',
         tries' = tries, accepted' = accepted
  PROVE  IInv'
  <1>1. Types /\ Types' /\ HistoryGrows
    BY DEF IInv, Types, HistoryGrows
  <1>2. worker'[w] = x /\ \A v \in Workers \ {w} : worker'[v] = worker[v]
    BY <1>1 DEF Types
  <1>3. WorkerOk(w)'
    BY <1>2 DEF WorkerOk
  <1> QED BY <1>1, <1>2, <1>3, StepKeeps

\* A row that starts over.
LEMMA NewRow ==
  ASSUME Types, tries' = tries, NEW d \in Deliveries,
         rows'[d] = [status |-> "PENDING", attempts |-> 0]
  PROVE  RowOk(d)' /\ rows'[d] \in Delivery
  <1>1. tries[d] \in Nat
    BY DEF Types
  <1> QED BY <1>1 DEF RowOk, Delivery

LEMMA CreatedRows ==
  ASSUME Types, tries' = tries, NEW new, rows' = Created(new)
  PROVE  /\ rows' \in [Deliveries -> Delivery]
         /\ \A d \in Deliveries : rows'[d] = rows[d] \/ RowOk(d)'
  <1>1. rows' = [d \in Deliveries |-> IF d \in new THEN [status |-> "PENDING", attempts |-> 0]
                                      ELSE rows[d]]
    BY DEF Created
  <1>2. \A d \in Deliveries : rows'[d] = rows[d] \/ RowOk(d)'
    BY <1>1, NewRow
  <1>3. rows' \in [Deliveries -> Delivery]
    BY <1>1 DEF Types, Delivery
  <1> QED BY <1>2, <1>3

-----------------------------------------------------------------------------
(* Publishing, ticks and retries. *)

LEMMA MatchKeeps ==
  ASSUME IInv, NEW w \in Workers, NEW new \in SUBSET Deliveries, Match(w, new)
  PROVE  IInv'
  <1>1. PICK x : x = [NoWork EXCEPT !.pc = "create", !.batch = new]
    OBVIOUS
  <1>2. x \in Work /\ x.pc = "create"
    BY <1>1 DEF NoWork, Work
  <1>3. /\ worker' = [worker EXCEPT ![w] = x]
        /\ rows' = rows /\ tries' = tries /\ accepted' = accepted
    BY <1>1 DEF Match
  <1>4. rows' \in [Deliveries -> Delivery]
    BY <1>3 DEF IInv, Types
  <1> QED BY <1>2, <1>3, <1>4, RestKeeps

LEMMA CreateKeeps ==
  ASSUME IInv, NEW w \in Workers, Create(w)
  PROVE  IInv'
  <1>1. PICK new : new = Creatable(w)
    OBVIOUS
  <1>2. new \subseteq Deliveries
    BY <1>1 DEF IInv, Types, Work, Creatable
  <1>3. Types /\ tries' = tries /\ accepted' = accepted
    BY DEF Create, IInv
  <1>4. rows' = Created(new)
    BY <1>1 DEF Create
  <1>5. \A d \in Deliveries : rows'[d] = rows[d] \/ RowOk(d)'
    BY <1>3, <1>4, CreatedRows
  <1>6. rows' \in [Deliveries -> Delivery]
    BY <1>3, <1>4, CreatedRows
  <1>7. \E x \in Work : x.pc \in {"idle", "create", "read"} /\ worker' = [worker EXCEPT ![w] = x]
    <2>1. CASE worker' = [worker EXCEPT ![w] = NoWork]
      BY <2>1, IdleWorker
    <2>2. ASSUME NEW d \in new, worker' = [worker EXCEPT ![w] = Reading({d})]
          PROVE  \E x \in Work : /\ x.pc \in {"idle", "create", "read"}
                                 /\ worker' = [worker EXCEPT ![w] = x]
      BY <1>2, <2>2, IdleWorker
    <2> QED BY <1>1, <2>1, <2>2 DEF Create
  <1> QED BY <1>3, <1>5, <1>6, <1>7, RestKeeps

LEMMA StartTickKeeps ==
  ASSUME IInv, NEW w \in Workers, NEW batch \in SUBSET Due, StartTick(w, batch)
  PROVE  IInv'
  <1>1. batch \in SUBSET Deliveries
    BY DEF Due
  <1>2. Reading(batch) \in Work /\ Reading(batch).pc \in {"idle", "read"}
    BY <1>1, IdleWorker
  <1>3. /\ worker' = [worker EXCEPT ![w] = Reading(batch)]
        /\ rows' = rows /\ tries' = tries /\ accepted' = accepted
    BY DEF StartTick
  <1>4. rows' \in [Deliveries -> Delivery]
    BY <1>3 DEF IInv, Types
  <1> QED BY <1>2, <1>3, <1>4, RestKeeps

LEMMA RetryDeliveryKeeps ==
  ASSUME IInv, NEW w \in Workers, NEW d \in Deliveries, RetryDelivery(w, d)
  PROVE  IInv'
  <1>1. {d} \in SUBSET Deliveries
    OBVIOUS
  <1>2. Reading({d}) \in Work /\ Reading({d}).pc \in {"idle", "read"}
    BY <1>1, IdleWorker
  <1>3. /\ worker' = [worker EXCEPT ![w] = Reading({d})]
        /\ rows' = [rows EXCEPT ![d] = [status |-> "PENDING", attempts |-> 0]]
        /\ Types /\ tries' = tries /\ accepted' = accepted
    BY DEF RetryDelivery, IInv
  <1>4. rows'[d] = [status |-> "PENDING", attempts |-> 0]
    BY <1>3 DEF Types
  <1>5. RowOk(d)' /\ \A e \in Deliveries \ {d} : rows'[e] = rows[e]
    BY <1>3, <1>4, NewRow DEF Types
  <1>6. rows' \in [Deliveries -> Delivery]
    BY <1>3 DEF Types, Delivery
  <1> QED BY <1>2, <1>3, <1>5, <1>6, RestKeeps

-----------------------------------------------------------------------------
(* One delivery. *)

LEMMA ReadKeeps ==
  ASSUME IInv, NEW w \in Workers, NEW d \in Deliveries, Read(w, d)
  PROVE  IInv'
  <1>1. /\ Types /\ rows' = rows /\ tries' = tries /\ accepted' = accepted
        /\ rows' \in [Deliveries -> Delivery]
    BY DEF Read, IInv, Types
  <1>2. PICK rest : rest = worker[w].batch \ {d}
    OBVIOUS
  <1>3. rest \in SUBSET Deliveries
    BY <1>1, <1>2 DEF Types, Work
  <1>4. PICK n \in Nat : n = rows[d].attempts
    BY <1>1 DEF Types, Delivery
  <1>5. PICK n1 \in Nat : n1 = n + 1
    BY <1>4
  <1>6. PICK x : x = [pc |-> "send", batch |-> rest, on |-> {d}, attempt |-> n1]
    OBVIOUS
  <1>7. \/ worker' = [worker EXCEPT ![w] = NoWork]
        \/ worker' = [worker EXCEPT ![w] = Reading(rest)]
        \/ worker' = [worker EXCEPT ![w] = x]
    BY <1>2, <1>4, <1>5, <1>6 DEF Read
  <1>8. CASE worker' = [worker EXCEPT ![w] = NoWork]
    BY <1>1, <1>8, IdleWorker, RestKeeps
  <1>9. CASE worker' = [worker EXCEPT ![w] = Reading(rest)]
    <2>1. Reading(rest) \in Work /\ Reading(rest).pc \in {"idle", "read"}
      BY <1>3, IdleWorker
    <2> QED BY <1>1, <1>9, <2>1, RestKeeps
  <1>10. CASE worker' = [worker EXCEPT ![w] = x]
    <2>1. x \in Work /\ x.pc = "send" /\ x.on = {d} /\ x.attempt = n1
      BY <1>3, <1>6 DEF Work
    <2>2. worker'[w] = x /\ \A v \in Workers \ {w} : worker'[v] = worker[v]
      BY <1>1, <1>10 DEF Types
    <2>3. Types' /\ HistoryGrows
      BY <1>1, <1>10, <2>1 DEF Types, HistoryGrows
    <2>4. n <= tries'[d] /\ tries'[d] \in Nat
      BY <1>1, <1>4 DEF IInv, RowOk, Types
    <2>5. n1 <= tries'[d] + 1
      BY <1>5, <2>4
    <2>6. WorkerOk(w)'
      BY <2>1, <2>2, <2>5 DEF WorkerOk
    <2> QED BY <1>1, <2>2, <2>3, <2>6, StepKeeps
  <1> QED BY <1>7, <1>8, <1>9, <1>10

\* A worker that is told to go to another stage.
LEMMA GoTypes ==
  ASSUME Types, NEW w \in Workers, Go(w, "wait") \/ Go(w, "delivered") \/ Go(w, "failed")
  PROVE  /\ worker' \in [Workers -> Work]
         /\ worker'[w].on = worker[w].on /\ worker'[w].attempt = worker[w].attempt
         /\ \A v \in Workers \ {w} : worker'[v] = worker[v]
         /\ worker'[w].pc \in {"wait", "delivered", "failed"}
         /\ Go(w, "wait") \/ Go(w, "failed") => worker'[w].pc # "delivered"
  <1>1. PICK x \in Work : x = worker[w]
    BY DEF Types
  <1>2. ASSUME NEW pc \in {"wait", "delivered", "failed"}, Go(w, pc)
        PROVE  /\ worker' \in [Workers -> Work]
               /\ worker'[w].on = x.on /\ worker'[w].attempt = x.attempt
               /\ \A v \in Workers \ {w} : worker'[v] = worker[v]
               /\ worker'[w].pc = pc
    <2>1. PICK y : y = [x EXCEPT !.pc = pc]
      OBVIOUS
    <2>2. y \in Work /\ y.on = x.on /\ y.attempt = x.attempt /\ y.pc = pc
      BY <2>1 DEF Work
    <2>3. worker' = [worker EXCEPT ![w] = y]
      BY <1>1, <1>2, <2>1 DEF Go
    <2> QED BY <2>2, <2>3 DEF Types
  <1> QED BY <1>1, <1>2

\* A worker that makes a try, let through or rejected by the circuit.
LEMMA TryKeeps ==
  ASSUME IInv, NEW w \in Workers, worker[w].pc = "send", CountTry(w),
         Go(w, "wait") \/ Go(w, "failed"),
         rows' = rows, accepted' = accepted
  PROVE  IInv'
  <1>1. Types /\ WorkerOk(w)
    BY DEF IInv
  <1>2. /\ worker' \in [Workers -> Work]
        /\ worker'[w].on = worker[w].on /\ worker'[w].attempt = worker[w].attempt
        /\ \A v \in Workers \ {w} : worker'[v] = worker[v]
        /\ worker'[w].pc \in {"wait", "failed"}
    BY <1>1, GoTypes
  <1>3. /\ tries' \in [Deliveries -> Nat]
        /\ \A d \in Deliveries : tries'[d] >= tries[d]
        /\ \A d \in worker[w].on : d \in Deliveries => tries'[d] = tries[d] + 1
    BY <1>1 DEF CountTry, Types
  <1>4. Types' /\ HistoryGrows
    BY <1>1, <1>2, <1>3 DEF Types, HistoryGrows
  <1>5. WorkerOk(w)'
    <2>1. worker[w].on \subseteq Deliveries
      BY <1>1 DEF Types, Work
    <2>2. \A d \in worker[w].on : worker[w].attempt <= tries'[d]
      BY <1>1, <1>3, <2>1 DEF WorkerOk
    <2> QED BY <1>2, <2>2 DEF WorkerOk
  <1> QED BY <1>2, <1>4, <1>5, StepKeeps

\* A worker that has an answer, or gives up waiting for one.
LEMMA AnswerKeeps ==
  ASSUME IInv, NEW w \in Workers,
         (\E ok \in BOOLEAN : Answered(w, ok)) \/ NoAnswer(w)
  PROVE  IInv'
  <1>1. Types /\ WorkerOk(w) /\ worker[w].pc = "wait"
    BY DEF IInv, Answered, NoAnswer
  <1>2. /\ rows' = rows /\ tries' = tries /\ accepted \subseteq accepted'
        /\ \/ Go(w, "failed")
           \/ Go(w, "delivered") /\ worker[w].on \subseteq accepted'
    BY DEF Answered, Outcome, NoAnswer
  <1>3. /\ worker' \in [Workers -> Work]
        /\ worker'[w].on = worker[w].on /\ worker'[w].attempt = worker[w].attempt
        /\ \A v \in Workers \ {w} : worker'[v] = worker[v]
        /\ worker'[w].pc \in {"wait", "delivered", "failed"}
        /\ worker'[w].pc = "delivered" => worker[w].on \subseteq accepted'
    BY <1>1, <1>2, GoTypes
  <1>4. Types' /\ HistoryGrows
    BY <1>1, <1>2, <1>3 DEF Types, HistoryGrows
  <1>5. WorkerOk(w)'
    BY <1>1, <1>2, <1>3 DEF WorkerOk
  <1> QED BY <1>2, <1>3, <1>4, <1>5, StepKeeps

\* A worker whose update to DELIVERED throws.
LEMMA FailedKeeps ==
  ASSUME IInv, NEW w \in Workers, worker[w].pc = "delivered", Go(w, "failed"),
         rows' = rows, tries' = tries, accepted' = accepted
  PROVE  IInv'
  <1>1. Types /\ WorkerOk(w)
    BY DEF IInv
  <1>2. /\ worker' \in [Workers -> Work]
        /\ worker'[w].on = worker[w].on /\ worker'[w].attempt = worker[w].attempt
        /\ \A v \in Workers \ {w} : worker'[v] = worker[v]
        /\ worker'[w].pc # "send" /\ worker'[w].pc # "delivered"
    BY <1>1, GoTypes
  <1>3. Types' /\ HistoryGrows
    BY <1>1, <1>2 DEF Types, HistoryGrows
  <1>4. WorkerOk(w)'
    BY <1>1, <1>2 DEF WorkerOk
  <1> QED BY <1>2, <1>3, <1>4, StepKeeps

LEMMA WriteDeliveredKeeps ==
  ASSUME IInv, NEW w \in Workers, WriteDelivered(w)
  PROVE  IInv'
  <1>1. Types /\ WorkerOk(w) /\ worker[w].pc = "delivered"
    BY DEF IInv, WriteDelivered
  <1>2. tries' = tries /\ accepted' = accepted
    BY DEF WriteDelivered
  <1>3. PICK x \in Work : x = worker[w]
    BY <1>1 DEF Types
  <1>4. x.on \subseteq Deliveries /\ x.batch \in SUBSET Deliveries /\ x.attempt \in Nat
    BY DEF Work
  <1>5. PICK d \in x.on :
          IF Exists(d)
          THEN /\ rows' = [rows EXCEPT ![d] = [status |-> "DELIVERED", attempts |-> x.attempt]]
               /\ worker' = [worker EXCEPT ![w] = Reading(x.batch)]
          ELSE Go(w, "failed") /\ rows' = rows
    BY <1>3 DEF WriteDelivered
  <1>6. CASE Exists(d)
    <2>1. PICK r : r = [status |-> "DELIVERED", attempts |-> x.attempt]
      OBVIOUS
    <2>2. r \in Delivery /\ r.status = "DELIVERED" /\ r.attempts = x.attempt
      BY <1>4, <2>1 DEF Delivery
    <2>3. rows' = [rows EXCEPT ![d] = r] /\ worker' = [worker EXCEPT ![w] = Reading(x.batch)]
      BY <1>5, <1>6, <2>1
    <2>4. /\ rows' \in [Deliveries -> Delivery] /\ rows'[d] = r
          /\ \A e \in Deliveries \ {d} : rows'[e] = rows[e]
      BY <1>1, <1>4, <2>2, <2>3 DEF Types
    <2>5. x.attempt <= tries[d] /\ d \in accepted
      BY <1>1, <1>3, <1>5 DEF WorkerOk
    <2>6. RowOk(d)'
      BY <1>2, <2>2, <2>4, <2>5 DEF RowOk
    <2>7. Reading(x.batch) \in Work /\ Reading(x.batch).pc \in {"idle", "read"}
      BY <1>4, IdleWorker
    <2> QED BY <1>2, <2>3, <2>4, <2>6, <2>7, RestKeeps
  <1>7. CASE ~Exists(d)
    <2>1. Go(w, "failed") /\ rows' = rows
      BY <1>5, <1>7
    <2> QED BY <1>1, <1>2, <2>1, FailedKeeps
  <1> QED BY <1>6, <1>7

LEMMA WriteFailedKeeps ==
  ASSUME IInv, NEW w \in Workers, WriteFailed(w)
  PROVE  IInv'
  <1>1. Types /\ WorkerOk(w) /\ worker[w].pc = "failed"
    BY DEF IInv, WriteFailed
  <1>2. tries' = tries /\ accepted' = accepted
    BY DEF WriteFailed
  <1>3. PICK x \in Work : x = worker[w]
    BY <1>1 DEF Types
  <1>4. x.on \subseteq Deliveries /\ x.batch \in SUBSET Deliveries /\ x.attempt \in Nat
    BY DEF Work
  <1>5. PICK d \in x.on :
          IF Exists(d)
          THEN /\ rows' = [rows EXCEPT ![d] =
                    [status |-> IF FinalAttempt(x.attempt) THEN "FAILED" ELSE "RETRYING",
                     attempts |-> x.attempt]]
               /\ worker' = [worker EXCEPT ![w] = Reading(x.batch)]
          ELSE worker' = [worker EXCEPT ![w] = NoWork] /\ rows' = rows
    BY <1>3 DEF WriteFailed
  <1>6. CASE Exists(d)
    <2>1. PICK r : r = [status |-> IF FinalAttempt(x.attempt) THEN "FAILED" ELSE "RETRYING",
                        attempts |-> x.attempt]
      OBVIOUS
    <2>2. /\ r \in Delivery /\ r.attempts = x.attempt /\ r.status # "DELIVERED"
          /\ r.status = "FAILED" => x.attempt >= MaxAttempts
      BY <1>4, <2>1 DEF Delivery, FinalAttempt
    <2>3. rows' = [rows EXCEPT ![d] = r] /\ worker' = [worker EXCEPT ![w] = Reading(x.batch)]
      BY <1>5, <1>6, <2>1
    <2>4. /\ rows' \in [Deliveries -> Delivery] /\ rows'[d] = r
          /\ \A e \in Deliveries \ {d} : rows'[e] = rows[e]
      BY <1>1, <1>4, <2>2, <2>3 DEF Types
    <2>5. PICK n \in Nat : n = tries[d]
      BY <1>1, <1>4 DEF Types
    <2>6. x.attempt <= n /\ (r.status = "FAILED" => n >= MaxAttempts)
      <3>1. x.attempt <= n
        BY <1>1, <1>3, <1>5, <2>5 DEF WorkerOk
      <3> QED BY <1>4, <2>2, <3>1, WebhooksAssumption
    <2>7. RowOk(d)'
      BY <1>2, <2>2, <2>4, <2>5, <2>6 DEF RowOk
    <2>8. Reading(x.batch) \in Work /\ Reading(x.batch).pc \in {"idle", "read"}
      BY <1>4, IdleWorker
    <2> QED BY <1>2, <2>3, <2>4, <2>7, <2>8, RestKeeps
  <1>7. CASE ~Exists(d)
    <2>1. worker' = [worker EXCEPT ![w] = NoWork] /\ rows' = rows
      BY <1>5, <1>7
    <2>2. rows' \in [Deliveries -> Delivery]
      BY <1>1, <2>1 DEF Types
    <2> QED BY <1>2, <2>1, <2>2, IdleWorker, RestKeeps
  <1> QED BY <1>6, <1>7

\* A database that fails costs a worker its place, and no row its number.
LEMMA DatabaseFailsKeeps ==
  ASSUME IInv, NEW w \in Workers, DatabaseFails(w)
  PROVE  IInv'
  <1>1. /\ Types /\ WorkerOk(w) /\ tries' = tries /\ accepted' = accepted
        /\ rows \in [Deliveries -> Delivery]
    BY DEF IInv, Types, DatabaseFails
  <1>2. ASSUME NEW new, rows' = Created(new), worker' = [worker EXCEPT ![w] = NoWork]
        PROVE  IInv'
    <2>1. /\ rows' \in [Deliveries -> Delivery]
          /\ \A d \in Deliveries : rows'[d] = rows[d] \/ RowOk(d)'
      BY <1>1, <1>2, CreatedRows
    <2> QED BY <1>1, <1>2, <2>1, IdleWorker, RestKeeps
  <1>3. CASE rows' = rows /\ worker' = [worker EXCEPT ![w] = NoWork]
    BY <1>1, <1>3, IdleWorker, RestKeeps
  <1>4. CASE rows' = rows /\ worker[w].pc = "delivered" /\ Go(w, "failed")
    BY <1>1, <1>4, FailedKeeps
  <1> QED BY <1>2, <1>3, <1>4 DEF DatabaseFails

-----------------------------------------------------------------------------
(* The whole process. *)

\* The process restarts.
LEMMA CrashKeeps ==
  ASSUME IInv, Crash
  PROVE  IInv'
  <1>1. /\ Types /\ rows' = rows /\ tries' = tries /\ accepted' = accepted
        /\ worker' = [w \in Workers |-> NoWork]
    BY DEF Crash, IInv
  <1>2. Types' /\ HistoryGrows
    BY <1>1, IdleWorker DEF Types, HistoryGrows
  <1>3. \A w \in Workers : WorkerOk(w)'
    BY <1>1, IdleWorker DEF WorkerOk
  <1>4. \A d \in Deliveries : RowOk(d)'
    BY <1>1, <1>2, OtherRow DEF IInv
  <1> QED BY <1>2, <1>3, <1>4 DEF IInv

\* Steps that leave the workers and the history alone; rows may go.
LEMMA OutsideKeeps ==
  ASSUME IInv,
         \/ \E s \in Subscriptions :
              \/ DeleteSubscription(s)
              \/ \E status \in SubscriptionStatus : UpdateSubscription(s, status)
         \/ CircuitStep
         \/ UNCHANGED vars
  PROVE  IInv'
  <1>1. /\ Types /\ worker' = worker /\ tries' = tries /\ accepted' = accepted
        /\ \/ rows' = rows
           \/ \E s \in Subscriptions :
                rows' = [d \in Deliveries |->
                  IF SubscriptionOf[d] = s /\ Exists(d) THEN [rows[d] EXCEPT !.status = "GONE"]
                  ELSE rows[d]]
    BY DEF IInv, DeleteSubscription, UpdateSubscription, CircuitStep, vars, own
  <1>2. rows' \in [Deliveries -> Delivery]
        /\ \A d \in Deliveries : \/ rows'[d] = rows[d]
                                 \/ /\ rows'[d].status = "GONE"
                                    /\ rows'[d].attempts = rows[d].attempts
    BY <1>1 DEF Types, Delivery
  <1>3. Types' /\ HistoryGrows
    BY <1>1, <1>2 DEF Types, HistoryGrows
  <1>4. \A w \in Workers : WorkerOk(w)'
    BY <1>1, <1>3, OtherWorker DEF IInv
  <1>5. ASSUME NEW d \in Deliveries PROVE RowOk(d)'
    <2>1. RowOk(d)
      BY DEF IInv
    <2>2. CASE rows'[d] = rows[d]
      BY <1>1, <1>3, <2>1, <2>2, OtherRow
    <2>3. CASE rows'[d].status = "GONE" /\ rows'[d].attempts = rows[d].attempts
      BY <1>1, <2>1, <2>3 DEF RowOk
    <2> QED BY <1>2, <2>2, <2>3
  <1> QED BY <1>3, <1>4, <1>5 DEF IInv

LEMMA NextKeeps ==
  ASSUME IInv, Next
  PROVE  IInv'
  <1>1. ASSUME NEW w \in Workers, Step(w) PROVE IInv'
    <2>1. CASE Create(w)
      BY <2>1, CreateKeeps
    <2>2. ASSUME NEW d \in Deliveries, Read(w, d) PROVE IInv'
      BY <2>2, ReadKeeps
    <2>3. CASE Send(w) \/ Rejected(w)
      <3>1. /\ worker[w].pc = "send" /\ CountTry(w) /\ (Go(w, "wait") \/ Go(w, "failed"))
            /\ rows' = rows /\ accepted' = accepted
        BY <2>3 DEF Send, Rejected
      <3> QED BY <3>1, TryKeeps
    <2>4. CASE (\E ok \in BOOLEAN : Answered(w, ok)) \/ NoAnswer(w)
      BY <2>4, AnswerKeeps
    <2>5. CASE WriteDelivered(w)
      BY <2>5, WriteDeliveredKeeps
    <2>6. CASE WriteFailed(w)
      BY <2>6, WriteFailedKeeps
    <2> QED BY <1>1, <2>1, <2>2, <2>3, <2>4, <2>5, <2>6 DEF Step
  <1>2. ASSUME NEW w \in Workers, NEW new \in SUBSET Deliveries, Match(w, new) PROVE IInv'
    BY <1>2, MatchKeeps
  <1>3. ASSUME NEW w \in Workers, NEW batch \in SUBSET Due, StartTick(w, batch) PROVE IInv'
    BY <1>3, StartTickKeeps
  <1>4. ASSUME NEW w \in Workers, NEW d \in Deliveries, RetryDelivery(w, d) PROVE IInv'
    BY <1>4, RetryDeliveryKeeps
  <1>5. CASE Crash
    BY <1>5, CrashKeeps
  <1>6. ASSUME NEW w \in Workers, DatabaseFails(w) PROVE IInv'
    BY <1>6, DatabaseFailsKeeps
  <1> QED BY <1>1, <1>2, <1>3, <1>4, <1>5, <1>6, OutsideKeeps DEF Next

LEMMA InitIInv == Init => IInv
  <1> SUFFICES ASSUME Init PROVE IInv
    OBVIOUS
  <1>1. Types
    BY IdleWorker DEF Init, Types, Delivery
  <1>2. \A w \in Workers : WorkerOk(w)
    BY IdleWorker DEF Init, WorkerOk
  <1>3. \A d \in Deliveries : RowOk(d)
    BY DEF Init, RowOk
  <1> QED BY <1>1, <1>2, <1>3 DEF IInv

\* The rows never claim more than the tries and the answers there were.
THEOREM IInvHolds == Spec => []IInv
  <1>1. IInv /\ [Next]_vars => IInv'
    BY NextKeeps, OutsideKeeps
  <1> QED BY InitIInv, <1>1, PTL DEF Spec

\* Whatever the workers overwrite, DELIVERED is only ever written after a 2xx.
THEOREM DeliveredWasAcceptedHolds == Spec => []DeliveredWasAccepted
  <1>1. IInv => DeliveredWasAccepted
    BY DEF IInv, RowOk, DeliveredWasAccepted
  <1> QED BY <1>1, IInvHolds, PTL

\* Overlapping ticks, retries and crashes lose counts of attempts and never make
\* any up: FAILED is only written after MaxAttempts tries.
THEOREM GivenUpAfterAllTriesHolds == Spec => []GivenUpAfterAllTries
  <1>1. IInv => GivenUpAfterAllTries
    BY DEF IInv, RowOk, GivenUpAfterAllTries
  <1> QED BY <1>1, IInvHolds, PTL

-----------------------------------------------------------------------------
(* The circuit, by the proofs about it alone. *)

Kept == INSTANCE CircuitBreakerProofs WITH Call <- Workers

\* mergeConfig's bounds are what those proofs assume.
LEMMA KeptAssumptions == Kept!CallAssumption /\ Kept!ConfigAssumption
  BY CircuitAssumption DEF Kept!CallAssumption, Kept!ConfigAssumption, IsFiniteSet, Kept!IsFiniteSet

\* The two instances of CircuitBreaker say the same.
LEMMA SameTrim == \A c : Breaker!Trim(c) = Kept!Trim(c)
  BY DEF Breaker!Trim, Kept!Trim, Breaker!Cardinality, Kept!Cardinality

LEMMA SameTransition ==
  ASSUME NEW c, NEW next
  PROVE  Breaker!Transition(c, next) = Kept!Transition(c, next)
  BY DEF Breaker!Transition, Kept!Transition, Breaker!AtRest, Kept!AtRest,
         Breaker!NotOpened, Kept!NotOpened

LEMMA SameSettling ==
  ASSUME NEW c
  PROVE  /\ Breaker!OnSuccess(c) = Kept!OnSuccess(c)
         /\ Breaker!OnFailure(c) = Kept!OnFailure(c)
         /\ Breaker!Release(c) = Kept!Release(c)
         /\ \A cs : Breaker!Relabel(cs, c) = Kept!Relabel(cs, c)
  <1>1. Breaker!OnSuccess(c) = Kept!OnSuccess(c)
    BY SameTrim, SameTransition
       DEF Breaker!OnSuccess, Kept!OnSuccess, Breaker!CountSuccess, Kept!CountSuccess,
           Breaker!Widen, Kept!Widen, Breaker!Smaller, Kept!Smaller
  <1>2. Breaker!OnFailure(c) = Kept!OnFailure(c)
    BY SameTrim, SameTransition DEF Breaker!OnFailure, Kept!OnFailure
  <1>3. Breaker!Release(c) = Kept!Release(c)
    BY DEF Breaker!Release, Kept!Release
  <1>4. ASSUME NEW cs PROVE Breaker!Relabel(cs, c) = Kept!Relabel(cs, c)
    BY DEF Breaker!Relabel, Kept!Relabel
  <1> QED BY <1>1, <1>2, <1>3, <1>4

\* The actions of the circuit are those its proofs are about.
LEMMA SameSteps ==
  /\ \A w \in Workers : /\ Breaker!Admit(w) <=> Kept!Admit(w)
                        /\ Breaker!Succeed(w) <=> Kept!Succeed(w)
                        /\ Breaker!Fail(w) <=> Kept!Fail(w)
  /\ Breaker!Operate <=> Kept!Operate
  /\ Breaker!Tick <=> Kept!Tick
  <1>1. ASSUME NEW w \in Workers
        PROVE  /\ Breaker!Admit(w) <=> Kept!Admit(w)
               /\ Breaker!Succeed(w) <=> Kept!Succeed(w)
               /\ Breaker!Fail(w) <=> Kept!Fail(w)
    <2>1. Breaker!Admit(w) <=> Kept!Admit(w)
      BY SameTransition
         DEF Breaker!Admit, Kept!Admit, Breaker!AdmitFreely, Kept!AdmitFreely,
             Breaker!AdmitProbe, Kept!AdmitProbe, Breaker!MayProbe, Kept!MayProbe
    <2>2. Breaker!Succeed(w) <=> Kept!Succeed(w)
      BY SameSettling DEF Breaker!Succeed, Kept!Succeed
    <2>3. Breaker!Fail(w) <=> Kept!Fail(w)
      BY SameSettling DEF Breaker!Fail, Kept!Fail
    <2> QED BY <2>1, <2>2, <2>3
  <1>2. Breaker!Operate <=> Kept!Operate
    <2>1. Breaker!Reset <=> Kept!Reset
      BY SameSettling DEF Breaker!Reset, Kept!Reset, Breaker!NotOpened, Kept!NotOpened
    <2>2. ASSUME NEW mode \in {"AUTO", "FORCE_OPEN", "FORCE_CLOSED"}
          PROVE  Breaker!SetOverride(mode) <=> Kept!SetOverride(mode)
      BY SameTransition, SameSettling DEF Breaker!SetOverride, Kept!SetOverride
    <2> QED BY <2>1, <2>2 DEF Breaker!Operate, Kept!Operate
  <1>3. Breaker!Tick <=> Kept!Tick
    BY DEF Breaker!Tick, Kept!Tick, Breaker!Smaller, Kept!Smaller,
           Breaker!NotOpened, Kept!NotOpened
  <1> QED BY <1>1, <1>2, <1>3

\* So its inductive invariant is kept by its steps among those of the workers.
LEMMA StepKept ==
  ASSUME Kept!IInv,
         \/ \E w \in Workers : Breaker!Admit(w) \/ Breaker!Succeed(w) \/ Breaker!Fail(w)
         \/ Breaker!Operate \/ Breaker!Tick \/ UNCHANGED <<circuit, calls>>
  PROVE  Kept!IInv'
  <1>1. [Kept!Next]_Kept!vars
    BY SameSteps DEF Kept!Next, Kept!vars
  <1>2. Kept!IInv /\ [Kept!Next]_Kept!vars => Kept!IInv'
    BY KeptAssumptions, Kept!NextIInv
  <1> QED BY <1>1, <1>2

LEMMA InitKept ==
  ASSUME circuit = NewCircuit, calls = [w \in Workers |-> "idle"]
  PROVE  Kept!IInv
  <1>1. Kept!Init
    BY DEF NewCircuit, Kept!Init, Breaker!NotOpened, Kept!NotOpened
  <1> QED BY <1>1, KeptAssumptions, Kept!InitIInv

\* A restart gives a new circuit, and takes the calls of the old one along.
LEMMA CrashKept ==
  ASSUME Crash
  PROVE  Kept!IInv'
  <1>1. /\ circuit' = NewCircuit
        /\ calls' = [w \in Workers |-> "idle"]
    BY DEF Crash
  <1>2. PICK c : c = NewCircuit
    OBVIOUS
  <1>3. /\ c \in Kept!CircuitRuntime /\ c.state = "CLOSED" /\ c.override = "AUTO"
        /\ c.openedAge = Kept!NotOpened /\ Len(c.failures) = 0
        /\ c.successes = 0 /\ c.allowed = 1 /\ c.inFlight = 0
    BY <1>2, CircuitAssumption
       DEF NewCircuit, Kept!CircuitRuntime, Breaker!NotOpened, Kept!NotOpened
  <1>4. Kept!TypeOK'
    BY <1>1, <1>2, <1>3 DEF Kept!TypeOK
  <1>5. Kept!FieldsAgree'
    BY <1>1, <1>2, <1>3, CircuitAssumption DEF Kept!FieldsAgree
  <1>6. Kept!SlotsAreHeld'
    <2>1. Kept!Cardinality(Kept!Probes') \in Nat
      BY KeptAssumptions, Kept!ProbesFiniteAfter
    <2> QED BY <1>1, <1>2, <1>3, <2>1 DEF Kept!SlotsAreHeld
  <1> QED BY <1>4, <1>5, <1>6 DEF Kept!IInv

\* Which calls are in flight after a step of the circuit.
LEMMA CallMoves ==
  ASSUME Kept!IInv, NEW w \in Workers
  PROVE  /\ Breaker!Admit(w) =>
              /\ calls'[w] # "idle"
              /\ \A v \in Workers \ {w} : calls'[v] = calls[v]
         /\ Breaker!Succeed(w) \/ Breaker!Fail(w) =>
              /\ calls'[w] = "idle"
              /\ \A v \in Workers \ {w} : calls'[v] = "idle" <=> calls[v] = "idle"
         /\ Breaker!Operate \/ Breaker!Tick =>
              \A v \in Workers : calls'[v] = "idle" <=> calls[v] = "idle"
  <1>1. calls \in [Workers -> {"idle", "plain", "probe"}]
    BY DEF Kept!IInv, Kept!TypeOK
  <1>2. ASSUME Breaker!Admit(w)
        PROVE  calls'[w] # "idle" /\ \A v \in Workers \ {w} : calls'[v] = calls[v]
    BY <1>1, <1>2 DEF Breaker!Admit, Breaker!AdmitFreely, Breaker!AdmitProbe
  <1>3. ASSUME NEW cs \in [Workers -> {"idle", "plain", "probe"}], NEW c, NEW v \in Workers
        PROVE  Breaker!Relabel(cs, c)[v] = "idle" <=> cs[v] = "idle"
    BY DEF Breaker!Relabel
  <1>4. ASSUME Breaker!Succeed(w) \/ Breaker!Fail(w)
        PROVE  /\ calls'[w] = "idle"
               /\ \A v \in Workers \ {w} : calls'[v] = "idle" <=> calls[v] = "idle"
    <2>1. PICK cs : cs = [calls EXCEPT ![w] = "idle"]
      OBVIOUS
    <2>2. /\ cs \in [Workers -> {"idle", "plain", "probe"}]
          /\ cs[w] = "idle" /\ \A v \in Workers \ {w} : cs[v] = calls[v]
      BY <1>1, <2>1
    <2>3. calls' = Breaker!Relabel(cs, circuit')
      BY <1>4, <2>1 DEF Breaker!Succeed, Breaker!Fail
    <2> QED BY <1>3, <2>2, <2>3
  <1>5. ASSUME Breaker!Operate \/ Breaker!Tick, NEW v \in Workers
        PROVE  calls'[v] = "idle" <=> calls[v] = "idle"
    <2>1. calls' = calls \/ calls' = Breaker!Relabel(calls, circuit')
      BY <1>5 DEF Breaker!Operate, Breaker!Reset, Breaker!SetOverride, Breaker!Tick
    <2> QED BY <1>1, <1>3, <2>1
  <1> QED BY <1>2, <1>4, <1>5

-----------------------------------------------------------------------------
(* The types, and which call of the circuit is whose. *)

\* A worker is on one delivery, or on none.
OnFits(x) ==
  \/ x.pc \in {"idle", "create", "read"} /\ x.on = {}
  \/ /\ x.pc \in {"send", "wait", "delivered", "failed"}
     /\ \E d \in Deliveries : x.on = {d}

\* The calls in flight are those of the workers that wait for an answer.
InFlight(w) == OnFits(worker[w]) /\ (calls[w] # "idle" <=> worker[w].pc = "wait")

RestType ==
  /\ subscriptions \in [Subscriptions -> SubscriptionStatus]
  /\ accepted \subseteq Deliveries
  /\ trouble \in 0..MaxTrouble

CInv == IInv /\ Kept!IInv /\ RestType /\ \A w \in Workers : InFlight(w)

LEMMA RestFits ==
  /\ OnFits(NoWork) /\ NoWork.pc = "idle" /\ NoWork \in Work
  /\ \A batch \in SUBSET Deliveries :
       OnFits(Reading(batch)) /\ Reading(batch).pc # "wait" /\ Reading(batch) \in Work
  BY DEF OnFits, NoWork, Reading, Work

\* What becomes of the worker that makes a step.
LEMMA WorkerMoves ==
  ASSUME CInv, NEW w \in Workers,
         \/ Step(w)
         \/ DatabaseFails(w)
         \/ \E new \in SUBSET Deliveries : Match(w, new)
         \/ \E batch \in SUBSET Due : StartTick(w, batch)
         \/ \E d \in Deliveries : RetryDelivery(w, d)
  PROVE  \E x \in Work : /\ worker' = [worker EXCEPT ![w] = x]
                         /\ OnFits(x)
                         /\ x.pc = "wait" <=> Send(w)
  <1>1. PICK y \in Work : y = worker[w]
    BY DEF CInv, IInv, Types
  <1>2. y.batch \in SUBSET Deliveries /\ y.on \subseteq Deliveries /\ OnFits(y)
    BY <1>1 DEF CInv, InFlight, Work
  <1> DEFINE Goal == \E x \in Work : /\ worker' = [worker EXCEPT ![w] = x]
                                     /\ OnFits(x)
                                     /\ x.pc = "wait" <=> Send(w)
  <1>3. ASSUME NEW batch \in SUBSET Deliveries, ~Send(w),
               \/ worker' = [worker EXCEPT ![w] = NoWork]
               \/ worker' = [worker EXCEPT ![w] = Reading(batch)]
        PROVE  Goal
    BY <1>3, RestFits
  <1>4. ASSUME NEW pc \in {"wait", "delivered", "failed"}, Go(w, pc),
               y.pc \in {"send", "wait", "delivered"}, pc = "wait" <=> Send(w)
        PROVE  Goal
    <2>1. PICK x : x = [y EXCEPT !.pc = pc]
      OBVIOUS
    <2>2. x \in Work /\ OnFits(x) /\ x.pc = pc
      BY <1>2, <1>4, <2>1 DEF Work, OnFits
    <2>3. worker' = [worker EXCEPT ![w] = x]
      BY <1>1, <1>4, <2>1 DEF Go
    <2> QED BY <1>4, <2>2, <2>3
  <1>5. ASSUME NEW new \in SUBSET Deliveries, Match(w, new) PROVE Goal
    <2>1. PICK x : x = [NoWork EXCEPT !.pc = "create", !.batch = new]
      OBVIOUS
    <2>2. x \in Work /\ OnFits(x) /\ x.pc = "create"
      BY <2>1 DEF Work, NoWork, OnFits
    <2>3. worker' = [worker EXCEPT ![w] = x] /\ ~Send(w)
      BY <1>5, <2>1 DEF Match, Send
    <2> QED BY <2>2, <2>3
  <1>6. ASSUME NEW batch \in SUBSET Due, StartTick(w, batch) PROVE Goal
    <2>1. batch \in SUBSET Deliveries
      BY DEF Due
    <2>2. /\ worker' = [worker EXCEPT ![w] = Reading(batch)]
          /\ ~Send(w)
      BY <1>6 DEF StartTick, Send
    <2> QED BY <1>3, <2>1, <2>2
  <1>7. ASSUME NEW d \in Deliveries, RetryDelivery(w, d) PROVE Goal
    <2>1. /\ worker' = [worker EXCEPT ![w] = Reading({d})]
          /\ ~Send(w)
      BY <1>7 DEF RetryDelivery, Send
    <2> QED BY <1>3, <2>1
  <1>8. CASE Create(w)
    <2>1. PICK new : new = y.batch
      OBVIOUS
    <2>2. new \subseteq Deliveries
      BY <1>2, <2>1
    <2>3. \/ worker' = [worker EXCEPT ![w] = NoWork]
          \/ \E d \in new : worker' = [worker EXCEPT ![w] = Reading({d})]
      BY <1>1, <1>8, <2>1 DEF Create
    <2>4. ~Send(w)
      BY <1>8 DEF Create, Send
    <2> QED BY <1>3, <2>2, <2>3, <2>4
  <1>9. ASSUME NEW d \in Deliveries, Read(w, d) PROVE Goal
    <2>1. PICK rest \in SUBSET Deliveries : rest = y.batch \ {d}
      BY <1>2
    <2>2. PICK n \in Nat : n = rows[d].attempts + 1
      BY DEF CInv, IInv, Types, Delivery
    <2>3. PICK x : x = [pc |-> "send", batch |-> rest, on |-> {d}, attempt |-> n]
      OBVIOUS
    <2>4. \/ worker' = [worker EXCEPT ![w] = NoWork]
          \/ worker' = [worker EXCEPT ![w] = Reading(rest)]
          \/ worker' = [worker EXCEPT ![w] = x]
      BY <1>1, <1>9, <2>1, <2>2, <2>3 DEF Read
    <2>5. x \in Work /\ OnFits(x) /\ x.pc = "send"
      BY <2>3 DEF Work, OnFits
    <2>6. ~Send(w)
      BY <1>9 DEF Read, Send
    <2> QED BY <1>3, <2>4, <2>5, <2>6
  <1>10. CASE Send(w) \/ Rejected(w)
    <2>1. y.pc = "send"
      BY <1>1, <1>10 DEF Send, Rejected
    <2>2. \/ Go(w, "wait") /\ Send(w)
          \/ Go(w, "failed") /\ ~Send(w)
      <3>1. Send(w) => Go(w, "wait")
        BY DEF Send
      <3>2. Rejected(w) => Go(w, "failed")
        BY DEF Rejected
      <3> QED BY <1>10, <3>1, <3>2
    <2> QED BY <1>4, <2>1, <2>2
  <1>11. CASE (\E ok \in BOOLEAN : Answered(w, ok)) \/ NoAnswer(w)
    <2>1. y.pc = "wait" /\ ~Send(w) /\ (Go(w, "delivered") \/ Go(w, "failed"))
      BY <1>1, <1>11 DEF Answered, Outcome, NoAnswer, Send
    <2> QED BY <1>4, <2>1
  <1>12. CASE WriteDelivered(w)
    <2>1. /\ y.pc = "delivered" /\ ~Send(w)
          /\ worker' = [worker EXCEPT ![w] = Reading(y.batch)] \/ Go(w, "failed")
      BY <1>1, <1>12 DEF WriteDelivered, Send
    <2> QED BY <1>2, <1>3, <1>4, <2>1
  <1>13. CASE WriteFailed(w)
    <2>1. /\ ~Send(w)
          /\ \/ worker' = [worker EXCEPT ![w] = Reading(y.batch)]
             \/ worker' = [worker EXCEPT ![w] = NoWork]
      BY <1>1, <1>13 DEF WriteFailed, Send
    <2> QED BY <1>2, <1>3, <2>1
  <1>14. CASE DatabaseFails(w)
    <2>1. ~Send(w)
      BY <1>14 DEF DatabaseFails, Send
    <2>2. \/ worker' = [worker EXCEPT ![w] = NoWork]
          \/ y.pc = "delivered" /\ Go(w, "failed")
      BY <1>1, <1>14 DEF DatabaseFails
    <2> QED BY <1>2, <1>3, <1>4, <2>1, <2>2
  <1> QED BY <1>5, <1>6, <1>7, <1>8, <1>9, <1>10, <1>11, <1>12, <1>13, <1>14 DEF Step

\* What becomes of the circuit and its calls.
LEMMA CallsFollow ==
  ASSUME CInv, NEW w \in Workers,
         \/ Step(w)
         \/ DatabaseFails(w)
         \/ \E new \in SUBSET Deliveries : Match(w, new)
         \/ \E batch \in SUBSET Due : StartTick(w, batch)
         \/ \E d \in Deliveries : RetryDelivery(w, d)
  PROVE  /\ \/ Breaker!Admit(w) \/ Breaker!Succeed(w) \/ Breaker!Fail(w)
            \/ UNCHANGED <<circuit, calls>>
         /\ calls'[w] # "idle" <=> Send(w)
         /\ \A v \in Workers \ {w} : calls'[v] = "idle" <=> calls[v] = "idle"
  <1>1. Kept!IInv /\ (calls[w] # "idle" <=> worker[w].pc = "wait")
    BY DEF CInv, InFlight
  <1>2. CASE Send(w)
    <2>1. Breaker!Admit(w)
      BY <1>2 DEF Send
    <2> QED BY <1>1, <1>2, <2>1, CallMoves
  <1>3. CASE (\E ok \in BOOLEAN : Answered(w, ok)) \/ NoAnswer(w)
    <2>1. (Breaker!Succeed(w) \/ Breaker!Fail(w)) /\ ~Send(w)
      BY <1>3 DEF Answered, NoAnswer, Send
    <2> QED BY <1>1, <2>1, CallMoves
  <1>4. CASE ~Send(w) /\ UNCHANGED <<circuit, calls>> /\ worker[w].pc # "wait"
    BY <1>1, <1>4
  <1>5. CASE \/ Create(w) \/ \E d \in Deliveries : Read(w, d)
             \/ Rejected(w) /\ ~Send(w)
             \/ WriteDelivered(w) \/ WriteFailed(w) \/ DatabaseFails(w)
             \/ \E new \in SUBSET Deliveries : Match(w, new)
             \/ \E batch \in SUBSET Due : StartTick(w, batch)
             \/ \E d \in Deliveries : RetryDelivery(w, d)
    <2>1. UNCHANGED <<circuit, calls>> /\ worker[w].pc # "wait"
      BY <1>5 DEF Create, Read, Rejected, WriteDelivered, WriteFailed,
                  DatabaseFails, Match, StartTick, RetryDelivery
    <2>2. ~Send(w)
      BY <1>5 DEF Send, Create, Read, WriteDelivered, WriteFailed,
                  DatabaseFails, Match, StartTick, RetryDelivery
    <2> QED BY <1>4, <2>1, <2>2
  <1> QED BY <1>2, <1>3, <1>5 DEF Step

LEMMA RestTypeKept ==
  ASSUME CInv, [Next]_vars
  PROVE  RestType'
  <1>1. /\ RestType
        /\ \A w \in Workers : worker[w].on \subseteq Deliveries
    BY DEF CInv, IInv, Types, Work
  <1>2. ASSUME Trouble, trouble \in 0..MaxTrouble PROVE trouble' \in 0..MaxTrouble
    BY <1>2, WebhooksAssumption DEF Trouble
  <1>3. trouble' \in 0..MaxTrouble
    BY <1>1, <1>2
       DEF RestType, Next, vars, own, Step, Create, Read, Send, Rejected, Answered,
           NoAnswer, WriteDelivered, WriteFailed, DatabaseFails, Match, StartTick,
           RetryDelivery, DeleteSubscription, UpdateSubscription, Crash, CircuitStep
  <1>4. subscriptions' \in [Subscriptions -> SubscriptionStatus]
    BY <1>1
       DEF RestType, SubscriptionStatus, Next, vars, own, Step, Create, Read, Send, Rejected, Answered,
           NoAnswer, WriteDelivered, WriteFailed, DatabaseFails, Match, StartTick,
           RetryDelivery, DeleteSubscription, UpdateSubscription, Crash, CircuitStep
  <1>5. accepted' \subseteq Deliveries
    BY <1>1
       DEF RestType, Next, vars, own, Step, Create, Read, Send, Rejected, Answered,
           NoAnswer, WriteDelivered, WriteFailed, DatabaseFails, Match, StartTick,
           RetryDelivery, DeleteSubscription, UpdateSubscription, Crash, CircuitStep
  <1> QED BY <1>3, <1>4, <1>5 DEF RestType

LEMMA NextCInv ==
  ASSUME CInv, [Next]_vars
  PROVE  CInv'
  <1>1. IInv' /\ RestType'
    BY NextKeeps, OutsideKeeps, RestTypeKept DEF CInv
  <1>2. worker \in [Workers -> Work] /\ Kept!IInv /\ \A w \in Workers : InFlight(w)
    BY DEF CInv, IInv, Types
  <1>3. ASSUME NEW w \in Workers,
               \/ Step(w)
               \/ DatabaseFails(w)
               \/ \E new \in SUBSET Deliveries : Match(w, new)
               \/ \E batch \in SUBSET Due : StartTick(w, batch)
               \/ \E d \in Deliveries : RetryDelivery(w, d)
        PROVE  Kept!IInv' /\ \A v \in Workers : InFlight(v)'
    <2>1. PICK x \in Work : /\ worker' = [worker EXCEPT ![w] = x]
                            /\ OnFits(x)
                            /\ x.pc = "wait" <=> Send(w)
      BY <1>3, WorkerMoves
    <2>2. /\ \/ Breaker!Admit(w) \/ Breaker!Succeed(w) \/ Breaker!Fail(w)
             \/ UNCHANGED <<circuit, calls>>
          /\ calls'[w] # "idle" <=> Send(w)
          /\ \A v \in Workers \ {w} : calls'[v] = "idle" <=> calls[v] = "idle"
      BY <1>3, CallsFollow
    <2>3. worker'[w] = x /\ \A v \in Workers \ {w} : worker'[v] = worker[v]
      BY <1>2, <2>1
    <2>4. Kept!IInv'
      BY <1>2, <2>2, StepKept
    <2>5. InFlight(w)'
      BY <2>1, <2>2, <2>3 DEF InFlight
    <2>6. ASSUME NEW v \in Workers \ {w} PROVE InFlight(v)'
      BY <1>2, <2>2, <2>3 DEF InFlight, OnFits
    <2> QED BY <2>4, <2>5, <2>6
  <1>4. ASSUME Crash PROVE Kept!IInv' /\ \A v \in Workers : InFlight(v)'
    <2>1. Kept!IInv'
      BY <1>4, CrashKept
    <2>2. ASSUME NEW v \in Workers PROVE InFlight(v)'
      <3>1. worker'[v] = NoWork /\ calls'[v] = "idle"
        BY <1>4 DEF Crash
      <3> QED BY <3>1 DEF InFlight, OnFits, NoWork
    <2> QED BY <2>1, <2>2
  <1>5. ASSUME worker' = worker,
               \/ Breaker!Operate \/ Breaker!Tick
               \/ UNCHANGED <<circuit, calls>>
        PROVE  Kept!IInv' /\ \A v \in Workers : InFlight(v)'
    <2>1. Kept!IInv'
      BY <1>2, <1>5, StepKept
    <2>2. ASSUME NEW v \in Workers PROVE InFlight(v)'
      <3>1. calls'[v] = "idle" <=> calls[v] = "idle"
        BY <1>2, <1>5, CallMoves
      <3> QED BY <1>2, <1>5, <3>1 DEF InFlight, OnFits
    <2> QED BY <2>1, <2>2
  <1>6. ASSUME \/ \E s \in Subscriptions :
                    \/ DeleteSubscription(s)
                    \/ \E status \in SubscriptionStatus : UpdateSubscription(s, status)
               \/ CircuitStep
               \/ UNCHANGED vars
        PROVE  Kept!IInv' /\ \A v \in Workers : InFlight(v)'
    <2>1. /\ worker' = worker
          /\ Breaker!Operate \/ Breaker!Tick \/ UNCHANGED <<circuit, calls>>
      BY <1>6 DEF DeleteSubscription, UpdateSubscription, CircuitStep, vars, own
    <2> QED BY <1>5, <2>1
  <1> QED BY <1>1, <1>3, <1>4, <1>6 DEF CInv, Next

\* The types, and the circuit's invariant among the workers.
LEMMA CInvHolds == Spec => []CInv
  <1>1. Init => CInv
    <2> SUFFICES ASSUME Init PROVE CInv
      OBVIOUS
    <2>1. IInv
      BY InitIInv
    <2>2. Kept!IInv
      BY InitKept DEF Init, Breaker!Init, NewCircuit
    <2>3. RestType
      BY WebhooksAssumption DEF Init, RestType, SubscriptionStatus
    <2>4. ASSUME NEW w \in Workers PROVE InFlight(w)
      BY RestFits DEF Init, Breaker!Init, InFlight
    <2> QED BY <2>1, <2>2, <2>3, <2>4 DEF CInv
  <1>2. CInv /\ [Next]_vars => CInv'
    BY NextCInv
  <1> QED BY <1>1, <1>2, PTL DEF Spec

\* Every variable has its type, and a worker has a call in the circuit exactly
\* while it waits for the answer of its endpoint.
THEOREM TypeCorrect == Spec => []TypeInvariant
  <1>1. CInv => TypeInvariant
    <2> SUFFICES ASSUME CInv PROVE TypeInvariant
      OBVIOUS
    <2>1. Breaker!TypeOK
      BY DEF CInv, Kept!IInv, Kept!TypeOK, Breaker!TypeOK, Kept!CircuitRuntime,
             Breaker!CircuitRuntime, Kept!Ages, Breaker!Ages, Kept!NotOpened, Breaker!NotOpened
    <2>2. ASSUME NEW w \in Workers
          PROVE  /\ Cardinality(worker[w].on) =
                      IF worker[w].pc \in {"idle", "create", "read"} THEN 0 ELSE 1
                 /\ calls[w] # "idle" <=> worker[w].pc = "wait"
      <3>1. OnFits(worker[w]) /\ (calls[w] # "idle" <=> worker[w].pc = "wait")
        BY DEF CInv, InFlight
      <3>2. CASE worker[w].pc \in {"idle", "create", "read"} /\ worker[w].on = {}
        BY <3>1, <3>2, FS_EmptySet
      <3>3. ASSUME NEW d \in Deliveries, worker[w].on = {d},
                   worker[w].pc \in {"send", "wait", "delivered", "failed"}
            PROVE  Cardinality(worker[w].on) = 1
        BY <3>3, FS_Singleton
      <3> QED BY <3>1, <3>2, <3>3 DEF OnFits
    <2> QED BY <2>1, <2>2 DEF TypeInvariant, CInv, IInv, Types, RestType
  <1> QED BY <1>1, CInvHolds, PTL

-----------------------------------------------------------------------------
(* A worker comes to an end: what Settles rests on, beside the fairness. *)

\* How far a worker is from being done with the delivery it is on ...
Stage == [pc \in {"idle", "create", "read", "send", "wait", "delivered", "failed"} |->
  CASE pc = "idle" -> 0
    [] pc = "read" -> 1
    [] pc \in {"create", "failed"} -> 2
    [] pc = "delivered" -> 3
    [] pc = "wait" -> 4
    [] pc = "send" -> 5]

\* ... and with all it has to do.
Left(x) == 5 * Cardinality(x.batch) + Stage[x.pc]

\* A worker that has something to do only gets closer to being done.
TicksEnd ==
  [][\A w \in Workers :
       worker'[w] # worker[w] =>
         worker[w].pc = "idle" \/ Left(worker'[w]) < Left(worker[w])]_vars

LEMMA StageValues ==
  /\ Stage["idle"] = 0 /\ Stage["read"] = 1 /\ Stage["create"] = 2
  /\ Stage["failed"] = 2 /\ Stage["delivered"] = 3 /\ Stage["wait"] = 4
  /\ Stage["send"] = 5
  BY DEF Stage

LEMMA LeftIs ==
  ASSUME IsFiniteSet(Deliveries), NEW x \in Work
  PROVE  \E n, k \in Nat :
           /\ n = Cardinality(x.batch) /\ k = Stage[x.pc] /\ Left(x) = 5 * n + k
           /\ x.pc # "idle" => k >= 1
           /\ x.pc \notin {"idle", "read"} => k >= 2
  <1>1. PICK n \in Nat : n = Cardinality(x.batch)
    BY FS_Subset, FS_CardinalityType DEF Work
  <1>2. PICK pc : pc = x.pc
    OBVIOUS
  <1>3. pc \in {"idle", "create", "read", "send", "wait", "delivered", "failed"}
    BY <1>2 DEF Work
  <1>4. PICK k \in Nat : /\ k = Stage[pc]
                         /\ pc # "idle" => k >= 1
                         /\ pc \notin {"idle", "read"} => k >= 2
    BY <1>3, StageValues
  <1> QED BY <1>1, <1>2, <1>4 DEF Left

\* A worker that goes on to read the rest of its deliveries, or gives them up.
LEMMA RestLeft ==
  ASSUME IsFiniteSet(Deliveries), NEW x \in Work,
         NEW rest \in SUBSET Deliveries, NEW y \in {NoWork, Reading(rest)},
         \/ x.pc \notin {"idle", "read"} /\ rest = x.batch
         \/ \E d \in x.batch : x.pc # "idle" /\ rest = x.batch \ {d}
         \/ \E d \in x.batch : x.pc = "create" /\ rest = {d}
  PROVE  Left(y) < Left(x)
  <1>1. PICK n, k \in Nat :
          /\ n = Cardinality(x.batch) /\ Left(x) = 5 * n + k
          /\ x.pc # "idle" => k >= 1
          /\ x.pc \notin {"idle", "read"} => k >= 2
    BY LeftIs
  <1>2. IsFiniteSet(x.batch) /\ IsFiniteSet(rest)
    BY FS_Subset DEF Work
  <1>3. PICK m \in Nat : m = Cardinality(rest)
    BY <1>2, FS_CardinalityType
  <1>4. \/ y.pc = "idle" /\ y.batch = {}
        \/ y.pc = "read" /\ y.batch = rest
    <2>1. PICK z : z = [NoWork EXCEPT !.pc = "read", !.batch = rest]
      OBVIOUS
    <2>2. y \in {NoWork, z}
      BY <2>1 DEF Reading
    <2>3. z.pc = "read" /\ z.batch = rest
      BY <2>1 DEF NoWork
    <2>4. NoWork.pc = "idle" /\ NoWork.batch = {}
      BY DEF NoWork
    <2> QED BY <2>2, <2>3, <2>4
  <1>5. Left(y) <= 5 * m + 1 /\ Left(y) \in Nat
    <2>1. CASE y.pc = "idle" /\ y.batch = {}
      <3>1. Left(y) = 0
        BY <2>1, StageValues, FS_EmptySet DEF Left
      <3> QED BY <3>1
    <2>2. CASE y.pc = "read" /\ y.batch = rest
      <3>1. Left(y) = 5 * m + 1
        BY <1>3, <2>2, StageValues DEF Left
      <3> QED BY <3>1
    <2> QED BY <1>4, <2>1, <2>2
  <1>6. CASE x.pc \notin {"idle", "read"} /\ rest = x.batch
    BY <1>1, <1>3, <1>5, <1>6
  <1>7. ASSUME NEW d \in x.batch, x.pc # "idle", rest = x.batch \ {d}
        PROVE  Left(y) < Left(x)
    <2>1. m = n - 1
      BY <1>1, <1>2, <1>3, <1>7, FS_RemoveElement
    <2> QED BY <1>1, <1>5, <1>7, <2>1
  <1>8. ASSUME NEW d \in x.batch, x.pc = "create", rest = {d}
        PROVE  Left(y) < Left(x)
    <2>1. m = 1
      BY <1>3, <1>8, FS_Singleton
    <2>2. n # 0
      BY <1>1, <1>2, FS_EmptySet
    <2> QED BY <1>1, <1>5, <1>8, <2>1, <2>2
  <1> QED BY <1>6, <1>7, <1>8

\* A worker that goes on with the delivery it is on.
LEMMA GoLeft ==
  ASSUME Types, IsFiniteSet(Deliveries), NEW w \in Workers,
         NEW pc \in {"wait", "delivered", "failed"},
         Go(w, pc), Stage[pc] < Stage[worker[w].pc]
  PROVE  Left(worker'[w]) < Left(worker[w])
  <1>1. worker[w] \in Work /\ worker'[w] = [worker[w] EXCEPT !.pc = pc]
    BY DEF Types, Go
  <1>2. worker'[w].pc = pc /\ worker'[w].batch = worker[w].batch
    BY <1>1 DEF Work
  <1>3. PICK n, k \in Nat : n = Cardinality(worker[w].batch) /\ k = Stage[worker[w].pc]
    BY <1>1, LeftIs
  <1>4. Left(worker[w]) = 5 * n + k /\ Left(worker'[w]) = 5 * n + Stage[pc]
    BY <1>2, <1>3 DEF Left
  <1>5. Stage[pc] \in Nat
    BY StageValues
  <1> QED BY <1>3, <1>4, <1>5

\* A worker that drops what it does.
LEMMA GivenUpLeft ==
  ASSUME IsFiniteSet(Deliveries), NEW x \in Work, x.pc # "idle"
  PROVE  Left(NoWork) < Left(x)
  <1>1. Left(NoWork) = 0
    BY StageValues, FS_EmptySet DEF Left, NoWork
  <1>2. PICK n, k \in Nat : Left(x) = 5 * n + k /\ k >= 1
    BY LeftIs
  <1> QED BY <1>1, <1>2

LEMMA StepLeft ==
  ASSUME Types, IsFiniteSet(Deliveries), NEW w \in Workers, Step(w) \/ DatabaseFails(w)
  PROVE  /\ Left(worker'[w]) < Left(worker[w])
         /\ \A v \in Workers \ {w} : worker'[v] = worker[v]
  <1>1. PICK x \in Work : x = worker[w]
    BY DEF Types
  <1>2. x.batch \in SUBSET Deliveries
    BY DEF Work
  <1> DEFINE Goal == /\ Left(worker'[w]) < Left(worker[w])
                     /\ \A v \in Workers \ {w} : worker'[v] = worker[v]
  <1>3. ASSUME NEW rest \in SUBSET Deliveries, NEW y \in {NoWork, Reading(rest)},
               worker' = [worker EXCEPT ![w] = y],
               \/ x.pc \notin {"idle", "read"} /\ rest = x.batch
               \/ \E d \in x.batch : x.pc # "idle" /\ rest = x.batch \ {d}
               \/ \E d \in x.batch : x.pc = "create" /\ rest = {d}
        PROVE  Goal
    <2>1. Left(y) < Left(x)
      BY <1>3, RestLeft
    <2>2. worker'[w] = y /\ \A v \in Workers \ {w} : worker'[v] = worker[v]
      BY <1>3 DEF Types
    <2> QED BY <1>1, <2>1, <2>2
  <1>4. ASSUME NEW pc \in {"wait", "delivered", "failed"}, Go(w, pc),
               Stage[pc] < Stage[x.pc]
        PROVE  Goal
    <2>1. Left(worker'[w]) < Left(worker[w])
      BY <1>1, <1>4, GoLeft
    <2>2. \A v \in Workers \ {w} : worker'[v] = worker[v]
      BY <1>4 DEF Types, Go
    <2> QED BY <2>1, <2>2
  <1>5. CASE Create(w)
    <2>1. PICK new : new = x.batch
      OBVIOUS
    <2>2. x.pc = "create" /\ new \subseteq x.batch
      BY <1>1, <1>5, <2>1 DEF Create
    <2>3. CASE worker' = [worker EXCEPT ![w] = NoWork]
      BY <1>2, <1>3, <2>2, <2>3
    <2>4. ASSUME NEW d \in new, worker' = [worker EXCEPT ![w] = Reading({d})]
          PROVE  Goal
      <3>1. PICK rest \in SUBSET Deliveries : rest = {d} /\ d \in x.batch
        BY <1>2, <2>2
      <3>2. PICK y \in {NoWork, Reading(rest)} : y = Reading({d})
        BY <3>1
      <3> QED BY <1>3, <2>2, <2>4, <3>1, <3>2
    <2> QED BY <1>1, <1>5, <2>1, <2>3, <2>4 DEF Create
  <1>6. ASSUME NEW d \in Deliveries, Read(w, d) PROVE Goal
    <2>1. PICK rest \in SUBSET Deliveries : rest = x.batch \ {d}
      BY <1>2
    <2>2. x.pc = "read" /\ d \in x.batch
      BY <1>1, <1>6 DEF Read
    <2>3. PICK y : y = [pc |-> "send", batch |-> rest, on |-> {d},
                        attempt |-> rows[d].attempts + 1]
      OBVIOUS
    <2>4. CASE worker' = [worker EXCEPT ![w] = y]
      <3>1. worker'[w] = y /\ \A v \in Workers \ {w} : worker'[v] = worker[v]
        BY <2>4 DEF Types
      <3>2. PICK n, k \in Nat : n = Cardinality(x.batch) /\ k = Stage[x.pc]
        BY LeftIs
      <3>3. Left(x) = 5 * n + 1
        BY <2>2, <3>2, StageValues DEF Left
      <3>4. IsFiniteSet(x.batch)
        BY <1>2, FS_Subset
      <3>5. Cardinality(rest) = n - 1
        BY <2>1, <2>2, <3>2, <3>4, FS_RemoveElement
      <3>6. Left(y) = 5 * (n - 1) + 5
        BY <2>3, <3>5, StageValues DEF Left
      <3>7. Left(y) < Left(x)
        BY <3>2, <3>3, <3>6
      <3> QED BY <1>1, <3>1, <3>7
    <2>5. CASE \/ worker' = [worker EXCEPT ![w] = NoWork]
               \/ worker' = [worker EXCEPT ![w] = Reading(rest)]
      BY <1>3, <2>1, <2>2, <2>5
    <2> QED BY <1>1, <1>6, <2>1, <2>3, <2>4, <2>5 DEF Read
  <1>7. CASE Send(w) \/ Rejected(w)
    <2>1. x.pc = "send" /\ (Go(w, "wait") \/ Go(w, "failed"))
      BY <1>1, <1>7 DEF Send, Rejected
    <2>2. Stage["wait"] < Stage[x.pc] /\ Stage["failed"] < Stage[x.pc]
      BY <2>1, StageValues
    <2> QED BY <1>4, <2>1, <2>2
  <1>8. CASE (\E ok \in BOOLEAN : Answered(w, ok)) \/ NoAnswer(w)
    <2>1. x.pc = "wait" /\ (Go(w, "delivered") \/ Go(w, "failed"))
      BY <1>1, <1>8 DEF Answered, Outcome, NoAnswer
    <2>2. Stage["delivered"] < Stage[x.pc] /\ Stage["failed"] < Stage[x.pc]
      BY <2>1, StageValues
    <2> QED BY <1>4, <2>1, <2>2
  <1>9. CASE WriteDelivered(w)
    <2>1. /\ x.pc = "delivered"
          /\ worker' = [worker EXCEPT ![w] = Reading(x.batch)] \/ Go(w, "failed")
      BY <1>1, <1>9 DEF WriteDelivered
    <2>2. Stage["failed"] < Stage[x.pc]
      BY <2>1, StageValues
    <2> QED BY <1>2, <1>3, <1>4, <2>1, <2>2
  <1>10. CASE WriteFailed(w)
    <2>1. /\ x.pc = "failed"
          /\ \/ worker' = [worker EXCEPT ![w] = Reading(x.batch)]
             \/ worker' = [worker EXCEPT ![w] = NoWork]
      BY <1>1, <1>10 DEF WriteFailed
    <2> QED BY <1>2, <1>3, <2>1
  <1>11. CASE DatabaseFails(w)
    <2>1. \/ /\ x.pc \notin {"idle", "read"}
             /\ worker' = [worker EXCEPT ![w] = NoWork]
          \/ /\ x.pc = "read"
             /\ worker' = [worker EXCEPT ![w] = NoWork]
          \/ x.pc = "delivered" /\ Go(w, "failed")
      BY <1>1, <1>11 DEF DatabaseFails
    <2>2. CASE x.pc \notin {"idle", "read"} /\ worker' = [worker EXCEPT ![w] = NoWork]
      BY <1>2, <1>3, <2>2
    <2>3. CASE x.pc = "read" /\ worker' = [worker EXCEPT ![w] = NoWork]
      BY <1>1, <2>3, GivenUpLeft DEF Types
    <2>4. CASE x.pc = "delivered" /\ Go(w, "failed")
      <3>1. Stage["failed"] < Stage[x.pc]
        BY <2>4, StageValues
      <3> QED BY <1>4, <2>4, <3>1
    <2> QED BY <2>1, <2>2, <2>3, <2>4
  <1> QED BY <1>5, <1>6, <1>7, <1>8, <1>9, <1>10, <1>11 DEF Step

\* A worker with n deliveries before it is through with them after at most
\* 5n + 2 steps of its own, whatever other workers write into their rows,
\* however the circuit, the database and the endpoints answer and whatever
\* becomes of the subscriptions: no failed write, rejection or missing row
\* makes processDeliveryById start over.
THEOREM TickEnds ==
  ASSUME IsFiniteSet(Deliveries)
  PROVE  Spec => TicksEnd
  <1> DEFINE Nearer(w) ==
        worker'[w] # worker[w] =>
          worker[w].pc = "idle" \/ Left(worker'[w]) < Left(worker[w])
  <1>1. ASSUME Types, [Next]_vars, NEW w \in Workers PROVE Nearer(w)
    <2>1. ASSUME NEW v \in Workers, Step(v) \/ DatabaseFails(v) PROVE Nearer(w)
      BY <1>1, <2>1, StepLeft
    <2>2. ASSUME NEW v \in Workers, worker[v].pc = "idle",
                 NEW x, worker' = [worker EXCEPT ![v] = x]
          PROVE  Nearer(w)
      BY <1>1, <2>2 DEF Types
    <2>3. ASSUME NEW v \in Workers,
                 \/ \E new \in SUBSET Deliveries : Match(v, new)
                 \/ \E batch \in SUBSET Due : StartTick(v, batch)
                 \/ \E d \in Deliveries : RetryDelivery(v, d)
          PROVE  Nearer(w)
      BY <2>2, <2>3 DEF Match, StartTick, RetryDelivery
    <2>4. CASE Crash
      <3>1. worker'[w] = NoWork /\ worker[w] \in Work
        BY <1>1, <2>4 DEF Crash, Types
      <3> QED BY <3>1, GivenUpLeft
    <2>5. CASE UNCHANGED worker
      BY <2>5
    <2> HIDE DEF Nearer
    <2> QED BY <1>1, <2>1, <2>3, <2>4, <2>5
            DEF Next, UpdateSubscription, DeleteSubscription, CircuitStep, vars, own
  <1>2. Types /\ [Next]_vars => [\A w \in Workers : Nearer(w)]_vars
    BY <1>1
  <1>3. IInv => Types
    BY DEF IInv
  <1> QED BY <1>2, <1>3, IInvHolds, PTL DEF Spec, TicksEnd
=============================================================================
