-------------------------- MODULE TransactionQueue --------------------------
(***************************************************************************)
(* The transaction queue of the backend                                    *)
(* (Backend/src/transaction-queue/transaction-queue.service.ts). Every     *)
(* replica runs two cron ticks over the same database rows: the worker     *)
(* submits the items that are due, the poller asks for the outcome of what *)
(* was submitted. Neither holds a lock or a transaction, so each await is  *)
(* a point where the other tick, another replica, a request of an operator *)
(* or a crash comes in between; there is one action per stretch between    *)
(* two awaits.                                                             *)
(*                                                                         *)
(* Left out: priorities, batch sizes and back-off (a tick takes any of the *)
(* eligible items, in any order), fees, and the rows of attempts.          *)
(* A status query is one step with the write that follows it: only the     *)
(* poller that asks changes the answer, so nothing can tell them apart.    *)
(* What the world outside does to the queue (requests of operators, errors *)
(* of the gateway or the database, slow confirmations, crashes) is counted *)
(* by trouble and bounded by MaxTrouble.                                   *)
(***************************************************************************)
EXTENDS TransactionGateway, FiniteSets

CONSTANTS
  Signers,
  SignerOf,         \* the signerAddress of every item
  ClientNonces,     \* the nonces requests ask for, None to have one allocated
  MaxRetries,       \* an item's maxRetries
  Errors,           \* the classes submission errors fall in
  Crashes,          \* whether replicas crash
  DbErrors,         \* whether database calls fail
  MaxTrouble        \* bound on what the outside world does

\* NonceFailureType, the classes of classifyNonceError.
ErrorClass == {"NONE", "NONCE_TOO_LOW", "NONCE_TOO_HIGH", "NONCE_DUPLICATE",
               "NONCE_GENERIC"}

ASSUME QueueAssumption ==
  /\ SignerOf \in [Items -> Signers]
  /\ ClientNonces \subseteq Nat \cup {None}
  /\ MaxRetries \in Nat \ {0}
  /\ Errors \subseteq ErrorClass
  /\ Crashes \in BOOLEAN
  /\ DbErrors \in BOOLEAN
  /\ MaxTrouble \in Nat

VARIABLES
  items,        \* the rows of the queue
  nextNonce,    \* the nonce state of every signer, None without a row
  worker,       \* the queue tick in progress on every replica
  poller,       \* the polling tick: the rows it read and has yet to look at
  cancelling,   \* items whose cancel has read the row and not written it yet
  recorded,     \* history: transactions whose hash was written into the row
  abandoned,    \* history: items whose worker was cut off while on them
  trouble

vars == <<txs, items, nextNonce, worker, poller, cancelling, recorded,
          abandoned, trouble>>

NoneOr(S) == S \cup {None}

QueueStatus == {"ABSENT", "QUEUED", "PROCESSING", "SUBMITTED", "STUCK",
                "CONFIRMED", "FAILED", "DEAD_LETTER", "CANCELLED"}

QueueItem ==
  [ status     : QueueStatus,       \* ABSENT before the item is enqueued
    nonce      : NoneOr(Nat),
    txHash     : NoneOr(Nat),
    retryCount : Nat,
    result     : NoneOr(Nat) ]      \* the hash in a confirmation's result

Absent == [status |-> "ABSENT", nonce |-> None, txHash |-> None,
           retryCount |-> 0, result |-> None]

\* A queue tick: the items it has yet to process and the one it is on, with
\* the row it read of it, its nonce, its transaction, the class of the error
\* that befell it and the nextNonce the recovery read.
Tick ==
  [ pc    : {"idle", "pick", "mark", "allocate", "create", "submit", "record",
             "advance", "recover", "rewind", "fail"},
    batch : SUBSET Items,
    item  : NoneOr(Items),
    fresh : QueueItem,
    nonce : NoneOr(Nat),
    tx    : NoneOr(Nat),
    error : NoneOr(ErrorClass),
    seen  : NoneOr(Nat) ]

NoTick == [pc |-> "idle", batch |-> {}, item |-> None, fresh |-> Absent,
           nonce |-> None, tx |-> None, error |-> None, seen |-> None]

\* What the queue tick selects and what it submits once more.
Retriable_Bug == {"QUEUED", "STUCK"}
Retriable == {"QUEUED", "FAILED", "STUCK"}

Candidates ==
  {i \in Items : items[i].status \in Retriable /\ items[i].retryCount < MaxRetries}

\* The worker of r has marked item i and is not done with it.
OnItem(r, i) == worker[r].item = i /\ worker[r].pc \notin {"idle", "pick", "mark"}

Init ==
  /\ InitGateway
  /\ items = [i \in Items |-> Absent]
  /\ nextNonce = [s \in Signers |-> None]
  /\ worker = [r \in Replicas |-> NoTick]
  /\ poller = [r \in Replicas |-> <<>>]
  /\ cancelling = {}
  /\ recorded = {}
  /\ abandoned = {}
  /\ trouble = 0

Trouble == trouble < MaxTrouble /\ trouble' = trouble + 1

\* The worker of r goes on to pc with some of its fields changed.
Go(r, pc, w) == worker' = [worker EXCEPT ![r] = [w EXCEPT !.pc = pc]]

\* The worker of r is left with the items of batch.
GoOnWith(r, batch) ==
  worker' = [worker EXCEPT ![r] =
    IF batch = {} THEN NoTick ELSE [NoTick EXCEPT !.pc = "pick", !.batch = batch]]

Done(r) == GoOnWith(r, worker[r].batch)

-----------------------------------------------------------------------------
\* Requests.

\* enqueue: of two requests with one idempotency key the second one, however
\* they interleave, is answered with the row of the first.
Enqueue(i, n) ==
  /\ items[i].status = "ABSENT"
  /\ items' = [items EXCEPT ![i].status = "QUEUED", ![i].nonce = n]
  /\ UNCHANGED <<txs, nextNonce, worker, poller, cancelling, recorded,
                 abandoned, trouble>>

\* retryNow writes QUEUED whatever the status, and leaves the retry count.
RetryNow(i) ==
  /\ items[i].status # "ABSENT"
  /\ items' = [items EXCEPT ![i].status = "QUEUED"]
  /\ Trouble
  /\ UNCHANGED <<txs, nextNonce, worker, poller, cancelling, recorded, abandoned>>

\* cancel reads the row, and writes it in a step of its own.
CancelRead(i) ==
  /\ items[i].status \notin {"ABSENT", "CONFIRMED"}
  /\ i \notin cancelling
  /\ cancelling' = cancelling \cup {i}
  /\ Trouble
  /\ UNCHANGED <<txs, items, nextNonce, worker, poller, recorded, abandoned>>

CancelWrite(i) ==
  /\ i \in cancelling
  /\ cancelling' = cancelling \ {i}
  /\ items' = [items EXCEPT ![i].status = "CANCELLED"]
  /\ UNCHANGED <<txs, nextNonce, worker, poller, recorded, abandoned, trouble>>

\* getSignerNonceState makes the row of a signer that has none.
GetSignerNonceState(s) ==
  /\ nextNonce[s] = None
  /\ nextNonce' = [nextNonce EXCEPT ![s] = 0]
  /\ UNCHANGED <<txs, items, worker, poller, cancelling, recorded, abandoned, trouble>>

-----------------------------------------------------------------------------
\* processQueuedTransactions and processSingleItem.

StartTick(r, batch) ==
  /\ worker[r].pc = "idle"
  /\ batch # {}
  /\ worker' = [worker EXCEPT ![r].pc = "pick", ![r].batch = batch]
  /\ UNCHANGED <<txs, items, nextNonce, poller, cancelling, recorded,
                 abandoned, trouble>>

\* The row is read again, and the item passed over if it is not to be retried.
ReadFresh_Bug(r, i) ==
  /\ worker[r].pc = "pick"
  /\ i \in worker[r].batch
  /\ Go(r, "mark", [worker[r] EXCEPT !.batch = @ \ {i}, !.item = i,
                                     !.fresh = items[i]])
  /\ UNCHANGED <<txs, items, nextNonce, poller, cancelling, recorded,
                 abandoned, trouble>>
ReadFresh(r, i) ==
  /\ worker[r].pc = "pick"
  /\ i \in worker[r].batch
  /\ LET rest == worker[r].batch \ {i} IN
     IF items[i].status \in Retriable
     THEN Go(r, "mark", [worker[r] EXCEPT !.batch = rest, !.item = i,
                                          !.fresh = items[i]])
     ELSE GoOnWith(r, rest)
  /\ UNCHANGED <<txs, items, nextNonce, poller, cancelling, recorded,
                 abandoned, trouble>>

MarkProcessing(r) ==
  LET i == worker[r].item IN
  /\ worker[r].pc = "mark"
  /\ items' = [items EXCEPT ![i].status = "PROCESSING"]
  /\ Go(r, "allocate", worker[r])
  /\ UNCHANGED <<txs, nextNonce, poller, cancelling, recorded, abandoned, trouble>>

\* allocateNonce: the nonce of the row, or the signer's next one, which is
\* read and not reserved; None when the signer has no row yet.
Allocation_Bug(row, i) == nextNonce[SignerOf[i]]
Allocation(row, i) ==
  IF row.nonce # None THEN row.nonce ELSE nextNonce[SignerOf[i]]

AllocateNonce(r) ==
  LET n == Allocation(worker[r].fresh, worker[r].item) IN
  /\ worker[r].pc = "allocate"
  /\ IF n = None THEN Go(r, "create", worker[r])
                 ELSE Go(r, "submit", [worker[r] EXCEPT !.nonce = n])
  /\ UNCHANGED <<txs, items, nextNonce, poller, cancelling, recorded,
                 abandoned, trouble>>

CreateNonceState(r) ==
  LET s == SignerOf[worker[r].item] IN
  /\ worker[r].pc = "create"
  /\ nextNonce[s] = None
  /\ nextNonce' = [nextNonce EXCEPT ![s] = 0]
  /\ Go(r, "submit", [worker[r] EXCEPT !.nonce = 0])
  /\ UNCHANGED <<txs, items, poller, cancelling, recorded, abandoned, trouble>>

\* An error outside the try ends the work on the item and leaves its row as it
\* is. A batch goes on with its next item; the error of a single item ends the
\* whole tick.
CutOff(r) ==
  /\ abandoned' = abandoned \cup {i \in Items : OnItem(r, i)}
  /\ Done(r) \/ GoOnWith(r, {})
  /\ UNCHANGED <<txs, items, nextNonce, poller, cancelling, recorded>>

\* A create of the nonce row fails on the unique key, because another replica or
\* a request was first: in allocateNonce, or in recoverNonceState for an item
\* whose nonce the client chose. Neither is in the try.
LoseCreateRace(r) ==
  LET w == worker[r] IN
  /\ w.pc = "create" \/ (w.pc = "rewind" /\ w.seen = None)
  /\ nextNonce[SignerOf[w.item]] # None
  /\ CutOff(r)
  /\ UNCHANGED trouble

DbErrorOutsideTry(r) ==
  /\ DbErrors
  /\ worker[r].pc \in {"mark", "allocate", "create", "recover", "rewind", "fail"}
  /\ CutOff(r)
  /\ Trouble

SubmitAccepted(r) ==
  /\ worker[r].pc = "submit"
  /\ Accepted(r, worker[r].item, worker[r].nonce)
  /\ Go(r, "record", [worker[r] EXCEPT !.tx = Len(txs) + 1])
  /\ UNCHANGED <<items, nextNonce, poller, cancelling, recorded, abandoned, trouble>>

\* handleSubmissionFailure with an error of class e; the classes other than NONE
\* need the recovery of the nonce state first.
ToFailure(r, e) ==
  Go(r, IF e = "NONE" THEN "fail" ELSE "recover", [worker[r] EXCEPT !.error = e])

\* The gateway (or its open circuit) rejects.
SubmitRejected(r, e) ==
  /\ worker[r].pc = "submit"
  /\ ToFailure(r, e)
  /\ Trouble
  /\ UNCHANGED <<txs, items, nextNonce, poller, cancelling, recorded, abandoned>>

RecordSubmission_Bug(r) ==
  LET i == worker[r].item IN
  /\ worker[r].pc = "record"
  /\ items' = [items EXCEPT ![i].status = "SUBMITTED", ![i].txHash = worker[r].tx]
  /\ recorded' = recorded \cup {worker[r].tx}
  /\ Go(r, "advance", worker[r])
  /\ UNCHANGED <<txs, nextNonce, poller, cancelling, abandoned, trouble>>
RecordSubmission(r) ==
  LET i == worker[r].item IN
  /\ worker[r].pc = "record"
  /\ items' = [items EXCEPT ![i].status = "SUBMITTED",
                            ![i].txHash = worker[r].tx,
                            ![i].nonce = worker[r].nonce]
  /\ recorded' = recorded \cup {worker[r].tx}
  /\ Go(r, "advance", worker[r])
  /\ UNCHANGED <<txs, nextNonce, poller, cancelling, abandoned, trouble>>

\* advanceNonceState overwrites the signer's next nonce, back as well as forth.
NonceAfter_Bug(n) == n
NonceAfter(n) == n + 1

AdvanceNonceState(r) ==
  /\ worker[r].pc = "advance"
  /\ nextNonce' = [nextNonce EXCEPT ![SignerOf[worker[r].item]]
                     = NonceAfter(worker[r].nonce)]
  /\ Done(r)
  /\ UNCHANGED <<txs, items, poller, cancelling, recorded, abandoned, trouble>>

\* classifyNonceError of a database error: about the nonce, if the message names
\* that column or the table of nonces.
DbErrorClass == {"NONE", "NONCE_GENERIC"}

\* An error after the submission is treated as a failure of the submission.
DbErrorAfterSubmit(r, e) ==
  /\ DbErrors
  /\ worker[r].pc \in {"record", "advance"}
  /\ ToFailure(r, e)
  /\ Trouble
  /\ UNCHANGED <<txs, items, nextNonce, poller, cancelling, recorded, abandoned>>

-----------------------------------------------------------------------------
\* handleSubmissionFailure and recoverNonceState.

RecoverRead(r) ==
  /\ worker[r].pc = "recover"
  /\ Go(r, "rewind", [worker[r] EXCEPT !.seen = nextNonce[SignerOf[worker[r].item]]])
  /\ UNCHANGED <<txs, items, nextNonce, poller, cancelling, recorded,
                 abandoned, trouble>>

\* The next nonce after nonce n was rejected, from the one read before. (There is
\* none if the client chose the nonce, which goes past allocateNonce, and nothing
\* else made the signer's row.)
Recovered_Bug(seen, n, error) == IF error = "NONCE_TOO_HIGH" THEN n - 1 ELSE n + 1
Recovered(seen, n, error) ==
  CASE error = "NONCE_TOO_HIGH" -> IF seen = None \/ seen > n THEN n ELSE seen
    [] error = "NONCE_GENERIC"  -> IF seen = None \/ seen <= n THEN n + 1 ELSE seen
    [] OTHER -> n + 1

RecoverWrite_Bug(r) ==
  LET w == worker[r] IN
  /\ w.pc = "rewind"
  /\ w.seen = None => nextNonce[SignerOf[w.item]] = None
  /\ nextNonce' = [nextNonce EXCEPT ![SignerOf[w.item]]
                     = Recovered(w.seen, w.nonce, w.error)]
  /\ Done(r)
  /\ UNCHANGED <<txs, items, poller, cancelling, recorded, abandoned, trouble>>
\* The row is created if the read found none, which succeeds only if there still
\* is none (else LoseCreateRace), and updated otherwise.
RecoverWrite(r) ==
  LET w == worker[r]
      s == SignerOf[w.item]
      n == Recovered(w.seen, w.nonce, w.error) IN
  /\ w.pc = "rewind"
  /\ w.seen = None => nextNonce[s] = None
  /\ nextNonce' = IF n = w.seen THEN nextNonce ELSE [nextNonce EXCEPT ![s] = n]
  /\ Go(r, "fail", w)
  /\ UNCHANGED <<txs, items, poller, cancelling, recorded, abandoned, trouble>>

\* What a failure after n retries makes of the item.
AfterFailure(row, n) ==
  [row EXCEPT !.status = IF n > MaxRetries THEN "DEAD_LETTER" ELSE "FAILED",
              !.retryCount = n]

RecordFailure(r) ==
  LET i == worker[r].item IN
  /\ worker[r].pc = "fail"
  /\ items' = [items EXCEPT ![i] = AfterFailure(@, worker[r].fresh.retryCount + 1)]
  /\ Done(r)
  /\ UNCHANGED <<txs, nextNonce, poller, cancelling, recorded, abandoned, trouble>>

-----------------------------------------------------------------------------
\* pollSubmittedTransactions and pollSingleItem, on the rows as first read.

Polling == {i \in Items : /\ items[i].status \in {"SUBMITTED", "STUCK"}
                          /\ items[i].txHash # None}

StartPoll(r) ==
  /\ DOMAIN poller[r] = {}
  /\ Polling # {}
  /\ poller' = [poller EXCEPT ![r] = [i \in Polling |-> items[i]]]
  /\ UNCHANGED <<txs, items, nextNonce, worker, cancelling, recorded,
                 abandoned, trouble>>

\* The poller of r is on item i, for the last time in this tick.
LooksAt(r, i) ==
  /\ i \in DOMAIN poller[r]
  /\ poller' = [poller EXCEPT ![r] = [j \in DOMAIN @ \ {i} |-> @[j]]]

\* The hash a confirmation is recorded with.
ConfirmedHash_Bug(r, i) == items[i].txHash
ConfirmedHash(r, i) == poller[r][i].txHash

PollItem(r, i) ==
  LET row == poller[r][i] IN
  /\ LooksAt(r, i)
  /\ Polled(r, row.txHash)
  /\ CASE Status(r, row.txHash) = "CONFIRMED" ->
            items' = [items EXCEPT ![i].status = "CONFIRMED",
                                   ![i].result = ConfirmedHash(r, i)]
       [] Status(r, row.txHash) = "FAILED" ->
            items' = [items EXCEPT ![i] =
                        [AfterFailure(@, row.retryCount + 1) EXCEPT !.result = None]]
       [] OTHER -> UNCHANGED items
  /\ UNCHANGED <<nextNonce, worker, cancelling, recorded, abandoned, trouble>>

\* Still pending, and submitted too long ago: the fee is bumped.
BumpFee(r, i) ==
  LET row == poller[r][i] IN
  /\ LooksAt(r, i)
  /\ Status(r, row.txHash) = "PENDING"
  /\ PolledAndBumped(r, row.txHash)
  /\ items' = [items EXCEPT ![i].status = "STUCK"]
  /\ Trouble
  /\ UNCHANGED <<nextNonce, worker, cancelling, recorded, abandoned>>

\* The gateway's circuit is open or the database fails: to be polled again.
PollError(r, i) ==
  /\ DbErrors
  /\ LooksAt(r, i)
  /\ \/ UNCHANGED txs
     \/ Polled(r, poller[r][i].txHash)
     \/ /\ Status(r, poller[r][i].txHash) = "PENDING"
        /\ PolledAndBumped(r, poller[r][i].txHash)
  /\ Trouble
  /\ UNCHANGED <<items, nextNonce, worker, cancelling, recorded, abandoned>>

-----------------------------------------------------------------------------
\* A replica restarts: its ticks are cut off and its table of transactions is
\* lost; the rows stay as they are.
Crash(r) ==
  /\ Crashes
  /\ Lost(r)
  /\ worker' = [worker EXCEPT ![r] = NoTick]
  /\ poller' = [poller EXCEPT ![r] = <<>>]
  /\ abandoned' = abandoned \cup {i \in Items : OnItem(r, i)}
  /\ Trouble
  /\ UNCHANGED <<items, nextNonce, cancelling, recorded>>

WorkerStep(r) ==
  \/ \E i \in Items : ReadFresh(r, i)
  \/ MarkProcessing(r)
  \/ AllocateNonce(r)
  \/ CreateNonceState(r)
  \/ LoseCreateRace(r)
  \/ SubmitAccepted(r)
  \/ RecordSubmission(r)
  \/ AdvanceNonceState(r)
  \/ RecoverRead(r)
  \/ RecoverWrite(r)
  \/ RecordFailure(r)

PollStep(r) == StartPoll(r) \/ \E i \in Items : PollItem(r, i)

World ==
  \/ \E i \in Items : RetryNow(i) \/ CancelRead(i) \/ CancelWrite(i)
  \/ \E i \in Items, n \in ClientNonces : Enqueue(i, n)
  \/ \E s \in Signers : GetSignerNonceState(s)
  \/ \E r \in Replicas :
       \/ DbErrorOutsideTry(r) \/ Crash(r)
       \/ \E e \in DbErrorClass : DbErrorAfterSubmit(r, e)
       \/ \E e \in Errors : SubmitRejected(r, e)
       \/ \E i \in Items : BumpFee(r, i) \/ PollError(r, i)

Next ==
  \/ World
  \/ \E r \in Replicas :
       \/ WorkerStep(r)
       \/ PollStep(r)
       \/ \E batch \in SUBSET Candidates : StartTick(r, batch)

Spec == Init /\ [][Next]_vars

-----------------------------------------------------------------------------
\* Every variable has its type; a transaction spoken of exists.
TypeInvariant ==
  /\ txs \in Seq(Transaction)
  /\ items \in [Items -> QueueItem]
  /\ nextNonce \in [Signers -> NoneOr(Nat)]
  /\ worker \in [Replicas -> Tick]
  /\ \A r \in Replicas : /\ DOMAIN poller[r] \subseteq Items
                         /\ \A i \in DOMAIN poller[r] : poller[r][i] \in QueueItem
  /\ cancelling \subseteq Items
  /\ recorded \subseteq Submitted
  /\ abandoned \subseteq Items
  /\ trouble \in 0..MaxTrouble

\* A row's hash is that of a transaction submitted for this very item with the
\* nonce in the row, whichever replicas' ticks wrote the row in whatever order:
\* a resubmission with the row's nonce replaces that transaction.
HashNonce ==
  \A i \in Items : items[i].txHash # None =>
    /\ items[i].txHash \in Submitted
    /\ txs[items[i].txHash].item = i
    /\ txs[items[i].txHash].nonce = items[i].nonce

\* A row says CONFIRMED only if the transaction named in its result was
\* submitted for this item and has confirmed, although the poller writes what it
\* learnt about a row read earlier and the row may have another hash by then.
ConfirmedIsTrue ==
  \A i \in Items : items[i].status = "CONFIRMED" =>
    /\ items[i].result \in Submitted
    /\ txs[items[i].result].item = i
    /\ Confirmed(items[i].result)

\* A row stays PROCESSING, which no tick selects, only while a worker is on it
\* or after one was cut off: by a crash, by a database error outside the try, or
\* by losing the race to create the signer's nonce row, in allocateNonce or in
\* recoverNonceState. Every other path through the worker, its errors included,
\* takes the item out of PROCESSING before it goes on.
ProcessingHasWorker ==
  \A i \in Items : items[i].status = "PROCESSING" =>
    \/ i \in abandoned
    \/ \E r \in Replicas : OnItem(r, i) /\ worker[r].pc # "advance"

\* A cancelled item is taken up again only by retryNow, or by a tick that had
\* read its row before the cancellation came: no tick that begins later works on
\* it, and none that had it in its batch and only reads the row now.
CancelledStays ==
  [][\A i \in Items :
       items[i].status = "CANCELLED" /\ items'[i].status # "CANCELLED" =>
         \/ items'[i].status = "QUEUED"
         \/ \E r \in Replicas :
              \/ worker[r].item = i /\ worker[r].fresh.status \in Retriable
              \/ i \in DOMAIN poller[r]
                 /\ poller[r][i].status \in {"SUBMITTED", "STUCK"}]_vars

\* With one replica: the transactions ever recorded for an item have one nonce,
\* through retries, fee bumps, restarts and errors, so that the network executes
\* at most one of them.
RecordedShareNonce ==
  \A t, u \in recorded : txs[t].item = txs[u].item => txs[t].nonce = txs[u].nonce

\* The item was never submitted twice, retried after a failure or cut off.
Untroubled(i) ==
  /\ items[i].retryCount = 0
  /\ i \notin abandoned
  /\ Cardinality({t \in Submitted : txs[t].item = i}) <= 1

\* With one replica: as long as all items of a signer are untroubled, no two of
\* them have the same nonce. (A resubmission may break this: it sets nextNonce
\* back to just after the nonce it reuses.)
FreshNoncesDistinct ==
  \A s \in Signers :
    (\A i \in Items : SignerOf[i] = s => Untroubled(i)) =>
      \A t, u \in Submitted :
        /\ SignerOf[txs[t].item] = s
        /\ SignerOf[txs[u].item] = s
        /\ txs[t].nonce = txs[u].nonce
        => t = u

-----------------------------------------------------------------------------
\* The scheduler runs both ticks again and again and the event loop goes on with
\* a tick it started. An item that is due again and again (its back-off ends) is
\* selected in the end, as long as no more rows are due than a tick takes (75).
Fairness ==
  /\ \A r \in Replicas : WF_vars(WorkerStep(r)) /\ WF_vars(PollStep(r))
  /\ \A i \in Items : SF_vars(\E r \in Replicas, batch \in SUBSET Candidates :
                                i \in batch /\ StartTick(r, batch))

FairSpec == Spec /\ Fairness

\* What an item may end as: done, given up or taken back; FAILED (or put back to
\* QUEUED by retryNow, to no effect) with its retries used up; or left in
\* PROCESSING by a worker that was cut off.
Settled(i) ==
  \/ items[i].status \in {"CONFIRMED", "CANCELLED", "DEAD_LETTER"}
  \/ /\ items[i].status \in {"FAILED", "QUEUED"}
     /\ items[i].retryCount >= MaxRetries
  \/ items[i].status = "PROCESSING" /\ i \in abandoned

\* Every item that is enqueued comes to such an end, and stays there once the
\* world leaves the queue alone: nothing is forgotten between the two ticks.
Settles == \A i \in Items : items[i].status = "QUEUED" ~> []Settled(i)
=============================================================================
