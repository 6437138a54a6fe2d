----------------------- MODULE TransactionQueueProofs -----------------------
(***************************************************************************)
(* Proofs about TransactionQueue, for any number of items, signers and     *)
(* replicas, any classes of errors and any amount of trouble.              *)
(*                                                                         *)
(* The table of transactions only grows, and what a transaction was        *)
(* submitted for never changes (TableGrows). So what a row, a worker or a  *)
(* poller's old copy of a row says about a transaction stays true          *)
(* (HashNonce, WorkersFit, PollersFit), which is the inductive invariant.  *)
(***************************************************************************)
EXTENDS TransactionQueue, TLAPS, SequenceTheorems, FiniteSetTheorems

\* What the worker of r holds fits the place it is at.
Fits(r) ==
  /\ worker[r].pc \notin {"idle", "pick"} => worker[r].item \in Items
  /\ worker[r].pc \in {"submit", "record", "advance", "recover", "rewind", "fail"}
       => worker[r].nonce \in Nat
  /\ worker[r].pc \in {"record", "advance"} =>
       /\ worker[r].tx \in Submitted
       /\ txs[worker[r].tx].item = worker[r].item
       /\ txs[worker[r].tx].nonce = worker[r].nonce

\* The rows the poller of r read have the hash of a transaction of their item.
PollFits(r) ==
  /\ DOMAIN poller[r] \subseteq Items
  /\ \A i \in DOMAIN poller[r] :
       /\ poller[r][i] \in QueueItem
       /\ poller[r][i].txHash \in Submitted
       /\ txs[poller[r][i].txHash].item = i

TxsType == txs \in Seq(Transaction)
ItemsType == items \in [Items -> QueueItem]
WorkerType == worker \in [Replicas -> Tick]
NonceType == nextNonce \in [Signers -> NoneOr(Nat)]
RestType ==
  /\ cancelling \subseteq Items
  /\ recorded \subseteq Submitted
  /\ abandoned \subseteq Items
  /\ trouble \in 0..MaxTrouble
WorkersFit == \A r \in Replicas : Fits(r)
PollersFit == DOMAIN poller = Replicas /\ \A r \in Replicas : PollFits(r)

\* The hash and the result of row i.
HashFits(i) ==
  items[i].txHash # None =>
    /\ items[i].txHash \in Submitted
    /\ txs[items[i].txHash].item = i
    /\ txs[items[i].txHash].nonce = items[i].nonce

ResultFits(i) ==
  items[i].status = "CONFIRMED" =>
    /\ items[i].result \in Submitted
    /\ txs[items[i].result].item = i
    /\ Confirmed(items[i].result)

\* A row that was never enqueued has no hash.
NeverSubmitted == \A i \in Items : items[i].status = "ABSENT" => items[i].txHash = None

IInv == /\ TxsType /\ ItemsType /\ WorkerType /\ NonceType /\ RestType
        /\ WorkersFit /\ PollersFit /\ HashNonce /\ NeverSubmitted

\* No transaction is lost or becomes another one, and confirmations are final.
Grows ==
  /\ Len(txs) <= Len(txs')
  /\ \A t \in Submitted :
       /\ txs'[t].item = txs[t].item
       /\ txs'[t].nonce = txs[t].nonce
       /\ Confirmed(t) => Confirmed(t)'

TableGrows == TxsType' /\ Grows

-----------------------------------------------------------------------------
(* The table of transactions. *)

\* A function from 1..n is a sequence.
LEMMA FunctionIsSeq ==
  ASSUME NEW S, NEW n \in Nat, NEW f \in [1..n -> S]
  PROVE  f \in Seq(S) /\ Len(f) = n
  OBVIOUS

\* A step that leaves the table alone.
LEMMA SameTable ==
  ASSUME TxsType, UNCHANGED txs
  PROVE  TableGrows
  <1>1. Len(txs) \in Nat
    BY LenProperties DEF TxsType
  <1> QED BY <1>1 DEF TxsType, TableGrows, Grows, Submitted, Confirmed

\* A step that replaces one transaction by another with the same item and nonce.
LEMMA OneChanged ==
  ASSUME TxsType, NEW t \in Submitted, NEW u \in Transaction,
         txs' = [txs EXCEPT ![t] = u],
         u.item = txs[t].item, u.nonce = txs[t].nonce,
         Confirmed(t) => u.polls = PollsToConfirm
  PROVE  TableGrows
  <1>1. Len(txs) \in Nat /\ DOMAIN txs = 1..Len(txs)
    BY LenProperties DEF TxsType
  <1>2. /\ txs' \in Seq(Transaction)
        /\ Len(txs') = Len(txs)
        /\ \A s \in 1..Len(txs) : txs'[s] = IF s = t THEN u ELSE txs[s]
    BY ExceptSeq DEF TxsType, Submitted
  <1> QED BY <1>1, <1>2 DEF TxsType, TableGrows, Grows, Submitted, Confirmed

\* Submitting a transaction.
LEMMA AcceptedGrows ==
  ASSUME TxsType, NEW r \in Replicas, NEW i \in Items, NEW n \in Nat,
         Accepted(r, i, n)
  PROVE  /\ TableGrows
         /\ Len(txs) + 1 \in Submitted'
         /\ txs'[Len(txs) + 1].item = i
         /\ txs'[Len(txs) + 1].nonce = n
  <1> DEFINE new == [item |-> i, nonce |-> n, home |-> r, polls |-> 0]
  <1>1. new \in Transaction
    BY GatewayAssumption DEF Transaction
  <1>2. Len(txs) \in Nat /\ DOMAIN txs = 1..Len(txs)
    BY LenProperties DEF TxsType
  <1>3. txs' = Append(txs, new)
    BY DEF Accepted
  <1>4. /\ txs' \in Seq(Transaction)
        /\ Len(txs') = Len(txs) + 1
        /\ txs'[Len(txs) + 1] = new
        /\ \A s \in 1..Len(txs) : txs'[s] = txs[s]
    <2> HIDE DEF new
    <2> QED BY <1>1, <1>2, <1>3 DEF TxsType
  <1> QED BY <1>2, <1>4 DEF TxsType, TableGrows, Grows, Submitted, Confirmed

\* Asking for the status of a transaction.
LEMMA PolledGrows ==
  ASSUME TxsType, NEW r, NEW t \in Submitted, Polled(r, t)
  PROVE  TableGrows
  <1>1. CASE txs[t].home = r /\ ~Confirmed(t)
    <2>1. txs[t] \in Transaction
      BY ElementOfSeq DEF TxsType, Submitted
    <2>2. PICK x : x = txs[t]
      OBVIOUS
    <2>3. PICK u : u = [x EXCEPT !.polls = @ + 1]
      OBVIOUS
    <2>4. u \in Transaction /\ u.item = x.item /\ u.nonce = x.nonce
      BY <1>1, <2>1, <2>2, <2>3, GatewayAssumption DEF Transaction, Confirmed
    <2>5. txs' = [txs EXCEPT ![t] = u]
      BY <1>1, <2>2, <2>3 DEF Polled
    <2> QED BY <1>1, <2>2, <2>4, <2>5, OneChanged
  <1>2. CASE ~(txs[t].home = r /\ ~Confirmed(t))
    BY <1>2, SameTable DEF Polled
  <1> QED BY <1>1, <1>2

\* Asking for it and bumping the fee, of one that is still pending.
LEMMA BumpedGrows ==
  ASSUME TxsType, NEW r, NEW t \in Submitted,
         Status(r, t) = "PENDING", PolledAndBumped(r, t)
  PROVE  TableGrows
  <1>1. txs[t] \in Transaction
    BY ElementOfSeq DEF TxsType, Submitted
  <1>2. PICK x : x = txs[t]
    OBVIOUS
  <1>3. PICK u : u = [x EXCEPT !.polls = PollsToConfirm - 1]
    OBVIOUS
  <1>4. u \in Transaction /\ u.item = x.item /\ u.nonce = x.nonce
    BY <1>1, <1>2, <1>3, GatewayAssumption DEF Transaction
  <1>5. txs' = [txs EXCEPT ![t] = u]
    BY <1>2, <1>3 DEF PolledAndBumped
  <1>6. ~Confirmed(t)
    BY <1>1, GatewayAssumption DEF Status, Confirmed, Transaction
  <1> QED BY <1>2, <1>4, <1>5, <1>6, OneChanged

\* The restart of a replica.
LEMMA LostGrows ==
  ASSUME TxsType, NEW r \in Replicas, Lost(r)
  PROVE  TableGrows
  <1>1. Len(txs) \in Nat /\ txs \in [1..Len(txs) -> Transaction]
    BY LenProperties DEF TxsType
  <1>2. PICK n \in Nat : n = Len(txs)
    BY <1>1
  <1>3. \A t \in 1..n :
          /\ txs'[t] \in Transaction
          /\ txs'[t].item = txs[t].item
          /\ txs'[t].nonce = txs[t].nonce
          /\ txs'[t].polls = txs[t].polls
    <2> SUFFICES ASSUME NEW t \in 1..n
                 PROVE  /\ txs'[t] \in Transaction
                        /\ txs'[t].item = txs[t].item
                        /\ txs'[t].nonce = txs[t].nonce
                        /\ txs'[t].polls = txs[t].polls
      OBVIOUS
    <2>1. txs[t] \in Transaction
      BY <1>1, <1>2
    <2>2. txs'[t] = IF txs[t].home = r THEN [txs[t] EXCEPT !.home = None] ELSE txs[t]
      BY <1>2 DEF Lost, Submitted
    <2> QED BY <2>1, <2>2 DEF Transaction
  <1>4. txs' \in [1..n -> Transaction]
    BY <1>2, <1>3 DEF Lost, Submitted
  <1>5. txs' \in Seq(Transaction) /\ Len(txs') = n
    BY <1>4, FunctionIsSeq
  <1> QED BY <1>2, <1>3, <1>5 DEF TxsType, TableGrows, Grows, Submitted, Confirmed

-----------------------------------------------------------------------------
(* What the steps keep of the workers, the pollers and the rows. *)

\* What the table's growth keeps.
LEMMA WorkerKept ==
  ASSUME NEW r, Fits(r), Grows, TxsType, TxsType', UNCHANGED worker[r]
  PROVE  Fits(r)'
  <1>1. Len(txs) \in Nat /\ Len(txs)' \in Nat
    BY LenProperties DEF TxsType
  <1> QED BY <1>1 DEF Fits, Grows, Submitted

LEMMA PollKept ==
  ASSUME NEW r, PollFits(r), Grows, TxsType, TxsType', UNCHANGED poller[r]
  PROVE  PollFits(r)'
  <1>1. Len(txs) \in Nat /\ Len(txs)' \in Nat
    BY LenProperties DEF TxsType
  <1> QED BY <1>1 DEF PollFits, Grows, Submitted

LEMMA RowKept ==
  ASSUME NEW i, HashFits(i), Grows, TxsType, TxsType',
         items'[i].txHash = items[i].txHash, items'[i].nonce = items[i].nonce
  PROVE  HashFits(i)'
  <1>1. Len(txs) \in Nat /\ Len(txs)' \in Nat
    BY LenProperties DEF TxsType
  <1> QED BY <1>1 DEF HashFits, Grows, Submitted

LEMMA ResultKept ==
  ASSUME NEW i, ResultFits(i), Grows, TxsType, TxsType',
         items'[i].status = "CONFIRMED" =>
           /\ items[i].status = "CONFIRMED"
           /\ items'[i].result = items[i].result
  PROVE  ResultFits(i)'
  <1>1. Len(txs) \in Nat /\ Len(txs)' \in Nat
    BY LenProperties DEF TxsType
  <1> QED BY <1>1 DEF ResultFits, Grows, Submitted

LEMMA RecordedKept ==
  ASSUME recorded \subseteq Submitted, Grows, TxsType, TxsType'
  PROVE  recorded \subseteq Submitted'
  <1>1. Len(txs) \in Nat /\ Len(txs)' \in Nat
    BY LenProperties DEF TxsType
  <1> QED BY <1>1 DEF Grows, Submitted

\* A step of the worker of r.
LEMMA OneWorker ==
  ASSUME WorkerType, WorkersFit, Grows, TxsType, TxsType', NEW r \in Replicas,
         NEW w \in Tick, worker' = [worker EXCEPT ![r] = w], Fits(r)'
  PROVE  WorkerType' /\ WorkersFit' /\ worker'[r] = w
  <1>1. WorkerType' /\ worker'[r] = w
    BY DEF WorkerType
  <1>2. \A q \in Replicas : q # r => UNCHANGED worker[q]
    BY DEF WorkerType
  <1>3. \A q \in Replicas : q # r => Fits(q)'
    BY <1>2, WorkerKept DEF WorkersFit
  <1> QED BY <1>1, <1>3 DEF WorkersFit

\* A worker that is done with its item and perhaps with its tick.
LEMMA AtRestFits ==
  ASSUME NEW r \in Replicas, worker'[r].pc \in {"idle", "pick"}
  PROVE  Fits(r)'
  BY DEF Fits

LEMMA GoOnWithKeeps ==
  ASSUME WorkerType, WorkersFit, Grows, TxsType, TxsType', NEW r \in Replicas,
         NEW batch \in SUBSET Items, GoOnWith(r, batch)
  PROVE  WorkerType' /\ WorkersFit' /\ worker'[r].pc \in {"idle", "pick"}
  <1> DEFINE w == IF batch = {} THEN NoTick
                  ELSE [NoTick EXCEPT !.pc = "pick", !.batch = batch]
  <1>1. w \in Tick /\ w.pc \in {"idle", "pick"}
    BY DEF NoTick, Tick, NoneOr, Absent, QueueItem, QueueStatus
  <1>2. worker' = [worker EXCEPT ![r] = w]
    BY DEF GoOnWith
  <1>3. worker'[r] = w
    BY <1>2 DEF WorkerType
  <1>4. Fits(r)'
    BY <1>1, <1>3, AtRestFits
  <1> HIDE DEF w
  <1> QED BY <1>1, <1>2, <1>3, <1>4, OneWorker

LEMMA CutOffKeeps ==
  ASSUME WorkerType, WorkersFit, Grows, TxsType, TxsType', NEW r \in Replicas,
         CutOff(r)
  PROVE  /\ WorkerType' /\ WorkersFit'
         /\ abandoned \subseteq Items => abandoned' \subseteq Items
  <1>1. worker[r].batch \in SUBSET Items
    BY DEF WorkerType, Tick
  <1> QED BY <1>1, GoOnWithKeeps DEF CutOff, Done

\* A step to pc by the worker of r, with the fields of w.
LEMMA GoStep ==
  ASSUME WorkerType, WorkersFit, Grows, TxsType, TxsType', NEW r \in Replicas,
         NEW w \in Tick,
         NEW pc \in {"pick", "mark", "allocate", "create", "submit", "record",
                     "advance", "recover", "rewind", "fail"},
         Go(r, pc, w),
         w.item \in Items,
         pc \in {"submit", "record", "advance", "recover", "rewind", "fail"}
           => w.nonce \in Nat,
         pc \in {"record", "advance"} => /\ w.tx \in Submitted'
                                         /\ txs'[w.tx].item = w.item
                                         /\ txs'[w.tx].nonce = w.nonce
  PROVE  WorkerType' /\ WorkersFit' /\ worker'[r] = [w EXCEPT !.pc = pc]
  <1>1. PICK v : v = [w EXCEPT !.pc = pc]
    OBVIOUS
  <1>2. /\ v \in Tick /\ v.pc = pc
        /\ v.item = w.item /\ v.nonce = w.nonce /\ v.tx = w.tx
    BY <1>1 DEF Tick
  <1>3. worker' = [worker EXCEPT ![r] = v]
    BY <1>1 DEF Go
  <1>4. worker'[r] = v
    BY <1>3 DEF WorkerType
  <1>5. Fits(r)'
    BY <1>2, <1>4 DEF Fits
  <1> QED BY <1>1, <1>2, <1>3, <1>4, <1>5, OneWorker

\* A step that changes the fields of no row but those that do not matter here.
LEMMA RowsKept ==
  ASSUME HashNonce, NeverSubmitted, Grows, TxsType, TxsType',
         \A i \in Items : /\ items'[i].txHash = items[i].txHash
                          /\ items'[i].nonce = items[i].nonce
                          /\ items'[i].status = "ABSENT" => items[i].status = "ABSENT"
  PROVE  HashNonce' /\ NeverSubmitted'
  <1>1. \A i \in Items : HashFits(i)
    BY DEF HashNonce, HashFits
  <1>2. \A i \in Items : HashFits(i)'
    BY <1>1, RowKept
  <1> QED BY <1>2 DEF HashNonce, HashFits, NeverSubmitted

\* What a step keeps that leaves the workers, the pollers or the rows alone.
LEMMA WorkersKept ==
  ASSUME WorkerType, WorkersFit, Grows, TxsType, TxsType', UNCHANGED worker
  PROVE  WorkerType' /\ WorkersFit'
  BY WorkerKept DEF WorkerType, WorkersFit

LEMMA PollersKept ==
  ASSUME PollersFit, Grows, TxsType, TxsType', UNCHANGED poller
  PROVE  PollersFit'
  BY PollKept DEF PollersFit

\* A step of a worker that touches neither table nor row.
LEMMA WorkerOnly ==
  ASSUME IInv, UNCHANGED <<txs, items, poller, recorded>>,
         WorkerType', WorkersFit', NonceType',
         abandoned' \subseteq Items, cancelling' \subseteq Items,
         trouble' \in 0..MaxTrouble
  PROVE  IInv'
  <1>1. TxsType' /\ Grows
    BY SameTable DEF IInv, TableGrows
  <1>2. PollersFit'
    BY <1>1, PollersKept DEF IInv
  <1>3. HashNonce' /\ NeverSubmitted'
    BY <1>1, RowsKept DEF IInv
  <1>4. RestType'
    BY DEF IInv, RestType, Submitted
  <1> QED BY <1>1, <1>2, <1>3, <1>4 DEF IInv, ItemsType

\* A step on the rows that changes neither hash nor nonce.
LEMMA RowOnly ==
  ASSUME IInv, TxsType', Grows, UNCHANGED <<nextNonce, recorded, abandoned>>,
         WorkerType', WorkersFit', PollersFit', ItemsType',
         cancelling' \subseteq Items, trouble' \in 0..MaxTrouble,
         \A i \in Items : /\ items'[i].txHash = items[i].txHash
                          /\ items'[i].nonce = items[i].nonce
                          /\ items'[i].status = "ABSENT" => items[i].status = "ABSENT"
  PROVE  IInv'
  <1>1. HashNonce' /\ NeverSubmitted'
    BY RowsKept DEF IInv
  <1>2. recorded' \subseteq Submitted'
    BY RecordedKept DEF IInv, RestType
  <1>3. RestType'
    BY <1>2 DEF IInv, RestType
  <1> QED BY <1>1, <1>3 DEF IInv, NonceType

LEMMA TroubleType ==
  ASSUME IInv, Trouble \/ UNCHANGED trouble
  PROVE  trouble' \in 0..MaxTrouble
  BY QueueAssumption DEF IInv, RestType, Trouble

-----------------------------------------------------------------------------
(* The worker's steps that only change the worker. *)

LEMMA StartTickKeeps ==
  ASSUME IInv, NEW r \in Replicas, NEW batch \in SUBSET Candidates,
         StartTick(r, batch)
  PROVE  IInv'
  <1>1. PICK x : x = worker[r]
    OBVIOUS
  <1>2. x \in Tick
    BY <1>1 DEF IInv, WorkerType
  <1>3. PICK w : w = [x EXCEPT !.pc = "pick", !.batch = batch]
    OBVIOUS
  <1>4. w \in Tick /\ w.pc = "pick"
    BY <1>2, <1>3 DEF Tick, Candidates
  <1>5. worker' = [worker EXCEPT ![r] = w]
    BY <1>1, <1>3 DEF StartTick
  <1>6. worker'[r] = w
    BY <1>5 DEF IInv, WorkerType
  <1>7. Fits(r)'
    BY <1>4, <1>6, AtRestFits
  <1>8. TxsType' /\ Grows
    BY SameTable DEF IInv, TableGrows, StartTick
  <1>9. WorkerType' /\ WorkersFit'
    BY <1>4, <1>5, <1>7, <1>8, OneWorker DEF IInv
  <1> QED BY <1>9, WorkerOnly DEF StartTick, IInv, NonceType, RestType

LEMMA ReadFreshKeeps ==
  ASSUME IInv, NEW r \in Replicas, NEW i \in Items, ReadFresh(r, i)
  PROVE  IInv'
  <1>1. TxsType' /\ Grows
    BY SameTable DEF IInv, TableGrows, ReadFresh
  <1>2. PICK x : x = worker[r]
    OBVIOUS
  <1>3. x \in Tick
    BY <1>2 DEF IInv, WorkerType
  <1>4. WorkerType' /\ WorkersFit'
    <2>1. CASE items[i].status \in Retriable
      <3>1. PICK w : w = [x EXCEPT !.batch = x.batch \ {i}, !.item = i, !.fresh = items[i]]
        OBVIOUS
      <3>2. w \in Tick /\ w.item = i
        BY <1>3, <3>1 DEF Tick, NoneOr, IInv, ItemsType
      <3>3. Go(r, "mark", w)
        BY <1>2, <2>1, <3>1 DEF ReadFresh, Go
      <3> QED BY <1>1, <3>2, <3>3, GoStep DEF IInv
    <2>2. CASE items[i].status \notin Retriable
      <3>1. GoOnWith(r, x.batch \ {i})
        BY <1>2, <2>2 DEF ReadFresh
      <3>2. x.batch \ {i} \in SUBSET Items
        BY <1>3 DEF Tick
      <3> QED BY <1>1, <3>1, <3>2, GoOnWithKeeps DEF IInv
    <2> QED BY <2>1, <2>2
  <1> QED BY <1>4, WorkerOnly DEF ReadFresh, IInv, NonceType, RestType

\* A step on the item the worker of r is on, which keeps its fields or some.
LEMMA AllocateNonceKeeps ==
  ASSUME IInv, NEW r \in Replicas, AllocateNonce(r)
  PROVE  IInv'
  <1>1. TxsType' /\ Grows
    BY SameTable DEF IInv, TableGrows, AllocateNonce
  <1>2. PICK x : x = worker[r]
    OBVIOUS
  <1>3. x \in Tick /\ x.item \in Items
    BY <1>2 DEF IInv, WorkerType, WorkersFit, Fits, AllocateNonce
  <1>4. PICK n : n = Allocation(x.fresh, x.item)
    OBVIOUS
  <1>5. n = None \/ n \in Nat
    BY <1>3, <1>4, QueueAssumption
       DEF Allocation, Tick, QueueItem, NoneOr, IInv, NonceType
  <1>6. CASE n = None
    <2>1. Go(r, "create", x)
      BY <1>2, <1>4, <1>6 DEF AllocateNonce, Go
    <2>2. WorkerType' /\ WorkersFit'
      BY <1>1, <1>3, <2>1, GoStep DEF IInv
    <2> QED BY <2>2, WorkerOnly DEF AllocateNonce, IInv, NonceType, RestType
  <1>7. CASE n # None
    <2>1. PICK w : w = [x EXCEPT !.nonce = n]
      OBVIOUS
    <2>2. w \in Tick /\ w.item = x.item /\ w.nonce \in Nat
      BY <1>3, <1>5, <1>7, <2>1 DEF Tick, NoneOr
    <2>3. Go(r, "submit", w)
      BY <1>2, <1>4, <1>7, <2>1 DEF AllocateNonce, Go
    <2>4. WorkerType' /\ WorkersFit'
      BY <1>1, <1>3, <2>2, <2>3, GoStep DEF IInv
    <2> QED BY <2>4, WorkerOnly DEF AllocateNonce, IInv, NonceType, RestType
  <1> QED BY <1>6, <1>7

LEMMA SubmitRejectedKeeps ==
  ASSUME IInv, NEW r \in Replicas, NEW e \in Errors, SubmitRejected(r, e)
  PROVE  IInv'
  <1>1. TxsType' /\ Grows
    BY SameTable DEF IInv, TableGrows, SubmitRejected
  <1>2. PICK x : x = worker[r]
    OBVIOUS
  <1>3. x \in Tick /\ x.item \in Items /\ x.nonce \in Nat
    BY <1>2 DEF IInv, WorkerType, WorkersFit, Fits, SubmitRejected
  <1>4. PICK w : w = [x EXCEPT !.error = e]
    OBVIOUS
  <1>5. w \in Tick /\ w.item = x.item /\ w.nonce = x.nonce
    BY <1>3, <1>4, QueueAssumption DEF Tick, NoneOr
  <1>6. PICK pc : pc = IF e = "NONE" THEN "fail" ELSE "recover"
    OBVIOUS
  <1>7. Go(r, pc, w)
    BY <1>2, <1>4, <1>6 DEF SubmitRejected, ToFailure, Go
  <1>8. WorkerType' /\ WorkersFit'
    BY <1>1, <1>3, <1>5, <1>6, <1>7, GoStep DEF IInv
  <1>9. trouble' \in 0..MaxTrouble
    BY TroubleType DEF SubmitRejected
  <1> QED BY <1>8, <1>9, WorkerOnly DEF SubmitRejected, IInv, NonceType, RestType

LEMMA DbErrorAfterSubmitKeeps ==
  ASSUME IInv, NEW r \in Replicas, NEW e \in DbErrorClass, DbErrorAfterSubmit(r, e)
  PROVE  IInv'
  <1>1. TxsType' /\ Grows
    BY SameTable DEF IInv, TableGrows, DbErrorAfterSubmit
  <1>2. PICK x : x = worker[r]
    OBVIOUS
  <1>3. x \in Tick /\ x.item \in Items /\ x.nonce \in Nat
    BY <1>2 DEF IInv, WorkerType, WorkersFit, Fits, DbErrorAfterSubmit
  <1>4. PICK w : w = [x EXCEPT !.error = e]
    OBVIOUS
  <1>5. w \in Tick /\ w.item = x.item /\ w.nonce = x.nonce
    BY <1>3, <1>4 DEF Tick, NoneOr, ErrorClass, DbErrorClass
  <1>6. Go(r, "fail", w) \/ Go(r, "recover", w)
    BY <1>2, <1>4 DEF DbErrorAfterSubmit, ToFailure, Go
  <1>7. WorkerType' /\ WorkersFit'
    BY <1>1, <1>3, <1>5, <1>6, GoStep DEF IInv
  <1>8. trouble' \in 0..MaxTrouble
    BY TroubleType DEF DbErrorAfterSubmit
  <1> QED BY <1>7, <1>8, WorkerOnly DEF DbErrorAfterSubmit, IInv, NonceType, RestType

LEMMA RecoverReadKeeps ==
  ASSUME IInv, NEW r \in Replicas, RecoverRead(r)
  PROVE  IInv'
  <1>1. TxsType' /\ Grows
    BY SameTable DEF IInv, TableGrows, RecoverRead
  <1>2. PICK x : x = worker[r]
    OBVIOUS
  <1>3. x \in Tick /\ x.item \in Items /\ x.nonce \in Nat
    BY <1>2 DEF IInv, WorkerType, WorkersFit, Fits, RecoverRead
  <1>4. PICK n : n = nextNonce[SignerOf[x.item]]
    OBVIOUS
  <1>5. n \in NoneOr(Nat)
    BY <1>3, <1>4, QueueAssumption DEF IInv, NonceType
  <1>6. PICK w : w = [x EXCEPT !.seen = n]
    OBVIOUS
  <1>7. w \in Tick /\ w.item = x.item /\ w.nonce = x.nonce
    BY <1>3, <1>5, <1>6 DEF Tick
  <1>8. Go(r, "rewind", w)
    BY <1>2, <1>4, <1>6 DEF RecoverRead, Go
  <1>9. WorkerType' /\ WorkersFit'
    BY <1>1, <1>3, <1>7, <1>8, GoStep DEF IInv
  <1> QED BY <1>9, WorkerOnly DEF RecoverRead, IInv, NonceType, RestType

LEMMA LoseCreateRaceKeeps ==
  ASSUME IInv, NEW r \in Replicas, LoseCreateRace(r)
  PROVE  IInv'
  <1>1. TxsType' /\ Grows
    BY SameTable DEF IInv, TableGrows, LoseCreateRace, CutOff
  <1>2. WorkerType' /\ WorkersFit' /\ abandoned' \subseteq Items
    BY <1>1, CutOffKeeps DEF LoseCreateRace, IInv, RestType
  <1> QED BY <1>2, WorkerOnly DEF LoseCreateRace, CutOff, IInv, NonceType, RestType

LEMMA DbErrorOutsideTryKeeps ==
  ASSUME IInv, NEW r \in Replicas, DbErrorOutsideTry(r)
  PROVE  IInv'
  <1>1. TxsType' /\ Grows
    BY SameTable DEF IInv, TableGrows, DbErrorOutsideTry, CutOff
  <1>2. WorkerType' /\ WorkersFit' /\ abandoned' \subseteq Items
    BY <1>1, CutOffKeeps DEF DbErrorOutsideTry, IInv, RestType
  <1>3. trouble' \in 0..MaxTrouble
    BY TroubleType DEF DbErrorOutsideTry
  <1> QED BY <1>2, <1>3, WorkerOnly DEF DbErrorOutsideTry, CutOff, IInv, NonceType, RestType

-----------------------------------------------------------------------------
(* The steps on the nonce states. *)

LEMMA CreateNonceStateKeeps ==
  ASSUME IInv, NEW r \in Replicas, CreateNonceState(r)
  PROVE  IInv'
  <1>1. TxsType' /\ Grows
    BY SameTable DEF IInv, TableGrows, CreateNonceState
  <1>2. PICK x : x = worker[r]
    OBVIOUS
  <1>3. x \in Tick /\ x.item \in Items
    BY <1>2 DEF IInv, WorkerType, WorkersFit, Fits, CreateNonceState
  <1>4. PICK w : w = [x EXCEPT !.nonce = 0]
    OBVIOUS
  <1>5. w \in Tick /\ w.item = x.item /\ w.nonce \in Nat
    BY <1>3, <1>4 DEF Tick, NoneOr
  <1>6. Go(r, "submit", w)
    BY <1>2, <1>4 DEF CreateNonceState, Go
  <1>7. WorkerType' /\ WorkersFit'
    BY <1>1, <1>3, <1>5, <1>6, GoStep DEF IInv
  <1>8. NonceType'
    BY DEF CreateNonceState, IInv, NonceType, NoneOr
  <1> QED BY <1>7, <1>8, WorkerOnly DEF CreateNonceState, IInv, RestType

LEMMA AdvanceNonceStateKeeps ==
  ASSUME IInv, NEW r \in Replicas, AdvanceNonceState(r)
  PROVE  IInv'
  <1>1. TxsType' /\ Grows
    BY SameTable DEF IInv, TableGrows, AdvanceNonceState
  <1>2. worker[r].batch \in SUBSET Items /\ worker[r].nonce \in Nat
    BY DEF IInv, WorkerType, WorkersFit, Fits, AdvanceNonceState, Tick
  <1>3. WorkerType' /\ WorkersFit'
    BY <1>1, <1>2, GoOnWithKeeps DEF AdvanceNonceState, Done, IInv
  <1>4. NonceType'
    <2>1. PICK n : n = NonceAfter(worker[r].nonce)
      OBVIOUS
    <2>2. n \in NoneOr(Nat)
      BY <1>2, <2>1 DEF NonceAfter, NoneOr
    <2>3. nextNonce' = [nextNonce EXCEPT ![SignerOf[worker[r].item]] = n]
      BY <2>1 DEF AdvanceNonceState
    <2> QED BY <2>2, <2>3 DEF IInv, NonceType
  <1> QED BY <1>3, <1>4, WorkerOnly DEF AdvanceNonceState, IInv, RestType

LEMMA RecoveredIsNat ==
  ASSUME NEW seen, seen = None \/ seen \in Nat, NEW n \in Nat, NEW error
  PROVE  Recovered(seen, n, error) \in Nat
  <1>1. CASE error = "NONCE_TOO_HIGH"
    <2>1. Recovered(seen, n, error) = IF seen = None \/ seen > n THEN n ELSE seen
      BY <1>1 DEF Recovered
    <2> QED BY <2>1
  <1>2. CASE error = "NONCE_GENERIC"
    <2>1. Recovered(seen, n, error) = IF seen = None \/ seen <= n THEN n + 1 ELSE seen
      BY <1>2 DEF Recovered
    <2> QED BY <2>1
  <1>3. CASE error \notin {"NONCE_TOO_HIGH", "NONCE_GENERIC"}
    <2>1. Recovered(seen, n, error) = n + 1
      BY <1>3 DEF Recovered
    <2> QED BY <2>1
  <1> QED BY <1>1, <1>2, <1>3

LEMMA RecoverWriteKeeps ==
  ASSUME IInv, NEW r \in Replicas, RecoverWrite(r)
  PROVE  IInv'
  <1>1. TxsType' /\ Grows
    BY SameTable DEF IInv, TableGrows, RecoverWrite
  <1>2. PICK x : x = worker[r]
    OBVIOUS
  <1>3. x \in Tick /\ x.item \in Items /\ x.nonce \in Nat
    BY <1>2 DEF IInv, WorkerType, WorkersFit, Fits, RecoverWrite
  <1>4. Go(r, "fail", x)
    BY <1>2 DEF RecoverWrite, Go
  <1>5. WorkerType' /\ WorkersFit'
    BY <1>1, <1>3, <1>4, GoStep DEF IInv
  <1>6. PICK n : n = Recovered(x.seen, x.nonce, x.error)
    OBVIOUS
  <1>7. n \in Nat
    <2>1. x.seen = None \/ x.seen \in Nat
      BY <1>3 DEF Tick, NoneOr
    <2> QED BY <1>3, <1>6, <2>1, RecoveredIsNat
  <1>8. NonceType'
    BY <1>2, <1>6, <1>7 DEF RecoverWrite, IInv, NonceType, NoneOr
  <1> QED BY <1>5, <1>8, WorkerOnly DEF RecoverWrite, IInv, RestType

LEMMA GetSignerNonceStateKeeps ==
  ASSUME IInv, NEW s \in Signers, GetSignerNonceState(s)
  PROVE  IInv'
  <1>1. TxsType' /\ Grows
    BY SameTable DEF IInv, TableGrows, GetSignerNonceState
  <1>2. NonceType'
    BY DEF GetSignerNonceState, IInv, NonceType, NoneOr
  <1>3. WorkerType' /\ WorkersFit'
    BY <1>1, WorkersKept DEF GetSignerNonceState, IInv
  <1> QED BY <1>2, <1>3, WorkerOnly DEF GetSignerNonceState, IInv, RestType

-----------------------------------------------------------------------------
(* The steps on the rows. *)

\* A step on row i alone that touches neither the table nor a worker.
LEMMA RequestKeeps ==
  ASSUME IInv, NEW i \in Items, NEW row \in QueueItem,
         items' = [items EXCEPT ![i] = row],
         row.txHash = items[i].txHash, row.nonce = items[i].nonce,
         row.status # "ABSENT",
         UNCHANGED <<txs, nextNonce, worker, poller, recorded, abandoned>>,
         cancelling' \subseteq Items,
         Trouble \/ UNCHANGED trouble
  PROVE  IInv'
  <1>1. TxsType' /\ Grows
    BY SameTable DEF IInv, TableGrows
  <1>2. WorkerType' /\ WorkersFit' /\ PollersFit'
    BY <1>1, WorkersKept, PollersKept DEF IInv
  <1>3. ItemsType'
    BY DEF IInv, ItemsType
  <1>4. \A j \in Items : /\ items'[j].txHash = items[j].txHash
                         /\ items'[j].nonce = items[j].nonce
                         /\ items'[j].status = "ABSENT" => items[j].status = "ABSENT"
    BY DEF IInv, ItemsType
  <1>5. trouble' \in 0..MaxTrouble
    BY TroubleType
  <1> QED BY <1>1, <1>2, <1>3, <1>4, <1>5, RowOnly

LEMMA EnqueueKeeps ==
  ASSUME IInv, NEW i \in Items, NEW n \in ClientNonces, Enqueue(i, n)
  PROVE  IInv'
  <1>1. TxsType' /\ Grows
    BY SameTable DEF IInv, TableGrows, Enqueue
  <1>2. WorkerType' /\ WorkersFit' /\ PollersFit'
    BY <1>1, WorkersKept, PollersKept DEF IInv, Enqueue
  <1>3. PICK row : row = [items[i] EXCEPT !.status = "QUEUED", !.nonce = n]
    OBVIOUS
  <1>4. items[i] \in QueueItem /\ items[i].txHash = None
    BY DEF IInv, ItemsType, NeverSubmitted, Enqueue
  <1>5. row \in QueueItem /\ row.status = "QUEUED" /\ row.txHash = None
    BY <1>3, <1>4, QueueAssumption DEF QueueItem, QueueStatus, NoneOr
  <1>6. items' = [items EXCEPT ![i] = row]
    BY <1>3 DEF Enqueue
  <1>7. ItemsType' /\ items'[i] = row /\ \A j \in Items : j # i => items'[j] = items[j]
    BY <1>5, <1>6 DEF IInv, ItemsType
  <1>8. \A j \in Items : HashFits(j)'
    <2> SUFFICES ASSUME NEW j \in Items PROVE HashFits(j)'
      OBVIOUS
    <2>1. CASE j = i
      BY <1>5, <1>7, <2>1 DEF HashFits
    <2>2. CASE j # i
      <3>1. HashFits(j)
        BY DEF IInv, HashNonce, HashFits
      <3> QED BY <1>1, <1>7, <2>2, <3>1, RowKept DEF IInv
    <2> QED BY <2>1, <2>2
  <1>9. HashNonce' /\ NeverSubmitted'
    BY <1>5, <1>7, <1>8 DEF HashNonce, HashFits, IInv, NeverSubmitted
  <1>10. RestType' /\ NonceType'
    BY DEF IInv, RestType, NonceType, Enqueue, Submitted
  <1> QED BY <1>1, <1>2, <1>7, <1>9, <1>10 DEF IInv

LEMMA RetryNowKeeps ==
  ASSUME IInv, NEW i \in Items, RetryNow(i)
  PROVE  IInv'
  <1>1. PICK x : x = items[i]
    OBVIOUS
  <1>2. PICK row : row = [x EXCEPT !.status = "QUEUED"]
    OBVIOUS
  <1>3. /\ row \in QueueItem /\ row.status # "ABSENT"
        /\ row.txHash = items[i].txHash /\ row.nonce = items[i].nonce
    BY <1>1, <1>2 DEF IInv, ItemsType, QueueItem, QueueStatus
  <1>4. items' = [items EXCEPT ![i] = row]
    BY <1>1, <1>2 DEF RetryNow
  <1> QED BY <1>3, <1>4, RequestKeeps DEF RetryNow, IInv, RestType

LEMMA CancelReadKeeps ==
  ASSUME IInv, NEW i \in Items, CancelRead(i)
  PROVE  IInv'
  <1>1. TxsType' /\ Grows
    BY SameTable DEF IInv, TableGrows, CancelRead
  <1>2. WorkerType' /\ WorkersFit'
    BY <1>1, WorkersKept DEF CancelRead, IInv
  <1>3. trouble' \in 0..MaxTrouble
    BY TroubleType DEF CancelRead
  <1> QED BY <1>2, <1>3, WorkerOnly DEF CancelRead, IInv, NonceType, RestType

LEMMA CancelWriteKeeps ==
  ASSUME IInv, NEW i \in Items, CancelWrite(i)
  PROVE  IInv'
  <1>1. PICK x : x = items[i]
    OBVIOUS
  <1>2. PICK row : row = [x EXCEPT !.status = "CANCELLED"]
    OBVIOUS
  <1>3. /\ row \in QueueItem /\ row.status # "ABSENT"
        /\ row.txHash = items[i].txHash /\ row.nonce = items[i].nonce
    BY <1>1, <1>2 DEF IInv, ItemsType, QueueItem, QueueStatus
  <1>4. items' = [items EXCEPT ![i] = row]
    BY <1>1, <1>2 DEF CancelWrite
  <1> QED BY <1>3, <1>4, RequestKeeps DEF CancelWrite, IInv, RestType

LEMMA MarkProcessingKeeps ==
  ASSUME IInv, NEW r \in Replicas, MarkProcessing(r)
  PROVE  IInv'
  <1>1. TxsType' /\ Grows
    BY SameTable DEF IInv, TableGrows, MarkProcessing
  <1>2. PICK x : x = worker[r]
    OBVIOUS
  <1>3. x \in Tick /\ x.item \in Items
    BY <1>2 DEF IInv, WorkerType, WorkersFit, Fits, MarkProcessing
  <1>4. Go(r, "allocate", x)
    BY <1>2 DEF MarkProcessing, Go
  <1>5. WorkerType' /\ WorkersFit' /\ PollersFit'
    BY <1>1, <1>3, <1>4, GoStep, PollersKept DEF IInv, MarkProcessing
  <1>6. /\ ItemsType'
        /\ \A j \in Items : /\ items'[j].txHash = items[j].txHash
                            /\ items'[j].nonce = items[j].nonce
                            /\ items'[j].status = "ABSENT" => items[j].status = "ABSENT"
    BY <1>2, <1>3 DEF MarkProcessing, IInv, ItemsType, QueueItem, QueueStatus
  <1> QED BY <1>1, <1>5, <1>6, RowOnly DEF MarkProcessing, IInv, RestType

\* What a failure makes of a row.
LEMMA AfterFailureType ==
  ASSUME NEW row \in QueueItem, NEW n \in Nat
  PROVE  /\ AfterFailure(row, n) \in QueueItem
         /\ AfterFailure(row, n).status \in {"FAILED", "DEAD_LETTER"}
         /\ AfterFailure(row, n).txHash = row.txHash
         /\ AfterFailure(row, n).nonce = row.nonce
  BY DEF AfterFailure, QueueItem, QueueStatus

LEMMA RecordFailureKeeps ==
  ASSUME IInv, NEW r \in Replicas, RecordFailure(r)
  PROVE  IInv'
  <1>1. TxsType' /\ Grows
    BY SameTable DEF IInv, TableGrows, RecordFailure
  <1>2. PICK x : x = worker[r]
    OBVIOUS
  <1>3. x \in Tick /\ x.item \in Items
    BY <1>2 DEF IInv, WorkerType, WorkersFit, Fits, RecordFailure
  <1>4. WorkerType' /\ WorkersFit' /\ PollersFit'
    <2>1. worker[r].batch \in SUBSET Items
      BY <1>2, <1>3 DEF Tick
    <2> QED BY <1>1, <2>1, GoOnWithKeeps, PollersKept DEF RecordFailure, Done, IInv
  <1>5. PICK n \in Nat : n = x.fresh.retryCount + 1
    BY <1>3 DEF Tick, QueueItem
  <1>6. PICK row : row = AfterFailure(items[x.item], n)
    OBVIOUS
  <1>7. /\ row \in QueueItem
        /\ row.status \in {"FAILED", "DEAD_LETTER"}
        /\ row.txHash = items[x.item].txHash
        /\ row.nonce = items[x.item].nonce
    BY <1>3, <1>5, <1>6, AfterFailureType DEF IInv, ItemsType
  <1>8. items' = [items EXCEPT ![x.item] = row]
    BY <1>2, <1>5, <1>6 DEF RecordFailure
  <1>9. /\ ItemsType'
        /\ \A j \in Items : /\ items'[j].txHash = items[j].txHash
                            /\ items'[j].nonce = items[j].nonce
                            /\ items'[j].status = "ABSENT" => items[j].status = "ABSENT"
    BY <1>3, <1>7, <1>8 DEF IInv, ItemsType
  <1> QED BY <1>1, <1>4, <1>9, RowOnly DEF RecordFailure, IInv, RestType

-----------------------------------------------------------------------------
(* Submission and polling. *)

LEMMA SubmitAcceptedKeeps ==
  ASSUME IInv, NEW r \in Replicas, SubmitAccepted(r)
  PROVE  IInv'
  <1>1. PICK x : x = worker[r]
    OBVIOUS
  <1>2. x \in Tick /\ x.item \in Items /\ x.nonce \in Nat
    BY <1>1 DEF IInv, WorkerType, WorkersFit, Fits, SubmitAccepted
  <1>3. Accepted(r, x.item, x.nonce)
    BY <1>1 DEF SubmitAccepted, Accepted
  <1>4. PICK t : t = Len(txs) + 1
    OBVIOUS
  <1>5. /\ TxsType' /\ Grows
        /\ t \in Submitted' /\ txs'[t].item = x.item /\ txs'[t].nonce = x.nonce
    BY <1>2, <1>3, <1>4, AcceptedGrows DEF IInv, TableGrows
  <1>6. t \in Nat
    BY <1>4, LenProperties DEF IInv, TxsType
  <1>7. PICK w : w = [x EXCEPT !.tx = t]
    OBVIOUS
  <1>8. w \in Tick /\ w.item = x.item /\ w.nonce = x.nonce /\ w.tx = t
    BY <1>2, <1>6, <1>7 DEF Tick, NoneOr
  <1>9. Go(r, "record", w)
    BY <1>1, <1>4, <1>7 DEF SubmitAccepted, Go
  <1>10. WorkerType' /\ WorkersFit' /\ PollersFit'
    BY <1>2, <1>5, <1>8, <1>9, GoStep, PollersKept DEF IInv, SubmitAccepted
  <1> QED BY <1>5, <1>10, RowOnly DEF SubmitAccepted, IInv, RestType, ItemsType

LEMMA RecordSubmissionKeeps ==
  ASSUME IInv, NEW r \in Replicas, RecordSubmission(r)
  PROVE  IInv'
  <1>1. TxsType' /\ Grows
    BY SameTable DEF IInv, TableGrows, RecordSubmission
  <1>2. PICK x : x = worker[r]
    OBVIOUS
  <1>3. /\ x \in Tick /\ x.item \in Items /\ x.nonce \in Nat
        /\ x.tx \in Submitted /\ txs[x.tx].item = x.item /\ txs[x.tx].nonce = x.nonce
    BY <1>2 DEF IInv, WorkerType, WorkersFit, Fits, RecordSubmission
  <1>4. Go(r, "advance", x)
    BY <1>2 DEF RecordSubmission, Go
  <1>5. txs' = txs /\ Submitted' = Submitted
    BY DEF RecordSubmission, Submitted
  <1>6. WorkerType' /\ WorkersFit' /\ PollersFit'
    BY <1>1, <1>3, <1>4, <1>5, GoStep, PollersKept DEF IInv, RecordSubmission
  <1>7. PICK row : row = [items[x.item] EXCEPT !.status = "SUBMITTED", !.txHash = x.tx,
                                               !.nonce = x.nonce]
    OBVIOUS
  <1>8. x.tx \in Nat
    BY <1>3, LenProperties DEF IInv, TxsType, Submitted
  <1>9. /\ row \in QueueItem /\ row.status = "SUBMITTED"
        /\ row.txHash = x.tx /\ row.nonce = x.nonce
    BY <1>3, <1>7, <1>8 DEF IInv, ItemsType, QueueItem, QueueStatus, NoneOr
  <1>10. items' = [items EXCEPT ![x.item] = row]
    BY <1>2, <1>7 DEF RecordSubmission
  <1>11. /\ ItemsType' /\ items'[x.item] = row
         /\ \A j \in Items : j # x.item => items'[j] = items[j]
    BY <1>3, <1>9, <1>10 DEF IInv, ItemsType
  <1>12. HashNonce'
    BY <1>3, <1>5, <1>9, <1>11 DEF IInv, HashNonce
  <1>13. NeverSubmitted'
    BY <1>3, <1>9, <1>11 DEF IInv, NeverSubmitted
  <1>14. RestType'
    BY <1>2, <1>3, <1>5 DEF RecordSubmission, IInv, RestType
  <1> QED BY <1>1, <1>6, <1>11, <1>12, <1>13, <1>14
          DEF IInv, RecordSubmission, NonceType

\* A step of the poller of r.
LEMMA OnePoller ==
  ASSUME PollersFit, Grows, TxsType, TxsType', NEW r \in Replicas,
         NEW p, poller' = [poller EXCEPT ![r] = p],
         DOMAIN p \subseteq Items,
         \A i \in DOMAIN p : /\ p[i] \in QueueItem
                             /\ p[i].txHash \in Submitted'
                             /\ txs'[p[i].txHash].item = i
  PROVE  PollersFit'
  <1>1. /\ DOMAIN poller' = Replicas /\ poller'[r] = p
        /\ \A q \in Replicas : q # r => UNCHANGED poller[q]
    BY DEF PollersFit
  <1>2. \A q \in Replicas : q # r => PollFits(q)'
    BY <1>1, PollKept DEF PollersFit
  <1>3. PollFits(r)'
    BY <1>1 DEF PollFits
  <1> QED BY <1>1, <1>2, <1>3 DEF PollersFit

LEMMA StartPollKeeps ==
  ASSUME IInv, NEW r \in Replicas, StartPoll(r)
  PROVE  IInv'
  <1>1. TxsType' /\ Grows
    BY SameTable DEF IInv, TableGrows, StartPoll
  <1>2. PICK p : p = [i \in Polling |-> items[i]]
    OBVIOUS
  <1>3. poller' = [poller EXCEPT ![r] = p]
    BY <1>2 DEF StartPoll
  <1>4. /\ DOMAIN p \subseteq Items
        /\ \A i \in DOMAIN p : /\ p[i] \in QueueItem
                               /\ p[i].txHash \in Submitted
                               /\ txs[p[i].txHash].item = i
    BY <1>2 DEF Polling, IInv, ItemsType, HashNonce
  <1>5. txs' = txs /\ Submitted' = Submitted
    BY DEF StartPoll, Submitted
  <1>6. PollersFit'
    BY <1>1, <1>3, <1>4, <1>5, OnePoller DEF IInv
  <1>7. WorkerType' /\ WorkersFit'
    BY <1>1, WorkersKept DEF StartPoll, IInv
  <1> QED BY <1>1, <1>6, <1>7, RowOnly DEF StartPoll, IInv, RestType, ItemsType

\* The row the poller is on, and the rows left to it.
LEMMA LooksAtKeeps ==
  ASSUME PollersFit, Grows, TxsType, TxsType', NEW r \in Replicas, NEW i \in Items,
         LooksAt(r, i)
  PROVE  PollersFit'
  <1>1. PICK old : old = poller[r]
    OBVIOUS
  <1>2. PICK p : p = [j \in DOMAIN old \ {i} |-> old[j]]
    OBVIOUS
  <1>3. poller' = [poller EXCEPT ![r] = p]
    BY <1>1, <1>2 DEF LooksAt
  <1>4. Len(txs) \in Nat /\ Len(txs)' \in Nat
    BY LenProperties DEF TxsType
  <1>5. \A j \in DOMAIN old : /\ j \in Items
                              /\ old[j] \in QueueItem
                              /\ old[j].txHash \in Submitted
                              /\ txs[old[j].txHash].item = j
    BY <1>1 DEF PollersFit, PollFits
  <1>6. \A j \in DOMAIN old : /\ old[j].txHash \in Submitted'
                              /\ txs'[old[j].txHash].item = j
    BY <1>4, <1>5 DEF Grows, Submitted
  <1>7. DOMAIN p = DOMAIN old \ {i} /\ \A j \in DOMAIN p : p[j] = old[j]
    BY <1>2
  <1>8. DOMAIN p \subseteq Items
    BY <1>5, <1>7
  <1>9. \A j \in DOMAIN p : /\ p[j] \in QueueItem
                            /\ p[j].txHash \in Submitted'
                            /\ txs'[p[j].txHash].item = j
    BY <1>5, <1>6, <1>7
  <1> QED BY <1>3, <1>8, <1>9, OnePoller

LEMMA LooksAtRow ==
  ASSUME IInv, NEW r \in Replicas, NEW i \in Items, LooksAt(r, i)
  PROVE  /\ poller[r][i] \in QueueItem
         /\ poller[r][i].txHash \in Submitted
         /\ txs[poller[r][i].txHash].item = i
  BY DEF IInv, PollersFit, PollFits, LooksAt

LEMMA PollItemKeeps ==
  ASSUME IInv, NEW r \in Replicas, NEW i \in Items, PollItem(r, i)
  PROVE  IInv'
  <1>1. LooksAt(r, i)
    BY DEF PollItem
  <1>2. PICK row : row = poller[r][i]
    OBVIOUS
  <1>3. row \in QueueItem /\ row.txHash \in Submitted
    BY <1>1, <1>2, LooksAtRow
  <1>4. TxsType' /\ Grows
    <2>1. Polled(r, row.txHash)
      BY <1>2 DEF PollItem, Polled
    <2> QED BY <1>3, <2>1, PolledGrows DEF TableGrows, IInv
  <1>5. WorkerType' /\ WorkersFit' /\ PollersFit'
    BY <1>1, <1>4, WorkersKept, LooksAtKeeps DEF PollItem, IInv
  <1>6. /\ ItemsType'
        /\ \A j \in Items : /\ items'[j].txHash = items[j].txHash
                            /\ items'[j].nonce = items[j].nonce
                            /\ items'[j].status = "ABSENT" => items[j].status = "ABSENT"
    <2>1. SUFFICES ASSUME NEW new \in QueueItem,
                          items' = [items EXCEPT ![i] = new],
                          new.txHash = items[i].txHash, new.nonce = items[i].nonce,
                          new.status # "ABSENT"
                   PROVE  /\ ItemsType'
                          /\ \A j \in Items :
                               /\ items'[j].txHash = items[j].txHash
                               /\ items'[j].nonce = items[j].nonce
                               /\ items'[j].status = "ABSENT" => items[j].status = "ABSENT"
      <3>1. CASE Status(r, row.txHash) = "CONFIRMED"
        <4>1. PICK h : h = ConfirmedHash(r, i)
          OBVIOUS
        <4>2. h \in NoneOr(Nat)
          BY <1>2, <1>3, <4>1 DEF ConfirmedHash, QueueItem
        <4>3. PICK new : new = [items[i] EXCEPT !.status = "CONFIRMED", !.result = h]
          OBVIOUS
        <4>4. /\ new \in QueueItem /\ new.status # "ABSENT"
              /\ new.txHash = items[i].txHash /\ new.nonce = items[i].nonce
          BY <4>2, <4>3 DEF IInv, ItemsType, QueueItem, QueueStatus
        <4>5. items' = [items EXCEPT ![i] = new]
          BY <1>2, <3>1, <4>1, <4>3 DEF PollItem
        <4> QED BY <4>4, <4>5, <2>1
      <3>2. CASE Status(r, row.txHash) = "FAILED"
        <4>1. PICK n \in Nat : n = row.retryCount + 1
          BY <1>3 DEF QueueItem
        <4>2. PICK x : x = AfterFailure(items[i], n)
          OBVIOUS
        <4>3. /\ x \in QueueItem /\ x.status \in {"FAILED", "DEAD_LETTER"}
              /\ x.txHash = items[i].txHash /\ x.nonce = items[i].nonce
          BY <4>2, AfterFailureType DEF IInv, ItemsType
        <4>4. PICK new : new = [x EXCEPT !.result = None]
          OBVIOUS
        <4>5. /\ new \in QueueItem /\ new.status # "ABSENT"
              /\ new.txHash = items[i].txHash /\ new.nonce = items[i].nonce
          BY <4>3, <4>4 DEF QueueItem, NoneOr
        <4>6. items' = [items EXCEPT ![i] = new]
          BY <1>2, <3>2, <4>1, <4>2, <4>4 DEF PollItem
        <4> QED BY <4>5, <4>6, <2>1
      <3>3. CASE Status(r, row.txHash) \notin {"CONFIRMED", "FAILED"}
        <4>1. items' = items
          BY <1>2, <3>3 DEF PollItem
        <4> QED BY <4>1 DEF IInv, ItemsType
      <3> QED BY <3>1, <3>2, <3>3
    <2> QED BY <2>1 DEF IInv, ItemsType
  <1>7. trouble' \in 0..MaxTrouble
    BY TroubleType DEF PollItem
  <1> QED BY <1>4, <1>5, <1>6, <1>7, RowOnly DEF PollItem, IInv, RestType

LEMMA BumpFeeKeeps ==
  ASSUME IInv, NEW r \in Replicas, NEW i \in Items, BumpFee(r, i)
  PROVE  IInv'
  <1>1. LooksAt(r, i)
    BY DEF BumpFee
  <1>2. TxsType' /\ Grows
    <2>1. PICK t : t = poller[r][i].txHash
      OBVIOUS
    <2>2. t \in Submitted
      BY <1>1, <2>1, LooksAtRow
    <2>3. Status(r, t) = "PENDING" /\ PolledAndBumped(r, t)
      BY <2>1 DEF BumpFee, Status, PolledAndBumped
    <2> QED BY <2>2, <2>3, BumpedGrows DEF TableGrows, IInv
  <1>3. WorkerType' /\ WorkersFit' /\ PollersFit'
    BY <1>1, <1>2, WorkersKept, LooksAtKeeps DEF BumpFee, IInv
  <1>4. /\ ItemsType'
        /\ \A j \in Items : /\ items'[j].txHash = items[j].txHash
                            /\ items'[j].nonce = items[j].nonce
                            /\ items'[j].status = "ABSENT" => items[j].status = "ABSENT"
    BY DEF BumpFee, IInv, ItemsType, QueueItem, QueueStatus
  <1>5. trouble' \in 0..MaxTrouble
    BY TroubleType DEF BumpFee
  <1> QED BY <1>2, <1>3, <1>4, <1>5, RowOnly DEF BumpFee, IInv, RestType

LEMMA PollErrorKeeps ==
  ASSUME IInv, NEW r \in Replicas, NEW i \in Items, PollError(r, i)
  PROVE  IInv'
  <1>1. LooksAt(r, i)
    BY DEF PollError
  <1>2. TxsType' /\ Grows
    <2>1. PICK t : t = poller[r][i].txHash
      OBVIOUS
    <2>2. t \in Submitted
      BY <1>1, <2>1, LooksAtRow
    <2>3. \/ UNCHANGED txs
          \/ Polled(r, t)
          \/ Status(r, t) = "PENDING" /\ PolledAndBumped(r, t)
      BY <2>1 DEF PollError, Polled, Status, PolledAndBumped
    <2> QED BY <2>2, <2>3, SameTable, PolledGrows, BumpedGrows DEF TableGrows, IInv
  <1>3. WorkerType' /\ WorkersFit' /\ PollersFit'
    BY <1>1, <1>2, WorkersKept, LooksAtKeeps DEF PollError, IInv
  <1>4. trouble' \in 0..MaxTrouble
    BY TroubleType DEF PollError
  <1> QED BY <1>2, <1>3, <1>4, RowOnly DEF PollError, IInv, RestType, ItemsType

LEMMA CrashKeeps ==
  ASSUME IInv, NEW r \in Replicas, Crash(r)
  PROVE  IInv'
  <1>1. TxsType' /\ Grows
    BY LostGrows DEF Crash, TableGrows, IInv
  <1>2. NoTick \in Tick /\ NoTick.pc = "idle"
    BY DEF NoTick, Tick, NoneOr, Absent, QueueItem, QueueStatus
  <1>3. worker' = [worker EXCEPT ![r] = NoTick]
    BY DEF Crash
  <1>4. worker'[r] = NoTick
    BY <1>3 DEF IInv, WorkerType
  <1>5. Fits(r)'
    BY <1>2, <1>4, AtRestFits
  <1>6. WorkerType' /\ WorkersFit'
    BY <1>1, <1>2, <1>3, <1>5, OneWorker DEF IInv
  <1>7. PollersFit'
    <2>1. poller' = [poller EXCEPT ![r] = <<>>]
      BY DEF Crash
    <2>2. DOMAIN <<>> = {}
      OBVIOUS
    <2> QED BY <1>1, <2>1, <2>2, OnePoller DEF IInv
  <1>8. trouble' \in 0..MaxTrouble
    BY TroubleType DEF Crash
  <1>9. HashNonce' /\ NeverSubmitted' /\ ItemsType' /\ NonceType'
    BY <1>1, RowsKept DEF Crash, IInv, ItemsType, NonceType
  <1>10. recorded' \subseteq Submitted'
    BY <1>1, RecordedKept DEF Crash, IInv, RestType
  <1>11. RestType'
    BY <1>8, <1>10 DEF Crash, IInv, RestType
  <1> QED BY <1>1, <1>6, <1>7, <1>9, <1>11 DEF IInv

-----------------------------------------------------------------------------
(* The invariant. *)

LEMMA InitIInv == Init => IInv
  <1> SUFFICES ASSUME Init PROVE IInv
    OBVIOUS
  <1>1. TxsType /\ Submitted = {}
    BY DEF Init, InitGateway, TxsType, Submitted
  <1>2. ItemsType /\ NonceType /\ RestType
    BY QueueAssumption
       DEF Init, ItemsType, NonceType, RestType, QueueItem, QueueStatus, Absent, NoneOr
  <1>3. NoTick \in Tick /\ NoTick.pc = "idle"
    BY DEF NoTick, Tick, NoneOr, Absent, QueueItem, QueueStatus
  <1>4. WorkerType /\ WorkersFit
    BY <1>3 DEF Init, WorkerType, WorkersFit, Fits
  <1>5. PollersFit
    BY DEF Init, PollersFit, PollFits
  <1>6. HashNonce /\ NeverSubmitted
    BY DEF Init, HashNonce, NeverSubmitted, Absent
  <1> QED BY <1>1, <1>2, <1>4, <1>5, <1>6 DEF IInv

LEMMA StutterIInv == IInv /\ UNCHANGED vars => IInv'
  <1> SUFFICES ASSUME IInv, UNCHANGED vars PROVE IInv'
    OBVIOUS
  <1>1. TxsType' /\ Grows
    BY SameTable DEF vars, IInv, TableGrows
  <1>2. WorkerType' /\ WorkersFit' /\ PollersFit'
    BY <1>1, WorkersKept, PollersKept DEF vars, IInv
  <1> QED BY <1>1, <1>2, RowOnly DEF vars, IInv, RestType, ItemsType

LEMMA NextIInv == IInv /\ Next => IInv'
  <1> SUFFICES ASSUME IInv, Next PROVE IInv'
    OBVIOUS
  <1>1. CASE World
    BY <1>1, RetryNowKeeps, CancelReadKeeps, CancelWriteKeeps, EnqueueKeeps,
       GetSignerNonceStateKeeps, DbErrorOutsideTryKeeps, DbErrorAfterSubmitKeeps,
       CrashKeeps, SubmitRejectedKeeps, BumpFeeKeeps, PollErrorKeeps DEF World
  <1>2. CASE \E r \in Replicas : WorkerStep(r)
    BY <1>2, ReadFreshKeeps, MarkProcessingKeeps, AllocateNonceKeeps,
       CreateNonceStateKeeps, LoseCreateRaceKeeps, SubmitAcceptedKeeps,
       RecordSubmissionKeeps, AdvanceNonceStateKeeps, RecoverReadKeeps,
       RecoverWriteKeeps, RecordFailureKeeps DEF WorkerStep
  <1>3. CASE \E r \in Replicas : PollStep(r)
    BY <1>3, StartPollKeeps, PollItemKeeps DEF PollStep
  <1>4. CASE \E r \in Replicas, batch \in SUBSET Candidates : StartTick(r, batch)
    BY <1>4, StartTickKeeps
  <1> QED BY <1>1, <1>2, <1>3, <1>4 DEF Next

\* The inductive invariant: what rows, workers and pollers say of a transaction
\* is what it was submitted with, through every await, crash and error.
THEOREM IInvHolds == Spec => []IInv
  <1>1. IInv /\ [Next]_vars => IInv'
    BY NextIInv, StutterIInv
  <1> QED BY <1>1, InitIInv, PTL DEF Spec

\* Every variable has its type and names existing transactions, whatever the
\* replicas, the operators, crashes and errors do.
THEOREM TypeCorrect == Spec => []TypeInvariant
  <1>1. IInv => TypeInvariant
    BY DEF IInv, TypeInvariant, TxsType, ItemsType, WorkerType, NonceType, RestType,
           PollersFit, PollFits
  <1> QED BY <1>1, IInvHolds, PTL

\* The hash of a row is that of a transaction submitted for this item with the
\* row's nonce (RecordSubmission), for any number of replicas.
THEOREM HashNonceHolds == Spec => []HashNonce
  <1>1. IInv => HashNonce
    BY DEF IInv
  <1> QED BY <1>1, IInvHolds, PTL

-----------------------------------------------------------------------------
(* Confirmations. *)

LEMMA NextGrows ==
  ASSUME IInv, [Next]_vars
  PROVE  TableGrows
  <1>1. CASE UNCHANGED txs
    BY <1>1, SameTable DEF IInv
  <1>2. CASE \E r \in Replicas : SubmitAccepted(r)
    <2>1. PICK r \in Replicas : SubmitAccepted(r)
      BY <1>2
    <2>2. worker[r].item \in Items /\ worker[r].nonce \in Nat
      BY <2>1 DEF IInv, WorkersFit, Fits, SubmitAccepted
    <2> QED BY <2>1, <2>2, AcceptedGrows DEF SubmitAccepted, IInv
  <1>3. CASE \E r \in Replicas, i \in Items : PollItem(r, i)
    <2>1. PICK r \in Replicas, i \in Items : PollItem(r, i)
      BY <1>3
    <2>2. poller[r][i].txHash \in Submitted /\ Polled(r, poller[r][i].txHash)
      BY <2>1, LooksAtRow DEF PollItem
    <2> QED BY <2>2, PolledGrows DEF IInv
  <1>4. CASE \E r \in Replicas, i \in Items : BumpFee(r, i) \/ PollError(r, i)
    <2>1. PICK r \in Replicas, i \in Items : BumpFee(r, i) \/ PollError(r, i)
      BY <1>4
    <2>2. poller[r][i].txHash \in Submitted
      BY <2>1, LooksAtRow DEF BumpFee, PollError
    <2>3. \/ UNCHANGED txs
          \/ Polled(r, poller[r][i].txHash)
          \/ /\ Status(r, poller[r][i].txHash) = "PENDING"
             /\ PolledAndBumped(r, poller[r][i].txHash)
      BY <2>1 DEF BumpFee, PollError
    <2> QED BY <1>1, <2>2, <2>3, PolledGrows, BumpedGrows DEF IInv
  <1>5. CASE \E r \in Replicas : Crash(r)
    BY <1>5, LostGrows DEF Crash, IInv
  <1>6. CASE UNCHANGED vars
    BY <1>1, <1>6 DEF vars
  <1>7. CASE World
    BY <1>1, <1>4, <1>5, <1>7
       DEF World, RetryNow, CancelRead, CancelWrite, Enqueue, GetSignerNonceState,
           DbErrorOutsideTry, CutOff, DbErrorAfterSubmit, SubmitRejected
  <1>8. CASE \E r \in Replicas : WorkerStep(r)
    BY <1>1, <1>2, <1>8
       DEF WorkerStep, ReadFresh, MarkProcessing, AllocateNonce, CreateNonceState,
           LoseCreateRace, CutOff, RecordSubmission, AdvanceNonceState, RecoverRead,
           RecoverWrite, RecordFailure
  <1>9. CASE \E r \in Replicas : PollStep(r)
    BY <1>1, <1>3, <1>9 DEF PollStep, StartPoll
  <1>10. CASE \E r \in Replicas, batch \in SUBSET Candidates : StartTick(r, batch)
    BY <1>1, <1>10 DEF StartTick
  <1> QED BY <1>6, <1>7, <1>8, <1>9, <1>10 DEF Next

\* Only the poller confirms.
ConfirmedBefore(i) ==
  items'[i].status = "CONFIRMED" =>
    items[i].status = "CONFIRMED" /\ items'[i].result = items[i].result

LEMMA OnlyPollingConfirms ==
  ASSUME IInv, [Next]_vars, NEW i \in Items,
         ~(\E r \in Replicas : PollItem(r, i))
  PROVE  ConfirmedBefore(i)
  <1>1. CASE UNCHANGED items
    BY <1>1 DEF ConfirmedBefore
  <1>2. \A j \in Items : items[j] \in QueueItem
    BY DEF IInv, ItemsType
  <1>3. CASE \E j \in Items : items' = [items EXCEPT ![j] = items'[j]]
                              /\ items'[j].status # "CONFIRMED"
    BY <1>3 DEF ConfirmedBefore, IInv, ItemsType
  <1>4. CASE \E j \in Items : RetryNow(j) \/ CancelWrite(j)
                              \/ \E n \in ClientNonces : Enqueue(j, n)
    <2>1. PICK j \in Items : RetryNow(j) \/ CancelWrite(j)
                             \/ \E n \in ClientNonces : Enqueue(j, n)
      BY <1>4
    <2> QED BY <1>2, <2>1 DEF RetryNow, CancelWrite, Enqueue, ConfirmedBefore,
                              QueueItem, IInv, ItemsType
  <1>5. CASE \E r \in Replicas, j \in Items : BumpFee(r, j)
    <2>1. PICK r \in Replicas, j \in Items : BumpFee(r, j)
      BY <1>5
    <2> QED BY <1>2, <2>1 DEF BumpFee, ConfirmedBefore, QueueItem, IInv, ItemsType
  <1>6. CASE \E r \in Replicas : MarkProcessing(r) \/ RecordSubmission(r)
    <2>1. PICK r \in Replicas : MarkProcessing(r) \/ RecordSubmission(r)
      BY <1>6
    <2>2. worker[r].item \in Items
      BY <2>1 DEF MarkProcessing, RecordSubmission, IInv, WorkersFit, Fits
    <2> QED BY <1>2, <2>1, <2>2 DEF MarkProcessing, RecordSubmission, ConfirmedBefore,
                                    QueueItem, IInv, ItemsType
  <1>7. CASE \E r \in Replicas : RecordFailure(r)
    <2>1. PICK r \in Replicas : RecordFailure(r)
      BY <1>7
    <2>2. PICK j : j = worker[r].item
      OBVIOUS
    <2>3. j \in Items /\ worker[r].fresh \in QueueItem
      BY <2>1, <2>2 DEF RecordFailure, IInv, WorkersFit, Fits, WorkerType, Tick
    <2>4. PICK n \in Nat : n = worker[r].fresh.retryCount + 1
      BY <2>3 DEF QueueItem
    <2>5. items' = [items EXCEPT ![j] = AfterFailure(items[j], n)]
      BY <2>1, <2>2, <2>4 DEF RecordFailure
    <2>6. AfterFailure(items[j], n).status \in {"FAILED", "DEAD_LETTER"}
      BY <1>2, <2>3, AfterFailureType
    <2> QED BY <1>3, <2>3, <2>5, <2>6 DEF IInv, ItemsType
  <1>8. CASE \E r \in Replicas, j \in Items : PollItem(r, j)
    <2>1. PICK r \in Replicas, j \in Items : PollItem(r, j)
      BY <1>8
    <2>2. j # i
      BY <2>1
    <2>3. items'[i] = items[i]
      BY <2>1, <2>2 DEF PollItem, IInv, ItemsType
    <2> QED BY <2>3 DEF ConfirmedBefore
  <1>9. CASE UNCHANGED vars
    BY <1>1, <1>9 DEF vars
  <1>10. CASE World
    BY <1>1, <1>4, <1>5, <1>10
       DEF World, CancelRead, GetSignerNonceState, DbErrorOutsideTry, CutOff,
           DbErrorAfterSubmit, SubmitRejected, PollError, Crash
  <1>11. CASE \E r \in Replicas : WorkerStep(r)
    BY <1>1, <1>6, <1>7, <1>11
       DEF WorkerStep, ReadFresh, AllocateNonce, CreateNonceState, LoseCreateRace,
           CutOff, SubmitAccepted, AdvanceNonceState, RecoverRead, RecoverWrite
  <1>12. CASE \E r \in Replicas : PollStep(r)
    BY <1>1, <1>8, <1>12 DEF PollStep, StartPoll
  <1>13. CASE \E r \in Replicas, batch \in SUBSET Candidates : StartTick(r, batch)
    BY <1>1, <1>13 DEF StartTick
  <1> QED BY <1>9, <1>10, <1>11, <1>12, <1>13 DEF Next

\* What the poller writes is what it has just been told.
LEMMA PollingConfirms ==
  ASSUME IInv, IInv', Grows, NEW r \in Replicas, NEW i \in Items, PollItem(r, i),
         ResultFits(i)
  PROVE  ResultFits(i)'
  <1>1. PICK t : t = poller[r][i].txHash
    OBVIOUS
  <1>2. t \in Submitted /\ txs[t].item = i /\ items[i] \in QueueItem
    BY <1>1, LooksAtRow DEF PollItem, IInv, ItemsType
  <1>3. Len(txs) \in Nat /\ Len(txs)' \in Nat
    BY LenProperties DEF IInv, TxsType
  <1>4. CASE Status(r, t) = "CONFIRMED"
    <2>1. items'[i].result = t
      BY <1>1, <1>2, <1>4 DEF PollItem, ConfirmedHash, IInv, ItemsType, QueueItem
    <2>2. Confirmed(t)'
      <3>1. txs[t] \in Transaction
        BY <1>2, ElementOfSeq DEF IInv, TxsType, Submitted
      <3>2. CASE Confirmed(t)
        BY <1>2, <3>2 DEF Grows
      <3>3. CASE ~Confirmed(t)
        <4>1. Polled(r, t)
          BY <1>1 DEF PollItem
        <4>2. txs[t].home = r /\ txs[t].polls + 1 >= PollsToConfirm
          BY <1>4 DEF Status
        <4>3. txs[t].polls + 1 = PollsToConfirm
          BY <3>1, <3>3, <4>2, GatewayAssumption DEF Confirmed, Transaction
        <4>4. txs' = [txs EXCEPT ![t].polls = @ + 1]
          BY <3>3, <4>1, <4>2 DEF Polled
        <4>5. txs'[t].polls = PollsToConfirm
          <5>1. DOMAIN txs = 1..Len(txs)
            BY LenProperties DEF IInv, TxsType
          <5>2. PICK u : u = [txs[t] EXCEPT !.polls = @ + 1]
            OBVIOUS
          <5>3. txs'[t] = u
            BY <1>2, <4>4, <5>1, <5>2 DEF Submitted
          <5>4. u.polls = txs[t].polls + 1
            BY <3>1, <5>2 DEF Transaction
          <5> QED BY <4>3, <5>3, <5>4
        <4> QED BY <4>5 DEF Confirmed
      <3> QED BY <3>2, <3>3
    <2>3. t \in Submitted' /\ txs'[t].item = i
      BY <1>2, <1>3 DEF Grows, Submitted
    <2> QED BY <2>1, <2>2, <2>3 DEF ResultFits
  <1>5. CASE Status(r, t) = "FAILED"
    <2>1. PICK n \in Nat : n = poller[r][i].retryCount + 1
      BY LooksAtRow DEF PollItem, QueueItem
    <2>2. PICK x : x = AfterFailure(items[i], n)
      OBVIOUS
    <2>3. x \in QueueItem /\ x.status \in {"FAILED", "DEAD_LETTER"}
      BY <1>2, <2>2, AfterFailureType
    <2>4. items' = [items EXCEPT ![i] = [x EXCEPT !.result = None]]
      BY <1>1, <1>5, <2>1, <2>2 DEF PollItem
    <2>5. items'[i].status # "CONFIRMED"
      BY <2>3, <2>4 DEF IInv, ItemsType, QueueItem
    <2> QED BY <2>5 DEF ResultFits
  <1>6. CASE Status(r, t) \notin {"CONFIRMED", "FAILED"}
    <2>1. items' = items
      BY <1>1, <1>6 DEF PollItem
    <2> QED BY <2>1, ResultKept DEF IInv
  <1> QED BY <1>4, <1>5, <1>6

\* A row says CONFIRMED only of a transaction of its item that has confirmed,
\* however old the row was the poller learnt it for (pollSingleItem).
THEOREM ConfirmedIsTrueHolds == Spec => []ConfirmedIsTrue
  <1>1. Init => ConfirmedIsTrue
    BY DEF Init, ConfirmedIsTrue, Absent
  <1>2. IInv /\ IInv' /\ ConfirmedIsTrue /\ [Next]_vars => ConfirmedIsTrue'
    <2> SUFFICES ASSUME IInv, IInv', ConfirmedIsTrue, [Next]_vars, NEW i \in Items
                 PROVE  ResultFits(i)'
      BY DEF ConfirmedIsTrue, ResultFits
    <2>1. TxsType' /\ Grows
      BY NextGrows DEF TableGrows
    <2>2. ResultFits(i)
      BY DEF ConfirmedIsTrue, ResultFits
    <2>3. CASE \E r \in Replicas : PollItem(r, i)
      BY <2>1, <2>2, <2>3, PollingConfirms
    <2>4. CASE ~(\E r \in Replicas : PollItem(r, i))
      <3>1. ConfirmedBefore(i)
        BY <2>4, OnlyPollingConfirms
      <3> QED BY <2>1, <2>2, <3>1, ResultKept DEF ConfirmedBefore, IInv
    <2> QED BY <2>3, <2>4
  <1> QED BY <1>1, <1>2, IInvHolds, PTL DEF Spec

-----------------------------------------------------------------------------
(* No item is forgotten in PROCESSING. *)

HasWorker(i) ==
  \/ i \in abandoned
  \/ \E r \in Replicas : OnItem(r, i) /\ worker[r].pc # "advance"

\* The workers of the other replicas.
OthersStay(r) == \A q \in Replicas \ {r} : worker'[q] = worker[q]

\* The worker of r goes on with the item it is on.
GoesOn(r) ==
  /\ OthersStay(r)
  /\ worker'[r].item = worker[r].item
  /\ worker'[r].fresh = worker[r].fresh
  /\ worker[r].pc \notin {"idle", "pick"}
  /\ worker'[r].pc \notin {"idle", "pick", "mark", "advance"}
  /\ abandoned' = abandoned

LEMMA GoGoesOn ==
  ASSUME WorkerType, NEW r \in Replicas, NEW w \in Tick, NEW pc, Go(r, pc, w),
         w.item = worker[r].item, w.fresh = worker[r].fresh, UNCHANGED abandoned,
         worker[r].pc \notin {"idle", "pick"},
         pc \notin {"idle", "pick", "mark", "advance"}
  PROVE  GoesOn(r)
  <1>1. PICK v : v = [w EXCEPT !.pc = pc]
    OBVIOUS
  <1>2. v.pc = pc /\ v.item = w.item /\ v.fresh = w.fresh
    BY <1>1 DEF Tick
  <1>3. worker' = [worker EXCEPT ![r] = v]
    BY <1>1 DEF Go
  <1> QED BY <1>2, <1>3 DEF GoesOn, OthersStay, WorkerType

LEMMA StepsGoOn ==
  ASSUME IInv, NEW r \in Replicas,
         \/ MarkProcessing(r) \/ AllocateNonce(r) \/ CreateNonceState(r)
         \/ SubmitAccepted(r) \/ \E e \in Errors : SubmitRejected(r, e)
         \/ RecoverRead(r) \/ RecoverWrite(r) \/ \E e \in DbErrorClass : DbErrorAfterSubmit(r, e)
  PROVE  GoesOn(r)
  <1>1. PICK x : x = worker[r]
    OBVIOUS
  <1>2. x \in Tick /\ WorkerType /\ x.pc \notin {"idle", "pick"}
    BY <1>1 DEF IInv, WorkerType, MarkProcessing, AllocateNonce, CreateNonceState,
                SubmitAccepted, SubmitRejected, RecoverRead, RecoverWrite,
                DbErrorAfterSubmit
  <1>3. CASE MarkProcessing(r)
    <2>1. Go(r, "allocate", x) /\ UNCHANGED abandoned
      BY <1>1, <1>3 DEF MarkProcessing, Go
    <2> QED BY <1>1, <1>2, <2>1, GoGoesOn
  <1>4. CASE AllocateNonce(r)
    <2>1. PICK n : n = Allocation(x.fresh, x.item)
      OBVIOUS
    <2>2. n \in NoneOr(Nat)
      <3>1. x.item \in Items
        BY <1>1, <1>4 DEF AllocateNonce, IInv, WorkersFit, Fits
      <3> QED BY <1>2, <2>1, <3>1, QueueAssumption
              DEF Allocation, Tick, QueueItem, NoneOr, IInv, NonceType
    <2>3. PICK w : w = [x EXCEPT !.nonce = n]
      OBVIOUS
    <2>4. w \in Tick /\ w.item = x.item /\ w.fresh = x.fresh
      BY <1>2, <2>2, <2>3 DEF Tick
    <2>5. (Go(r, "create", x) \/ Go(r, "submit", w)) /\ UNCHANGED abandoned
      BY <1>1, <1>4, <2>1, <2>3 DEF AllocateNonce, Go
    <2> QED BY <1>1, <1>2, <2>4, <2>5, GoGoesOn
  <1>5. CASE CreateNonceState(r)
    <2>1. PICK w : w = [x EXCEPT !.nonce = 0]
      OBVIOUS
    <2>2. w \in Tick /\ w.item = x.item /\ w.fresh = x.fresh
      BY <1>2, <2>1 DEF Tick, NoneOr
    <2>3. Go(r, "submit", w) /\ UNCHANGED abandoned
      BY <1>1, <1>5, <2>1 DEF CreateNonceState, Go
    <2> QED BY <1>1, <1>2, <2>2, <2>3, GoGoesOn
  <1>6. CASE SubmitAccepted(r)
    <2>1. PICK t \in Nat : t = Len(txs) + 1
      BY LenProperties DEF IInv, TxsType
    <2>2. PICK w : w = [x EXCEPT !.tx = t]
      OBVIOUS
    <2>3. w \in Tick /\ w.item = x.item /\ w.fresh = x.fresh
      BY <1>2, <2>2 DEF Tick, NoneOr
    <2>4. Go(r, "record", w) /\ UNCHANGED abandoned
      BY <1>1, <1>6, <2>1, <2>2 DEF SubmitAccepted, Go
    <2> QED BY <1>1, <1>2, <2>3, <2>4, GoGoesOn
  <1>7. CASE \E e \in Errors : SubmitRejected(r, e)
    <2>1. PICK e \in Errors : SubmitRejected(r, e)
      BY <1>7
    <2>2. PICK w : w = [x EXCEPT !.error = e]
      OBVIOUS
    <2>3. w \in Tick /\ w.item = x.item /\ w.fresh = x.fresh
      BY <1>2, <2>2, QueueAssumption DEF Tick, NoneOr
    <2>4. (Go(r, "fail", w) \/ Go(r, "recover", w)) /\ UNCHANGED abandoned
      BY <1>1, <2>1, <2>2 DEF SubmitRejected, ToFailure, Go
    <2> QED BY <1>1, <1>2, <2>3, <2>4, GoGoesOn
  <1>8. CASE RecoverRead(r)
    <2>1. PICK n : n = nextNonce[SignerOf[x.item]]
      OBVIOUS
    <2>2. n \in NoneOr(Nat)
      <3>1. x.item \in Items
        BY <1>1, <1>8 DEF RecoverRead, IInv, WorkersFit, Fits
      <3> QED BY <2>1, <3>1, QueueAssumption DEF IInv, NonceType
    <2>3. PICK w : w = [x EXCEPT !.seen = n]
      OBVIOUS
    <2>4. w \in Tick /\ w.item = x.item /\ w.fresh = x.fresh
      BY <1>2, <2>2, <2>3 DEF Tick
    <2>5. Go(r, "rewind", w) /\ UNCHANGED abandoned
      BY <1>1, <1>8, <2>1, <2>3 DEF RecoverRead, Go
    <2> QED BY <1>1, <1>2, <2>4, <2>5, GoGoesOn
  <1>9. CASE RecoverWrite(r)
    <2>1. Go(r, "fail", x) /\ UNCHANGED abandoned
      BY <1>1, <1>9 DEF RecoverWrite, Go
    <2> QED BY <1>1, <1>2, <2>1, GoGoesOn
  <1>10. CASE \E e \in DbErrorClass : DbErrorAfterSubmit(r, e)
    <2>1. PICK e \in DbErrorClass : DbErrorAfterSubmit(r, e)
      BY <1>10
    <2>2. PICK w : w = [x EXCEPT !.error = e]
      OBVIOUS
    <2>3. w \in Tick /\ w.item = x.item /\ w.fresh = x.fresh
      BY <1>2, <2>2 DEF Tick, NoneOr, ErrorClass, DbErrorClass
    <2>4. (Go(r, "fail", w) \/ Go(r, "recover", w)) /\ UNCHANGED abandoned
      BY <1>1, <2>1, <2>2 DEF DbErrorAfterSubmit, ToFailure, Go
    <2> QED BY <1>1, <1>2, <2>3, <2>4, GoGoesOn
  <1> QED BY <1>3, <1>4, <1>5, <1>6, <1>7, <1>8, <1>9, <1>10

LEMMA HasWorkerKept ==
  ASSUME NEW i, HasWorker(i),
         \/ UNCHANGED <<worker, abandoned>>
         \/ \E r \in Replicas : GoesOn(r)
         \/ \E r \in Replicas : /\ OthersStay(r)
                                /\ abandoned \subseteq abandoned'
                                /\ \/ i \in abandoned'
                                   \/ ~OnItem(r, i)
                                   \/ worker[r].pc = "advance"
  PROVE  HasWorker(i)'
  <1>1. CASE UNCHANGED <<worker, abandoned>>
    BY <1>1 DEF HasWorker, OnItem
  <1>2. CASE \E r \in Replicas : GoesOn(r)
    BY <1>2 DEF HasWorker, OnItem, GoesOn, OthersStay
  <1>3. CASE \E r \in Replicas : /\ OthersStay(r)
                                 /\ abandoned \subseteq abandoned'
                                 /\ \/ i \in abandoned'
                                    \/ ~OnItem(r, i)
                                    \/ worker[r].pc = "advance"
    BY <1>3 DEF HasWorker, OnItem, OthersStay
  <1> QED BY <1>1, <1>2, <1>3

\* The steps after which a worker may be on another item or none.
LEMMA OthersStayPut ==
  ASSUME IInv, NEW r \in Replicas,
         \/ \E batch : StartTick(r, batch) \/ GoOnWith(r, batch)
         \/ \E pc, w : Go(r, pc, w)
         \/ Crash(r)
  PROVE  OthersStay(r)
  BY DEF StartTick, GoOnWith, Go, Crash, OthersStay, IInv, WorkerType

LEMMA CutOffAbandons ==
  ASSUME IInv, NEW r \in Replicas, CutOff(r), NEW i \in Items
  PROVE  /\ OthersStay(r)
         /\ abandoned \subseteq abandoned'
         /\ i \in abandoned' \/ ~OnItem(r, i)
  BY OthersStayPut DEF CutOff, Done

\* A row stays PROCESSING only while a worker is on it or after one was cut off,
\* by a crash, by a database error outside the try, or by losing the race to
\* create the signer's nonce row (in allocateNonce or in recoverNonceState): every
\* other path through processSingleItem and handleSubmissionFailure takes the
\* item out of PROCESSING.
THEOREM ProcessingHasWorkerHolds == Spec => []ProcessingHasWorker
  <1>1. Init => ProcessingHasWorker
    BY DEF Init, ProcessingHasWorker, Absent
  <1>2. IInv /\ ProcessingHasWorker /\ [Next]_vars => ProcessingHasWorker'
    <2> SUFFICES ASSUME IInv, ProcessingHasWorker, [Next]_vars, NEW i \in Items,
                        items'[i].status = "PROCESSING"
                 PROVE  HasWorker(i)'
      BY DEF ProcessingHasWorker, HasWorker
    <2>1. items[i].status = "PROCESSING" => HasWorker(i)
      BY DEF ProcessingHasWorker, HasWorker
    <2>2. \A j \in Items : items[j] \in QueueItem
      BY DEF IInv, ItemsType
    <2>3. CASE UNCHANGED <<items, worker, abandoned>>
      BY <2>1, <2>3, HasWorkerKept
    <2>4. CASE \E r \in Replicas :
                 /\ UNCHANGED items
                 /\ \/ AllocateNonce(r) \/ CreateNonceState(r)
                    \/ SubmitAccepted(r) \/ \E e \in Errors : SubmitRejected(r, e)
                    \/ RecoverRead(r) \/ RecoverWrite(r) \/ \E e \in DbErrorClass : DbErrorAfterSubmit(r, e)
      BY <2>1, <2>4, StepsGoOn, HasWorkerKept
    <2>5. CASE \E r \in Replicas : MarkProcessing(r)
      <3>1. PICK r \in Replicas : MarkProcessing(r)
        BY <2>5
      <3>2. GoesOn(r)
        BY <3>1, StepsGoOn
      <3>3. CASE i = worker[r].item
        BY <3>2, <3>3 DEF HasWorker, OnItem, GoesOn
      <3>4. CASE i # worker[r].item
        <4>1. items'[i] = items[i]
          BY <3>1, <3>4 DEF MarkProcessing, IInv, ItemsType
        <4> QED BY <2>1, <3>2, <4>1, HasWorkerKept
      <3> QED BY <3>3, <3>4
    <2>6. CASE \E r \in Replicas : /\ UNCHANGED <<items, abandoned>>
                                   /\ OthersStay(r)
                                   /\ worker[r].pc \in {"idle", "pick", "advance"}
      <3>1. PICK r \in Replicas : /\ UNCHANGED <<items, abandoned>>
                                  /\ OthersStay(r)
                                  /\ worker[r].pc \in {"idle", "pick", "advance"}
        BY <2>6
      <3> QED BY <2>1, <3>1, HasWorkerKept DEF OnItem
    <2>7. CASE \E r \in Replicas : AdvanceNonceState(r) \/ \E j \in Items : ReadFresh(r, j)
      BY <2>6, <2>7, OthersStayPut DEF ReadFresh, AdvanceNonceState, Done
    <2>8. CASE \E r \in Replicas : UNCHANGED items /\ CutOff(r)
      BY <2>1, <2>8, CutOffAbandons, HasWorkerKept
    <2>9. CASE \E r \in Replicas : Crash(r)
      <3>1. PICK r \in Replicas : Crash(r)
        BY <2>9
      <3>2. /\ OthersStay(r) /\ UNCHANGED items
            /\ abandoned \subseteq abandoned'
            /\ i \in abandoned' \/ ~OnItem(r, i)
        BY <3>1, OthersStayPut DEF Crash
      <3> QED BY <2>1, <3>1, <3>2, HasWorkerKept
    <2>10. CASE \E r \in Replicas : RecordSubmission(r) \/ RecordFailure(r)
      <3>1. PICK r \in Replicas : RecordSubmission(r) \/ RecordFailure(r)
        BY <2>10
      <3>2. PICK j : j = worker[r].item
        OBVIOUS
      <3>3. j \in Items /\ worker[r].fresh \in QueueItem
        BY <3>1, <3>2 DEF RecordSubmission, RecordFailure, IInv, WorkersFit, Fits,
                          WorkerType, Tick
      <3>4. i # j /\ items'[i] = items[i]
        <4>1. CASE RecordSubmission(r)
          BY <2>2, <3>2, <3>3, <4>1 DEF RecordSubmission, IInv, ItemsType, QueueItem
        <4>2. CASE RecordFailure(r)
          <5>1. PICK n \in Nat : n = worker[r].fresh.retryCount + 1
            BY <3>3 DEF QueueItem
          <5>2. items' = [items EXCEPT ![j] = AfterFailure(items[j], n)]
            BY <3>2, <4>2, <5>1 DEF RecordFailure
          <5>3. AfterFailure(items[j], n).status \in {"FAILED", "DEAD_LETTER"}
            BY <2>2, <3>3, AfterFailureType
          <5> QED BY <5>2, <5>3 DEF IInv, ItemsType
        <4> QED BY <3>1, <4>1, <4>2
      <3>5. OthersStay(r) /\ UNCHANGED abandoned
        BY <3>1, OthersStayPut DEF RecordSubmission, RecordFailure, Done
      <3> QED BY <2>1, <3>2, <3>4, <3>5, HasWorkerKept DEF OnItem
    <2>11. CASE /\ UNCHANGED <<worker, abandoned>>
                /\ items'[i].status = "PROCESSING" => items[i].status = "PROCESSING"
      BY <2>1, <2>11, HasWorkerKept
    <2>12. CASE World
      <3>1. CASE \E j \in Items : RetryNow(j) \/ CancelWrite(j)
                                  \/ \E n \in ClientNonces : Enqueue(j, n)
        <4>1. PICK j \in Items : RetryNow(j) \/ CancelWrite(j)
                                 \/ \E n \in ClientNonces : Enqueue(j, n)
          BY <3>1
        <4> QED BY <2>2, <2>11, <4>1
                DEF RetryNow, CancelWrite, Enqueue, QueueItem, IInv, ItemsType
      <3>2. CASE \E r \in Replicas, j \in Items : BumpFee(r, j)
        <4>1. PICK r \in Replicas, j \in Items : BumpFee(r, j)
          BY <3>2
        <4> QED BY <2>2, <2>11, <4>1 DEF BumpFee, QueueItem, IInv, ItemsType
      <3>3. CASE \E r \in Replicas : DbErrorOutsideTry(r)
        BY <2>8, <3>3 DEF DbErrorOutsideTry, CutOff
      <3>4. CASE \E r \in Replicas :
                   \/ \E e \in DbErrorClass : DbErrorAfterSubmit(r, e)
                   \/ \E e \in Errors : SubmitRejected(r, e)
        BY <2>4, <3>4 DEF DbErrorAfterSubmit, SubmitRejected
      <3> QED BY <2>3, <2>9, <2>12, <3>1, <3>2, <3>3, <3>4
              DEF World, CancelRead, GetSignerNonceState, PollError
    <2>13. CASE \E r \in Replicas : WorkerStep(r)
      <3>1. PICK r \in Replicas : WorkerStep(r)
        BY <2>13
      <3>2. CASE LoseCreateRace(r)
        BY <2>8, <3>2 DEF LoseCreateRace, CutOff
      <3>3. CASE AllocateNonce(r) \/ CreateNonceState(r) \/ SubmitAccepted(r)
                 \/ RecoverRead(r) \/ RecoverWrite(r)
        <4>1. UNCHANGED items
          BY <3>3 DEF AllocateNonce, CreateNonceState, SubmitAccepted, RecoverRead,
                      RecoverWrite
        <4> QED BY <2>4, <3>3, <4>1
      <3> QED BY <2>5, <2>7, <2>10, <3>1, <3>2, <3>3 DEF WorkerStep
    <2>14. CASE \E r \in Replicas : PollStep(r)
      <3>1. PICK r \in Replicas : PollStep(r)
        BY <2>14
      <3>2. CASE StartPoll(r)
        BY <2>3, <3>2 DEF StartPoll
      <3>3. CASE \E j \in Items : PollItem(r, j)
        <4>1. PICK j \in Items : PollItem(r, j)
          BY <3>3
        <4>2. items'[i].status = "PROCESSING" => items[i].status = "PROCESSING"
          <5>1. poller[r][j].retryCount + 1 \in Nat
            BY <4>1, LooksAtRow DEF PollItem, QueueItem
          <5>2. PICK n \in Nat : n = poller[r][j].retryCount + 1
            BY <5>1
          <5>3. PICK x : x = AfterFailure(items[j], n)
            OBVIOUS
          <5>4. x \in QueueItem /\ x.status \in {"FAILED", "DEAD_LETTER"}
            BY <2>2, <5>3, AfterFailureType
          <5>5. \/ items' = items
                \/ items' = [items EXCEPT ![j] = [x EXCEPT !.result = None]]
                \/ items' = [items EXCEPT ![j].status = "CONFIRMED",
                                          ![j].result = ConfirmedHash(r, j)]
            BY <4>1, <5>2, <5>3 DEF PollItem
          <5> QED BY <2>2, <5>4, <5>5 DEF QueueItem, IInv, ItemsType
        <4>3. UNCHANGED <<worker, abandoned>>
          BY <4>1 DEF PollItem
        <4> QED BY <2>11, <4>2, <4>3
      <3> QED BY <3>1, <3>2, <3>3 DEF PollStep
    <2>15. CASE \E r \in Replicas, batch \in SUBSET Candidates : StartTick(r, batch)
      <3>1. PICK r \in Replicas, batch \in SUBSET Candidates : StartTick(r, batch)
        BY <2>15
      <3>2. OthersStay(r) /\ UNCHANGED <<items, abandoned>> /\ worker[r].pc = "idle"
        BY <3>1, OthersStayPut DEF StartTick
      <3> QED BY <2>6, <3>2
    <2>16. CASE UNCHANGED vars
      BY <2>3, <2>16 DEF vars
    <2> QED BY <2>12, <2>13, <2>14, <2>15, <2>16 DEF Next
  <1> QED BY <1>1, <1>2, IInvHolds, PTL DEF Spec

-----------------------------------------------------------------------------
(* A cancelled item is not taken up by a tick that reads its row later. *)

\* What every worker and every poller read of the rows they work on.
FreshRead == \A r \in Replicas : worker[r].pc \notin {"idle", "pick"} =>
               worker[r].fresh.status \in Retriable
PollRead == \A r \in Replicas : \A i \in DOMAIN poller[r] :
              poller[r][i].status \in {"SUBMITTED", "STUCK"}

LEMMA GoKeepsRead ==
  ASSUME WorkerType, FreshRead, NEW r \in Replicas, NEW w \in Tick, NEW pc,
         Go(r, pc, w), w.fresh.status \in Retriable
  PROVE  FreshRead'
  <1>1. PICK v : v = [w EXCEPT !.pc = pc]
    OBVIOUS
  <1>2. v.fresh = w.fresh
    BY <1>1 DEF Tick
  <1>3. worker' = [worker EXCEPT ![r] = v]
    BY <1>1 DEF Go
  <1>4. worker'[r] = v /\ OthersStay(r)
    BY <1>3 DEF OthersStay, WorkerType
  <1> QED BY <1>2, <1>4 DEF FreshRead, OthersStay

LEMMA RestKeepsRead ==
  ASSUME FreshRead, NEW r \in Replicas, OthersStay(r),
         worker'[r].pc \in {"idle", "pick"}
  PROVE  FreshRead'
  BY DEF FreshRead, OthersStay

LEMMA GoOnWithKeepsRead ==
  ASSUME IInv, FreshRead, NEW r \in Replicas, NEW batch, GoOnWith(r, batch)
  PROVE  FreshRead'
  <1>1. OthersStay(r)
    BY OthersStayPut
  <1>2. PICK w : /\ worker' = [worker EXCEPT ![r] = w]
                 /\ w = IF batch = {} THEN NoTick
                        ELSE [NoTick EXCEPT !.pc = "pick", !.batch = batch]
    BY DEF GoOnWith
  <1>3. w.pc \in {"idle", "pick"}
    BY <1>2 DEF NoTick
  <1>4. worker'[r] = w
    BY <1>2 DEF IInv, WorkerType
  <1> QED BY <1>1, <1>3, <1>4, RestKeepsRead

LEMMA NextKeepsFreshRead ==
  ASSUME IInv, FreshRead, [Next]_vars
  PROVE  FreshRead'
  <1>1. CASE UNCHANGED worker
    BY <1>1 DEF FreshRead
  <1>2. CASE \E r \in Replicas : GoesOn(r)
    BY <1>2 DEF FreshRead, GoesOn, OthersStay
  <1>3. CASE \E r \in Replicas : \E batch : GoOnWith(r, batch)
    BY <1>3, GoOnWithKeepsRead
  <1>4. CASE \E r \in Replicas : CutOff(r) \/ Done(r)
    BY <1>3, <1>4 DEF CutOff, Done
  <1>5. ASSUME NEW r \in Replicas, NEW i \in Items, ReadFresh(r, i)
        PROVE  FreshRead'
    <2>1. PICK x \in Tick : x = worker[r]
      BY DEF IInv, WorkerType
    <2>2. PICK w : w = [x EXCEPT !.batch = x.batch \ {i}, !.item = i, !.fresh = items[i]]
      OBVIOUS
    <2>3. w \in Tick /\ w.fresh = items[i]
      BY <2>1, <2>2 DEF Tick, NoneOr, IInv, ItemsType
    <2>4. \/ items[i].status \in Retriable /\ Go(r, "mark", w)
          \/ GoOnWith(r, x.batch \ {i})
      BY <1>5, <2>1, <2>2 DEF ReadFresh, Go
    <2> QED BY <1>3, <2>3, <2>4, GoKeepsRead DEF IInv
  <1>6. ASSUME NEW r \in Replicas, RecordSubmission(r)
        PROVE  FreshRead'
    <2>1. /\ worker[r] \in Tick /\ worker[r].fresh.status \in Retriable
          /\ Go(r, "advance", worker[r])
      BY <1>6 DEF RecordSubmission, FreshRead, IInv, WorkerType
    <2> QED BY <2>1, GoKeepsRead DEF IInv
  <1>7. ASSUME NEW r \in Replicas, NEW batch \in SUBSET Candidates, StartTick(r, batch)
        PROVE  FreshRead'
    <2>1. OthersStay(r)
      BY <1>7, OthersStayPut
    <2>2. PICK x \in Tick : x = worker[r]
      BY DEF IInv, WorkerType
    <2>3. PICK w : w = [x EXCEPT !.pc = "pick", !.batch = batch]
      OBVIOUS
    <2>4. w.pc = "pick"
      BY <2>2, <2>3 DEF Tick
    <2>5. worker' = [worker EXCEPT ![r] = w]
      BY <1>7, <2>2, <2>3 DEF StartTick
    <2>6. worker'[r] = w
      BY <2>5 DEF IInv, WorkerType
    <2> QED BY <2>1, <2>4, <2>6, RestKeepsRead
  <1>8. ASSUME NEW r \in Replicas, Crash(r)
        PROVE  FreshRead'
    <2>1. OthersStay(r)
      BY <1>8, OthersStayPut
    <2>2. worker'[r] = NoTick
      BY <1>8 DEF Crash, IInv, WorkerType
    <2> QED BY <2>1, <2>2, RestKeepsRead DEF NoTick
  <1>9. CASE World
    BY <1>1, <1>2, <1>4, <1>8, <1>9, StepsGoOn
       DEF World, RetryNow, CancelRead, CancelWrite, Enqueue, GetSignerNonceState,
           DbErrorOutsideTry, BumpFee, PollError
  <1>10. CASE \E r \in Replicas : WorkerStep(r)
    <2>1. PICK r \in Replicas : WorkerStep(r)
      BY <1>10
    <2>2. CASE LoseCreateRace(r) \/ AdvanceNonceState(r) \/ RecordFailure(r)
      BY <1>4, <2>2 DEF LoseCreateRace, AdvanceNonceState, RecordFailure
    <2>3. CASE \/ MarkProcessing(r) \/ AllocateNonce(r) \/ CreateNonceState(r)
               \/ SubmitAccepted(r) \/ RecoverRead(r) \/ RecoverWrite(r)
      BY <1>2, <2>3, StepsGoOn
    <2> QED BY <1>5, <1>6, <2>1, <2>2, <2>3 DEF WorkerStep
  <1>11. CASE \E r \in Replicas : PollStep(r)
    BY <1>1, <1>11 DEF PollStep, StartPoll, PollItem
  <1>12. CASE \E r \in Replicas, batch \in SUBSET Candidates : StartTick(r, batch)
    BY <1>7, <1>12
  <1>13. CASE UNCHANGED vars
    BY <1>1, <1>13 DEF vars
  <1> QED BY <1>9, <1>10, <1>11, <1>12, <1>13 DEF Next

LEMMA LooksAtKeepsRead ==
  ASSUME IInv, PollRead, NEW r \in Replicas, NEW i \in Items, LooksAt(r, i)
  PROVE  PollRead'
  <1>1. PICK old : old = poller[r]
    OBVIOUS
  <1>2. PICK p : p = [j \in DOMAIN old \ {i} |-> old[j]]
    OBVIOUS
  <1>3. poller' = [poller EXCEPT ![r] = p]
    BY <1>1, <1>2 DEF LooksAt
  <1>4. /\ poller'[r] = p
        /\ \A q \in Replicas \ {r} : poller'[q] = poller[q]
    BY <1>3 DEF IInv, PollersFit
  <1>5. \A j \in DOMAIN p : p[j].status \in {"SUBMITTED", "STUCK"}
    BY <1>1, <1>2 DEF PollRead
  <1> QED BY <1>4, <1>5 DEF PollRead

LEMMA NextKeepsPollRead ==
  ASSUME IInv, PollRead, [Next]_vars
  PROVE  PollRead'
  <1>1. CASE UNCHANGED poller
    BY <1>1 DEF PollRead
  <1>2. CASE \E r \in Replicas, i \in Items : LooksAt(r, i)
    BY <1>2, LooksAtKeepsRead
  <1>3. ASSUME NEW r \in Replicas, NEW p, poller' = [poller EXCEPT ![r] = p],
               \A j \in DOMAIN p : p[j].status \in {"SUBMITTED", "STUCK"}
        PROVE  PollRead'
    <2>1. /\ poller'[r] = p
          /\ \A q \in Replicas \ {r} : poller'[q] = poller[q]
      BY <1>3 DEF IInv, PollersFit
    <2> QED BY <1>3, <2>1 DEF PollRead
  <1>4. ASSUME NEW r \in Replicas, Crash(r)
        PROVE  PollRead'
    <2>1. poller' = [poller EXCEPT ![r] = <<>>] /\ DOMAIN <<>> = {}
      BY <1>4 DEF Crash
    <2> QED BY <1>3, <2>1
  <1>5. ASSUME NEW r \in Replicas, StartPoll(r)
        PROVE  PollRead'
    <2>1. PICK p : p = [i \in Polling |-> items[i]]
      OBVIOUS
    <2>2. \A j \in DOMAIN p : p[j].status \in {"SUBMITTED", "STUCK"}
      BY <2>1 DEF Polling
    <2>3. poller' = [poller EXCEPT ![r] = p]
      BY <1>5, <2>1 DEF StartPoll
    <2> QED BY <1>3, <2>2, <2>3
  <1>6. CASE World
    BY <1>1, <1>2, <1>4, <1>6
       DEF World, RetryNow, CancelRead, CancelWrite, Enqueue, GetSignerNonceState,
           DbErrorOutsideTry, CutOff, DbErrorAfterSubmit, SubmitRejected, BumpFee,
           PollError
  <1>7. CASE \E r \in Replicas : WorkerStep(r)
    BY <1>1, <1>7
       DEF WorkerStep, ReadFresh, MarkProcessing, AllocateNonce, CreateNonceState,
           LoseCreateRace, CutOff, SubmitAccepted, RecordSubmission,
           AdvanceNonceState, RecoverRead, RecoverWrite, RecordFailure
  <1>8. CASE \E r \in Replicas : PollStep(r)
    BY <1>2, <1>5, <1>8 DEF PollStep, PollItem
  <1>9. CASE \E r \in Replicas, batch \in SUBSET Candidates : StartTick(r, batch)
    BY <1>1, <1>9 DEF StartTick
  <1>10. CASE UNCHANGED vars
    BY <1>1, <1>10 DEF vars
  <1> QED BY <1>6, <1>7, <1>8, <1>9, <1>10 DEF Next

\* The step that takes up the cancelled item i.
TakesUp(i) ==
  \/ items'[i].status = "QUEUED"
  \/ \E r \in Replicas :
       \/ worker[r].item = i /\ worker[r].fresh.status \in Retriable
       \/ i \in DOMAIN poller[r] /\ poller[r][i].status \in {"SUBMITTED", "STUCK"}

LEMMA CancelledKept ==
  ASSUME IInv, FreshRead, PollRead, [Next]_vars, NEW i \in Items,
         items[i].status = "CANCELLED", items'[i].status # "CANCELLED"
  PROVE  TakesUp(i)
  <1>1. ~ UNCHANGED items
    OBVIOUS
  <1>2. \A j \in Items : items[j] \in QueueItem
    BY DEF IInv, ItemsType
  <1>3. ASSUME NEW r \in Replicas,
               MarkProcessing(r) \/ RecordSubmission(r) \/ RecordFailure(r)
        PROVE  TakesUp(i)
    <2>1. worker[r].fresh.status \in Retriable
      BY <1>3 DEF MarkProcessing, RecordSubmission, RecordFailure, FreshRead
    <2>2. CASE worker[r].item # i
      BY <1>3, <2>2 DEF MarkProcessing, RecordSubmission, RecordFailure, IInv, ItemsType
    <2> QED BY <2>1, <2>2 DEF TakesUp
  <1>4. ASSUME NEW r \in Replicas, NEW j \in Items, PollItem(r, j) \/ BumpFee(r, j)
        PROVE  TakesUp(i)
    <2>1. j \in DOMAIN poller[r]
      BY <1>4 DEF PollItem, BumpFee, LooksAt
    <2>2. CASE j # i
      BY <1>4, <2>2 DEF PollItem, BumpFee, IInv, ItemsType
    <2> QED BY <2>1, <2>2 DEF TakesUp, PollRead
  <1>5. ASSUME NEW j \in Items, RetryNow(j) \/ CancelWrite(j)
                                \/ \E n \in ClientNonces : Enqueue(j, n)
        PROVE  TakesUp(i)
    <2>1. CASE j # i
      BY <1>5, <2>1 DEF RetryNow, CancelWrite, Enqueue, IInv, ItemsType
    <2>2. CASE j = i
      BY <1>2, <1>5, <2>2 DEF RetryNow, CancelWrite, Enqueue, TakesUp, IInv, ItemsType,
                              QueueItem
    <2> QED BY <2>1, <2>2
  <1>6. CASE World
    BY <1>1, <1>4, <1>5, <1>6
       DEF World, CancelRead, GetSignerNonceState, DbErrorOutsideTry, CutOff,
           DbErrorAfterSubmit, SubmitRejected, PollError, Crash
  <1>7. CASE \E r \in Replicas : WorkerStep(r)
    BY <1>1, <1>3, <1>7
       DEF WorkerStep, ReadFresh, AllocateNonce, CreateNonceState, LoseCreateRace,
           CutOff, SubmitAccepted, AdvanceNonceState, RecoverRead, RecoverWrite
  <1>8. CASE \E r \in Replicas : PollStep(r)
    BY <1>1, <1>4, <1>8 DEF PollStep, StartPoll
  <1>9. CASE \E r \in Replicas, batch \in SUBSET Candidates : StartTick(r, batch)
    BY <1>1, <1>9 DEF StartTick
  <1>10. CASE UNCHANGED vars
    BY <1>1, <1>10 DEF vars
  <1> QED BY <1>6, <1>7, <1>8, <1>9, <1>10 DEF Next

\* A cancelled item is taken up again only by retryNow or by a tick that read its
\* row before the cancellation (processSingleItem reads the row again).
THEOREM CancelledStaysHolds == Spec => CancelledStays
  <1>1. Init => FreshRead /\ PollRead
    BY DEF Init, FreshRead, PollRead, NoTick
  <1>2. IInv /\ FreshRead /\ PollRead /\ [Next]_vars => (FreshRead /\ PollRead)'
    BY NextKeepsFreshRead, NextKeepsPollRead
  <1>3. IInv /\ FreshRead /\ PollRead /\ [Next]_vars =>
          [\A i \in Items :
             items[i].status = "CANCELLED" /\ items'[i].status # "CANCELLED" =>
               TakesUp(i)]_vars
    BY CancelledKept
  <1> QED BY <1>1, <1>2, <1>3, IInvHolds, PTL DEF Spec, CancelledStays, TakesUp

-----------------------------------------------------------------------------
(* One replica: its worker is alone between reading a row and writing it. *)

\* What the steps make of the rows, for any number of replicas.
RowMoves(i) ==
  /\ items'[i].status = "ABSENT" => items[i].status = "ABSENT"
  /\ items'[i].retryCount = 0 => items[i].retryCount = 0
  /\ \/ items'[i].nonce = items[i].nonce /\ items'[i].txHash = items[i].txHash
     \/ /\ items[i].status = "ABSENT"
        /\ items'[i].nonce \in ClientNonces
        /\ items'[i].txHash = items[i].txHash
     \/ \E r \in Replicas : RecordSubmission(r) /\ worker[r].item = i

LEMMA FailureMovesRow ==
  ASSUME IInv, NEW i \in Items, NEW j \in Items, NEW n \in Nat,
         \/ items' = [items EXCEPT ![j] = AfterFailure(@, n + 1)]
         \/ items' = [items EXCEPT ![j] = [AfterFailure(@, n + 1) EXCEPT !.result = None]]
  PROVE  RowMoves(i)
  <1>1. CASE i # j
    <2>1. items'[i] = items[i]
      BY <1>1 DEF IInv, ItemsType
    <2> QED BY <2>1 DEF RowMoves
  <1>2. CASE i = j
    <2>1. PICK old \in QueueItem : old = items[i]
      BY DEF IInv, ItemsType
    <2>2. PICK m \in Nat : m = n + 1 /\ m # 0
      OBVIOUS
    <2>3. PICK x : x = AfterFailure(old, m)
      OBVIOUS
    <2>4. /\ x.nonce = old.nonce /\ x.txHash = old.txHash /\ x.retryCount = m
          /\ x.status \in {"FAILED", "DEAD_LETTER"} /\ x \in QueueItem
      BY <2>3 DEF AfterFailure, QueueItem, QueueStatus
    <2>5. items'[i] = x \/ items'[i] = [x EXCEPT !.result = None]
      BY <1>2, <2>1, <2>2, <2>3 DEF IInv, ItemsType
    <2>6. /\ items'[i].nonce = x.nonce /\ items'[i].txHash = x.txHash
          /\ items'[i].retryCount = x.retryCount /\ items'[i].status = x.status
      BY <2>4, <2>5 DEF QueueItem
    <2> QED BY <2>1, <2>2, <2>4, <2>6 DEF RowMoves
  <1> QED BY <1>1, <1>2

LEMMA NextMovesRows ==
  ASSUME IInv, [Next]_vars, NEW i \in Items
  PROVE  RowMoves(i)
  <1>1. CASE UNCHANGED items
    BY <1>1 DEF RowMoves
  <1>2. \A j \in Items : items[j] \in QueueItem
    BY DEF IInv, ItemsType
  <1>3. CASE \E j \in Items, status \in QueueStatus \ {"ABSENT"} :
               items' = [items EXCEPT ![j].status = status]
    BY <1>2, <1>3 DEF RowMoves, QueueItem, IInv, ItemsType
  <1>4. ASSUME NEW j \in Items, NEW n \in ClientNonces, Enqueue(j, n)
        PROVE  RowMoves(i)
    BY <1>2, <1>4 DEF Enqueue, RowMoves, QueueItem, IInv, ItemsType
  <1>5. ASSUME NEW r \in Replicas, RecordSubmission(r)
        PROVE  RowMoves(i)
    BY <1>2, <1>5 DEF RecordSubmission, RowMoves, QueueItem, IInv, ItemsType
  <1>6. ASSUME NEW r \in Replicas, RecordFailure(r)
        PROVE  RowMoves(i)
    <2>1. worker[r].item \in Items /\ worker[r].fresh.retryCount \in Nat
      BY <1>6 DEF RecordFailure, IInv, WorkersFit, Fits, WorkerType, Tick, QueueItem
    <2> QED BY <1>6, <2>1, FailureMovesRow DEF RecordFailure
  <1>7. ASSUME NEW r \in Replicas, NEW j \in Items, PollItem(r, j)
        PROVE  RowMoves(i)
    <2>1. poller[r][j].retryCount \in Nat
      BY <1>7, LooksAtRow DEF PollItem, QueueItem
    <2>2. CASE Status(r, poller[r][j].txHash) = "FAILED"
      <3>1. items' = [items EXCEPT ![j] =
                        [AfterFailure(@, poller[r][j].retryCount + 1) EXCEPT !.result = None]]
        BY <1>7, <2>2 DEF PollItem
      <3> QED BY <2>1, <3>1, FailureMovesRow
    <2>3. CASE Status(r, poller[r][j].txHash) = "CONFIRMED"
      <3>1. PICK t : items' = [items EXCEPT ![j].status = "CONFIRMED", ![j].result = t]
        BY <1>7, <2>3 DEF PollItem
      <3> QED BY <1>2, <3>1 DEF RowMoves, QueueItem, IInv, ItemsType
    <2>4. CASE Status(r, poller[r][j].txHash) \notin {"CONFIRMED", "FAILED"}
      BY <1>1, <1>7, <2>4 DEF PollItem
    <2> QED BY <2>2, <2>3, <2>4
  <1>8. CASE World
    <2>1. CASE \E j \in Items : RetryNow(j) \/ CancelWrite(j)
                                \/ \E r \in Replicas : BumpFee(r, j)
      BY <1>3, <2>1 DEF RetryNow, CancelWrite, BumpFee, QueueStatus
    <2> QED BY <1>1, <1>4, <1>8, <2>1
            DEF World, CancelRead, GetSignerNonceState, DbErrorOutsideTry, CutOff,
                DbErrorAfterSubmit, SubmitRejected, PollError, Crash
  <1>9. CASE \E r \in Replicas : WorkerStep(r)
    <2>1. ASSUME NEW r \in Replicas, MarkProcessing(r) PROVE RowMoves(i)
      <3>1. worker[r].item \in Items
        BY <2>1 DEF MarkProcessing, IInv, WorkersFit, Fits
      <3> QED BY <1>3, <2>1, <3>1 DEF MarkProcessing, QueueStatus
    <2> QED BY <1>1, <1>5, <1>6, <1>9, <2>1
            DEF WorkerStep, ReadFresh, AllocateNonce, CreateNonceState, LoseCreateRace,
                CutOff, SubmitAccepted, AdvanceNonceState, RecoverRead, RecoverWrite
  <1>10. CASE \E r \in Replicas : PollStep(r)
    BY <1>1, <1>7, <1>10 DEF PollStep, StartPoll
  <1>11. CASE \E r \in Replicas, batch \in SUBSET Candidates : StartTick(r, batch)
    BY <1>1, <1>11 DEF StartTick
  <1>12. CASE UNCHANGED vars
    BY <1>1, <1>12 DEF vars
  <1> QED BY <1>8, <1>9, <1>10, <1>11, <1>12 DEF Next

\* Only a submission lengthens the table, by the worker's transaction.
LEMMA OnlySubmitting ==
  ASSUME IInv, [Next]_vars, ~(\E r \in Replicas : SubmitAccepted(r))
  PROVE  Submitted' = Submitted
  <1>1. ASSUME UNCHANGED txs PROVE Submitted' = Submitted
    BY <1>1 DEF Submitted
  <1>2. ASSUME NEW t, NEW u, txs' = [txs EXCEPT ![t] = u] PROVE Submitted' = Submitted
    <2>1. DOMAIN txs' = DOMAIN txs /\ txs \in Seq(Transaction) /\ txs' \in Seq(Transaction)
      BY <1>2, NextGrows DEF IInv, TxsType, TableGrows
    <2> QED BY <2>1, LenProperties DEF Submitted
  <1>3. ASSUME NEW r \in Replicas, NEW t, Polled(r, t) \/ PolledAndBumped(r, t)
        PROVE  Submitted' = Submitted
    BY <1>1, <1>2, <1>3 DEF Polled, PolledAndBumped
  <1>4. ASSUME NEW r \in Replicas, Crash(r) PROVE Submitted' = Submitted
    <2>1. DOMAIN txs' = Submitted /\ txs' \in Seq(Transaction)
      BY <1>4, NextGrows DEF Crash, Lost, TableGrows, TxsType
    <2> QED BY <2>1, LenProperties DEF Submitted
  <1>5. CASE World
    BY <1>1, <1>3, <1>4, <1>5
       DEF World, RetryNow, CancelRead, CancelWrite, Enqueue, GetSignerNonceState,
           DbErrorOutsideTry, CutOff, DbErrorAfterSubmit, SubmitRejected, BumpFee, PollError
  <1>6. CASE \E r \in Replicas : WorkerStep(r)
    BY <1>1, <1>6
       DEF WorkerStep, ReadFresh, MarkProcessing, AllocateNonce, CreateNonceState,
           LoseCreateRace, CutOff, RecordSubmission, AdvanceNonceState, RecoverRead,
           RecoverWrite, RecordFailure
  <1>7. CASE \E r \in Replicas : PollStep(r)
    BY <1>1, <1>3, <1>7 DEF PollStep, StartPoll, PollItem
  <1>8. CASE \E r \in Replicas, batch \in SUBSET Candidates : StartTick(r, batch)
    BY <1>1, <1>8 DEF StartTick
  <1>9. CASE UNCHANGED vars
    BY <1>1, <1>9 DEF vars
  <1> QED BY <1>5, <1>6, <1>7, <1>8, <1>9 DEF Next

\* The step of the only replica's worker, if it makes one.
LEMMA OneReplicaMoves ==
  ASSUME [Next]_vars, NEW r, Replicas = {r}
  PROVE  \/ UNCHANGED <<worker, nextNonce>>
         \/ \E s \in Signers : GetSignerNonceState(s)
         \/ \E batch \in SUBSET Candidates : StartTick(r, batch)
         \/ \E i \in Items : ReadFresh(r, i)
         \/ MarkProcessing(r) \/ AllocateNonce(r) \/ CreateNonceState(r)
         \/ SubmitAccepted(r) \/ \E e \in Errors : SubmitRejected(r, e)
         \/ RecordSubmission(r) \/ AdvanceNonceState(r) \/ \E e \in DbErrorClass : DbErrorAfterSubmit(r, e)
         \/ RecoverRead(r) \/ RecoverWrite(r) \/ RecordFailure(r)
         \/ LoseCreateRace(r) \/ DbErrorOutsideTry(r) \/ Crash(r)
  <1>1. CASE World
    BY <1>1 DEF World, RetryNow, CancelRead, CancelWrite, Enqueue, BumpFee, PollError
  <1>2. CASE PollStep(r)
    BY <1>2 DEF PollStep, StartPoll, PollItem
  <1>3. CASE UNCHANGED vars
    BY <1>3 DEF vars
  <1> QED BY <1>1, <1>2, <1>3 DEF Next, WorkerStep

\* The worker that went on to pc with the fields of w.
LEMMA WentOn ==
  ASSUME WorkerType, NEW r \in Replicas, NEW w \in Tick, NEW pc, Go(r, pc, w)
  PROVE  /\ worker'[r].pc = pc /\ worker'[r].item = w.item
         /\ worker'[r].fresh = w.fresh /\ worker'[r].nonce = w.nonce
         /\ worker'[r].tx = w.tx
  <1>1. PICK v : v = [w EXCEPT !.pc = pc]
    OBVIOUS
  <1>2. /\ v.pc = pc /\ v.item = w.item /\ v.fresh = w.fresh
        /\ v.nonce = w.nonce /\ v.tx = w.tx
    BY <1>1 DEF Tick
  <1>3. worker'[r] = v
    BY <1>1 DEF Go, WorkerType
  <1> QED BY <1>2, <1>3

\* Where a step leaves the worker that goes on with its item.
LEMMA WorkerAfter ==
  ASSUME IInv, NEW r \in Replicas
  PROVE  LET w == worker[r]
             v == worker'[r]
             same == v.item = w.item /\ v.fresh = w.fresh IN
         /\ MarkProcessing(r) => v.pc = "allocate" /\ same
         /\ AllocateNonce(r) =>
              LET n == Allocation(w.fresh, w.item) IN
              /\ same
              /\ \/ v.pc = "create" /\ n = None
                 \/ v.pc = "submit" /\ n # None /\ v.nonce = n
         /\ CreateNonceState(r) => v.pc = "submit" /\ v.nonce = 0 /\ same
         /\ SubmitAccepted(r) =>
              v.pc = "record" /\ v.nonce = w.nonce /\ v.tx = Len(txs) + 1 /\ same
         /\ \A e \in Errors : SubmitRejected(r, e) => v.pc \in {"recover", "fail"} /\ same
         /\ RecordSubmission(r) =>
              v.pc = "advance" /\ v.nonce = w.nonce /\ v.tx = w.tx /\ same
         /\ RecoverRead(r) => v.pc = "rewind" /\ same
         /\ RecoverWrite(r) => v.pc = "fail" /\ same
         /\ \A e \in DbErrorClass :
              DbErrorAfterSubmit(r, e) => v.pc \in {"recover", "fail"} /\ same
  <1>1. PICK x \in Tick : x = worker[r]
    BY DEF IInv, WorkerType
  <1>2. WorkerType
    BY DEF IInv
  <1>3. ASSUME MarkProcessing(r)
        PROVE  worker'[r].pc = "allocate" /\ worker'[r].item = x.item
               /\ worker'[r].fresh = x.fresh
    BY <1>1, <1>2, <1>3, WentOn DEF MarkProcessing
  <1>4. ASSUME AllocateNonce(r)
        PROVE  LET n == Allocation(x.fresh, x.item) IN
               /\ worker'[r].item = x.item /\ worker'[r].fresh = x.fresh
               /\ \/ worker'[r].pc = "create" /\ n = None
                  \/ worker'[r].pc = "submit" /\ n # None /\ worker'[r].nonce = n
    <2>1. PICK n : n = Allocation(x.fresh, x.item)
      OBVIOUS
    <2>2. PICK w : w = [x EXCEPT !.nonce = n]
      OBVIOUS
    <2>3. n \in NoneOr(Nat)
      <3>1. x.item \in Items
        BY <1>1, <1>4 DEF AllocateNonce, IInv, WorkersFit, Fits
      <3> QED BY <1>1, <2>1, <3>1, QueueAssumption
              DEF Allocation, Tick, QueueItem, NoneOr, IInv, NonceType
    <2>4. /\ w \in Tick /\ w.item = x.item /\ w.fresh = x.fresh /\ w.nonce = n
      BY <1>1, <2>2, <2>3 DEF Tick
    <2>5. \/ n = None /\ Go(r, "create", x)
          \/ n # None /\ Go(r, "submit", w)
      BY <1>1, <1>4, <2>1, <2>2 DEF AllocateNonce, Go
    <2> QED BY <1>2, <2>1, <2>4, <2>5, WentOn
  <1>5. ASSUME CreateNonceState(r)
        PROVE  /\ worker'[r].pc = "submit" /\ worker'[r].nonce = 0
               /\ worker'[r].item = x.item /\ worker'[r].fresh = x.fresh
    <2>1. PICK w : w = [x EXCEPT !.nonce = 0]
      OBVIOUS
    <2>2. w \in Tick /\ w.item = x.item /\ w.fresh = x.fresh /\ w.nonce = 0
      BY <1>1, <2>1 DEF Tick, NoneOr
    <2>3. Go(r, "submit", w)
      BY <1>1, <1>5, <2>1 DEF CreateNonceState, Go
    <2> QED BY <1>2, <2>2, <2>3, WentOn
  <1>6. ASSUME SubmitAccepted(r)
        PROVE  /\ worker'[r].pc = "record" /\ worker'[r].nonce = x.nonce
               /\ worker'[r].tx = Len(txs) + 1
               /\ worker'[r].item = x.item /\ worker'[r].fresh = x.fresh
    <2>1. PICK t \in Nat : t = Len(txs) + 1
      BY LenProperties DEF IInv, TxsType
    <2>2. PICK w : w = [x EXCEPT !.tx = t]
      OBVIOUS
    <2>3. /\ w \in Tick /\ w.item = x.item /\ w.fresh = x.fresh
          /\ w.nonce = x.nonce /\ w.tx = t
      BY <1>1, <2>2 DEF Tick, NoneOr
    <2>4. Go(r, "record", w)
      BY <1>1, <1>6, <2>1, <2>2 DEF SubmitAccepted, Go
    <2> QED BY <1>2, <2>1, <2>3, <2>4, WentOn
  <1>7. ASSUME NEW e \in Errors, SubmitRejected(r, e)
        PROVE  /\ worker'[r].pc \in {"recover", "fail"}
               /\ worker'[r].item = x.item /\ worker'[r].fresh = x.fresh
    <2>1. PICK w : w = [x EXCEPT !.error = e]
      OBVIOUS
    <2>2. w \in Tick /\ w.item = x.item /\ w.fresh = x.fresh
      BY <1>1, <2>1, QueueAssumption DEF Tick, NoneOr
    <2>3. Go(r, "fail", w) \/ Go(r, "recover", w)
      BY <1>1, <1>7, <2>1 DEF SubmitRejected, ToFailure, Go
    <2> QED BY <1>2, <2>2, <2>3, WentOn
  <1>8. ASSUME RecordSubmission(r)
        PROVE  /\ worker'[r].pc = "advance" /\ worker'[r].nonce = x.nonce
               /\ worker'[r].tx = x.tx
               /\ worker'[r].item = x.item /\ worker'[r].fresh = x.fresh
    BY <1>1, <1>2, <1>8, WentOn DEF RecordSubmission
  <1>9. ASSUME RecoverRead(r)
        PROVE  /\ worker'[r].pc = "rewind"
               /\ worker'[r].item = x.item /\ worker'[r].fresh = x.fresh
    <2>1. PICK n : n = nextNonce[SignerOf[x.item]]
      OBVIOUS
    <2>2. n \in NoneOr(Nat)
      <3>1. x.item \in Items
        BY <1>1, <1>9 DEF RecoverRead, IInv, WorkersFit, Fits
      <3> QED BY <2>1, <3>1, QueueAssumption DEF IInv, NonceType
    <2>3. PICK w : w = [x EXCEPT !.seen = n]
      OBVIOUS
    <2>4. w \in Tick /\ w.item = x.item /\ w.fresh = x.fresh
      BY <1>1, <2>2, <2>3 DEF Tick
    <2>5. Go(r, "rewind", w)
      BY <1>1, <1>9, <2>1, <2>3 DEF RecoverRead, Go
    <2> QED BY <1>2, <2>4, <2>5, WentOn
  <1>10. ASSUME RecoverWrite(r)
         PROVE  /\ worker'[r].pc = "fail"
                /\ worker'[r].item = x.item /\ worker'[r].fresh = x.fresh
    BY <1>1, <1>2, <1>10, WentOn DEF RecoverWrite
  <1>11. ASSUME NEW e \in DbErrorClass, DbErrorAfterSubmit(r, e)
         PROVE  /\ worker'[r].pc \in {"recover", "fail"}
                /\ worker'[r].item = x.item /\ worker'[r].fresh = x.fresh
    <2>1. PICK w : w = [x EXCEPT !.error = e]
      OBVIOUS
    <2>2. w \in Tick /\ w.item = x.item /\ w.fresh = x.fresh
      BY <1>1, <2>1 DEF Tick, NoneOr, ErrorClass, DbErrorClass
    <2>3. Go(r, "fail", w) \/ Go(r, "recover", w)
      BY <1>1, <1>11, <2>1 DEF DbErrorAfterSubmit, ToFailure, Go
    <2> QED BY <1>2, <2>2, <2>3, WentOn
  <1> QED BY <1>1, <1>3, <1>4, <1>5, <1>6, <1>7, <1>8, <1>9, <1>10, <1>11

\* The steps after which the worker is on no item.
LEMMA WorkerAtRest ==
  ASSUME IInv, NEW r \in Replicas,
         \/ \E batch : StartTick(r, batch) \/ GoOnWith(r, batch)
         \/ Done(r) \/ CutOff(r) \/ Crash(r)
  PROVE  worker'[r].pc \in {"idle", "pick"}
  <1>1. ASSUME NEW batch, GoOnWith(r, batch)
        PROVE  worker'[r].pc \in {"idle", "pick"}
    <2>1. PICK w : w = IF batch = {} THEN NoTick
                       ELSE [NoTick EXCEPT !.pc = "pick", !.batch = batch]
      OBVIOUS
    <2>2. w.pc \in {"idle", "pick"}
      BY <2>1 DEF NoTick
    <2>3. worker'[r] = w
      BY <1>1, <2>1 DEF GoOnWith, IInv, WorkerType
    <2> QED BY <2>2, <2>3
  <1>2. ASSUME NEW batch, StartTick(r, batch)
        PROVE  worker'[r].pc \in {"idle", "pick"}
    BY <1>2 DEF StartTick, IInv, WorkerType, Tick
  <1>3. ASSUME Crash(r) PROVE worker'[r].pc \in {"idle", "pick"}
    BY <1>3 DEF Crash, NoTick, IInv, WorkerType
  <1> QED BY <1>1, <1>2, <1>3 DEF Done, CutOff

\* A worker that takes up an item.
LEMMA WorkerTakesUp ==
  ASSUME IInv, NEW r \in Replicas, NEW i \in Items, ReadFresh(r, i)
  PROVE  \/ worker'[r].pc \in {"idle", "pick"}
         \/ /\ worker'[r].pc = "mark" /\ worker'[r].item = i
            /\ worker'[r].fresh = items[i] /\ items[i].status \in Retriable
  <1>1. PICK x \in Tick : x = worker[r]
    BY DEF IInv, WorkerType
  <1>2. PICK w : w = [x EXCEPT !.batch = x.batch \ {i}, !.item = i, !.fresh = items[i]]
    OBVIOUS
  <1>3. w \in Tick /\ w.item = i /\ w.fresh = items[i]
    BY <1>1, <1>2 DEF Tick, NoneOr, IInv, ItemsType
  <1>4. \/ items[i].status \in Retriable /\ Go(r, "mark", w)
        \/ GoOnWith(r, x.batch \ {i})
    BY <1>1, <1>2 DEF ReadFresh, Go
  <1> QED BY <1>3, <1>4, WentOn, WorkerAtRest DEF IInv

-----------------------------------------------------------------------------
(* One replica: all transactions recorded for an item have its nonce. *)

\* What the worker of r knows of the nonce of its item.
KnownNonce(r) ==
  LET w == worker[r] IN
  /\ w.pc \notin {"idle", "pick"} => items[w.item].status # "ABSENT"
  /\ w.pc \in {"mark", "allocate", "create"} => w.fresh.nonce = items[w.item].nonce
  /\ w.pc = "create" => w.fresh.nonce = None
  /\ w.pc \in {"submit", "record"} => items[w.item].nonce \in {None, w.nonce}

RowOfEach == \A t \in Submitted : items[txs[t].item].status # "ABSENT"

\* A recorded transaction has the nonce that is in its item's row now.
RecordedFits == \A t \in recorded : txs[t].nonce = items[txs[t].item].nonce

LEMMA ItemOf ==
  ASSUME IInv, NEW t \in Submitted
  PROVE  txs[t].item \in Items /\ txs[t].nonce \in Nat
  <1>1. txs[t] \in Transaction
    BY ElementOfSeq DEF IInv, TxsType, Submitted
  <1> QED BY <1>1 DEF Transaction

\* The row of the item the worker is on, in the steps that do not record.
LEMMA RowStays ==
  ASSUME IInv, [Next]_vars, NEW r, Replicas = {r}, KnownNonce(r),
         worker[r].pc \notin {"idle", "pick", "record"}
  PROVE  /\ items'[worker[r].item].nonce = items[worker[r].item].nonce
         /\ items'[worker[r].item].status # "ABSENT"
  <1>1. worker[r].item \in Items
    BY DEF IInv, WorkersFit, Fits
  <1>2. items[worker[r].item].status # "ABSENT"
    BY DEF KnownNonce
  <1>3. ~ RecordSubmission(r)
    BY DEF RecordSubmission
  <1> QED BY <1>1, <1>2, <1>3, NextMovesRows DEF RowMoves

LEMMA KnownNonceKept ==
  ASSUME IInv, [Next]_vars, NEW r, Replicas = {r}, KnownNonce(r)
  PROVE  KnownNonce(r)'
  <1>1. PICK i : i = worker[r].item
    OBVIOUS
  <1>2. r \in Replicas
    OBVIOUS
  <1>3. ASSUME NEW j \in Items, items[j].status # "ABSENT"
        PROVE  items'[j].status # "ABSENT"
    BY <1>3, NextMovesRows DEF RowMoves
  <1>4. worker[r].pc \notin {"idle", "pick"} =>
          i \in Items /\ items[i].status # "ABSENT" /\ items'[i].status # "ABSENT"
    BY <1>1, <1>2, <1>3 DEF KnownNonce, IInv, WorkersFit, Fits
  <1>5. ~RecordSubmission(r) /\ worker[r].pc \notin {"idle", "pick"} =>
          items'[i].nonce = items[i].nonce
    BY <1>1, <1>4, NextMovesRows DEF RowMoves
  <1>6. CASE UNCHANGED worker
    <2>1. ~RecordSubmission(r)
      <3>1. RecordSubmission(r) => worker[r].pc = "record" /\ worker'[r].pc = "advance"
        BY <1>2, WorkerAfter DEF RecordSubmission
      <3> QED BY <1>6, <3>1
    <2> QED BY <1>1, <1>4, <1>5, <1>6, <2>1 DEF KnownNonce
  <1>7. CASE worker'[r].pc \in {"idle", "pick"}
    BY <1>7 DEF KnownNonce
  <1>8. ASSUME NEW j \in Items, ReadFresh(r, j) PROVE KnownNonce(r)'
    <2>1. CASE worker'[r].pc = "mark" /\ worker'[r].item = j
               /\ worker'[r].fresh = items[j] /\ items[j].status \in Retriable
      <3>1. items'[j] = items[j] /\ items[j].status # "ABSENT"
        BY <1>8, <2>1 DEF ReadFresh, Retriable
      <3> QED BY <2>1, <3>1 DEF KnownNonce
    <2> QED BY <1>2, <1>7, <1>8, <2>1, WorkerTakesUp
  <1>9. ASSUME MarkProcessing(r) PROVE KnownNonce(r)'
    <2>1. /\ worker'[r].pc = "allocate" /\ worker'[r].item = i
          /\ worker'[r].fresh = worker[r].fresh
      BY <1>1, <1>2, <1>9, WorkerAfter
    <2>2. worker[r].pc = "mark" /\ ~RecordSubmission(r)
      BY <1>9 DEF MarkProcessing, RecordSubmission
    <2> QED BY <1>1, <1>4, <1>5, <2>1, <2>2 DEF KnownNonce
  <1>10. ASSUME AllocateNonce(r) PROVE KnownNonce(r)'
    <2>1. PICK n : n = Allocation(worker[r].fresh, i)
      OBVIOUS
    <2>2. /\ worker'[r].item = i /\ worker'[r].fresh = worker[r].fresh
          /\ \/ worker'[r].pc = "create" /\ n = None
             \/ worker'[r].pc = "submit" /\ n # None /\ worker'[r].nonce = n
      BY <1>1, <1>2, <1>10, <2>1, WorkerAfter
    <2>3. worker[r].pc = "allocate" /\ ~RecordSubmission(r)
      BY <1>10 DEF AllocateNonce, RecordSubmission
    <2>4. worker[r].fresh.nonce \in {None, n} /\ (n = None => worker[r].fresh.nonce = None)
      BY <2>1 DEF Allocation
    <2> QED BY <1>1, <1>4, <1>5, <2>2, <2>3, <2>4 DEF KnownNonce
  <1>11. ASSUME CreateNonceState(r) PROVE KnownNonce(r)'
    <2>1. worker'[r].pc = "submit" /\ worker'[r].item = i
      BY <1>1, <1>2, <1>11, WorkerAfter
    <2>2. worker[r].pc = "create" /\ ~RecordSubmission(r)
      BY <1>11 DEF CreateNonceState, RecordSubmission
    <2> QED BY <1>1, <1>4, <1>5, <2>1, <2>2 DEF KnownNonce
  <1>12. ASSUME SubmitAccepted(r) PROVE KnownNonce(r)'
    <2>1. /\ worker'[r].pc = "record" /\ worker'[r].item = i
          /\ worker'[r].nonce = worker[r].nonce
      BY <1>1, <1>2, <1>12, WorkerAfter
    <2>2. worker[r].pc = "submit" /\ ~RecordSubmission(r)
      BY <1>12 DEF SubmitAccepted, RecordSubmission
    <2> QED BY <1>1, <1>4, <1>5, <2>1, <2>2 DEF KnownNonce
  <1>13. ASSUME \/ \E e \in Errors : SubmitRejected(r, e)
                \/ RecordSubmission(r) \/ RecoverRead(r) \/ RecoverWrite(r)
                \/ \E e \in DbErrorClass : DbErrorAfterSubmit(r, e)
         PROVE  KnownNonce(r)'
    <2>1. /\ worker'[r].pc \in {"recover", "fail", "advance", "rewind"}
          /\ worker'[r].item = i
      BY <1>1, <1>2, <1>13, WorkerAfter
    <2>2. worker[r].pc \notin {"idle", "pick"}
      BY <1>13 DEF SubmitRejected, RecordSubmission, RecoverRead, RecoverWrite,
                   DbErrorAfterSubmit
    <2> QED BY <1>4, <2>1, <2>2 DEF KnownNonce
  <1>14. CASE \/ \E batch \in SUBSET Candidates : StartTick(r, batch)
              \/ AdvanceNonceState(r) \/ RecordFailure(r) \/ LoseCreateRace(r)
              \/ DbErrorOutsideTry(r) \/ Crash(r)
    BY <1>2, <1>7, <1>14, WorkerAtRest
       DEF AdvanceNonceState, RecordFailure, LoseCreateRace, DbErrorOutsideTry
  <1> QED BY <1>6, <1>8, <1>9, <1>10, <1>11, <1>12, <1>13, <1>14, OneReplicaMoves
          DEF GetSignerNonceState

LEMMA RowOfEachKept ==
  ASSUME IInv, [Next]_vars, NEW r, Replicas = {r}, KnownNonce(r), RowOfEach
  PROVE  RowOfEach'
  <1>1. TableGrows
    BY NextGrows
  <1>2. ASSUME NEW t \in Submitted PROVE items'[txs'[t].item].status # "ABSENT"
    BY <1>1, <1>2, ItemOf, NextMovesRows DEF RowOfEach, TableGrows, Grows, RowMoves
  <1>3. CASE ~SubmitAccepted(r)
    BY <1>2, <1>3, OnlySubmitting DEF RowOfEach
  <1>4. CASE SubmitAccepted(r)
    <2>1. worker[r].item \in Items /\ worker[r].nonce \in Nat
      BY <1>4 DEF SubmitAccepted, IInv, WorkersFit, Fits
    <2>2. PICK m \in Nat : m = Len(txs)
      BY LenProperties DEF IInv, TxsType
    <2>3. txs'[m + 1].item = worker[r].item /\ Len(txs') = m + 1
      BY <1>4, <2>1, <2>2, AcceptedGrows DEF SubmitAccepted, Accepted, IInv, TxsType
    <2>4. items'[worker[r].item].status # "ABSENT"
      BY <1>4, <2>1, RowStays DEF SubmitAccepted
    <2>5. \A t \in Submitted' : t \in Submitted \/ t = m + 1
      BY <2>2, <2>3 DEF Submitted
    <2> QED BY <1>2, <2>3, <2>4, <2>5 DEF RowOfEach
  <1> QED BY <1>3, <1>4

LEMMA RecordedFitsKept ==
  ASSUME IInv, [Next]_vars, NEW r, Replicas = {r}, KnownNonce(r), RowOfEach, RecordedFits
  PROVE  RecordedFits'
  <1>1. TableGrows /\ recorded \subseteq Submitted
    BY NextGrows DEF IInv, RestType
  <1>2. CASE ~RecordSubmission(r)
    <2>1. recorded' = recorded
      BY <1>2 DEF Next, vars, World, WorkerStep, PollStep,
         RetryNow, CancelRead, CancelWrite, Enqueue, GetSignerNonceState,
         DbErrorOutsideTry, CutOff, DbErrorAfterSubmit, SubmitRejected, BumpFee,
         PollError, Crash, ReadFresh, MarkProcessing, AllocateNonce,
         CreateNonceState, LoseCreateRace, SubmitAccepted, AdvanceNonceState,
         RecoverRead, RecoverWrite, RecordFailure, StartPoll, PollItem, StartTick
    <2>2. ASSUME NEW t \in recorded
          PROVE  txs'[t].nonce = items'[txs'[t].item].nonce
      <3>1. /\ t \in Submitted /\ txs[t].item \in Items
            /\ items[txs[t].item].status # "ABSENT"
        BY <1>1, ItemOf DEF RowOfEach
      <3>2. items'[txs[t].item].nonce = items[txs[t].item].nonce
        BY <1>2, <3>1, NextMovesRows DEF RowMoves
      <3> QED BY <1>1, <3>1, <3>2 DEF RecordedFits, TableGrows, Grows
    <2> QED BY <2>1, <2>2 DEF RecordedFits
  <1>3. CASE RecordSubmission(r)
    <2>1. PICK i : i = worker[r].item
      OBVIOUS
    <2>2. PICK u : u = worker[r].tx
      OBVIOUS
    <2>3. PICK n \in Nat : n = worker[r].nonce
      BY <1>3 DEF RecordSubmission, IInv, WorkersFit, Fits
    <2>4. /\ i \in Items /\ u \in Submitted /\ txs[u].item = i /\ txs[u].nonce = n
          /\ items[i] \in QueueItem /\ n # None
      BY <1>3, <2>1, <2>2, <2>3, GatewayAssumption
         DEF RecordSubmission, IInv, WorkersFit, Fits, ItemsType
    <2>5. items[i].nonce \in {None, n}
      BY <1>3, <2>1, <2>3 DEF RecordSubmission, KnownNonce
    <2>6. /\ items'[i].nonce = n
          /\ \A j \in Items \ {i} : items'[j] = items[j]
      BY <1>3, <2>1, <2>3, <2>4 DEF RecordSubmission, QueueItem, IInv, ItemsType
    <2>7. recorded' = recorded \cup {u} /\ txs' = txs
      BY <1>3, <2>2 DEF RecordSubmission
    <2>8. ASSUME NEW t \in recorded PROVE txs[t].nonce = items'[txs[t].item].nonce
      <3>1. txs[t].item \in Items /\ txs[t].nonce \in Nat
        BY <1>1, ItemOf
      <3>2. txs[t].nonce # None
        BY <3>1, GatewayAssumption
      <3> QED BY <2>5, <2>6, <3>1, <3>2 DEF RecordedFits
    <2> QED BY <2>4, <2>6, <2>7, <2>8 DEF RecordedFits
  <1> QED BY <1>2, <1>3

\* With one replica the transactions recorded for an item share its nonce: no
\* retry, fee bump, restart or error between submission and record makes the
\* network execute an item twice (allocateNonce reuses the nonce of the row).
THEOREM RecordedShareNonceHolds ==
  ASSUME NEW r, Replicas = {r}
  PROVE  Spec => []RecordedShareNonce
  <1> DEFINE Inv == KnownNonce(r) /\ RowOfEach /\ RecordedFits
  <1>1. Init => Inv
    BY DEF Init, InitGateway, KnownNonce, NoTick, RowOfEach, RecordedFits, Submitted
  <1>2. IInv /\ Inv /\ [Next]_vars => Inv'
    BY KnownNonceKept, RowOfEachKept, RecordedFitsKept
  <1>3. Inv => RecordedShareNonce
    BY DEF RecordedFits, RecordedShareNonce
  <1> HIDE DEF Inv
  <1> QED BY <1>1, <1>2, <1>3, IInvHolds, PTL DEF Spec

-----------------------------------------------------------------------------
(* One replica: fresh nonces are distinct as long as nothing went wrong. *)

AllUntroubled(s) == \A i \in Items : SignerOf[i] = s => Untroubled(i)

\* The row of an item that was submitted before says so.
NonceHasHash == \A i \in Items : items[i].nonce # None => items[i].txHash # None

\* The signers of what is submitted or about to be have a nonce state.
StateMade(r) ==
  /\ \A t \in Submitted : nextNonce[SignerOf[txs[t].item]] # None
  /\ worker[r].pc \in {"submit", "record", "advance"} =>
       nextNonce[SignerOf[worker[r].item]] # None

\* The worker's new nonce is the next one of the signer.
TakesNext(r) ==
  LET w == worker[r]
      s == SignerOf[w.item] IN
  /\ w.pc = "submit" /\ items[w.item].nonce = None => w.nonce = nextNonce[s]
  /\ w.pc \in {"record", "advance"} /\ AllUntroubled(s) => w.nonce = nextNonce[s]

\* The nonces of s that are in use lie below the next one, but for that of the
\* transaction just submitted; not while the worker is about to note a failure.
Failing(r, s) ==
  worker[r].pc \in {"recover", "rewind", "fail"} /\ SignerOf[worker[r].item] = s

Below(r, s) ==
  AllUntroubled(s) /\ ~Failing(r, s) =>
    \A t \in Submitted : SignerOf[txs[t].item] = s =>
      \/ txs[t].nonce < nextNonce[s]
      \/ worker[r].pc \in {"record", "advance"} /\ worker[r].tx = t

LEMMA AbandonedGrows ==
  ASSUME [Next]_vars
  PROVE  abandoned \subseteq abandoned'
  BY DEF Next, vars, World, WorkerStep, PollStep,
     RetryNow, CancelRead, CancelWrite, Enqueue, GetSignerNonceState,
     DbErrorOutsideTry, CutOff, DbErrorAfterSubmit, SubmitRejected, BumpFee,
     PollError, Crash, ReadFresh, MarkProcessing, AllocateNonce,
     CreateNonceState, LoseCreateRace, SubmitAccepted, RecordSubmission,
     AdvanceNonceState, RecoverRead, RecoverWrite, RecordFailure, StartPoll,
     PollItem, StartTick

LEMMA SubmittedFinite ==
  ASSUME IInv
  PROVE  IsFiniteSet(Submitted)
  BY LenProperties, FS_Interval DEF IInv, TxsType, Submitted

\* What is untroubled was untroubled before.
LEMMA UntroubledBefore ==
  ASSUME IInv, IInv', [Next]_vars, NEW i \in Items, Untroubled(i)'
  PROVE  Untroubled(i)
  <1>1. items[i].retryCount = 0 /\ i \notin abandoned
    BY NextMovesRows, AbandonedGrows DEF Untroubled, RowMoves
  <1> DEFINE Mine == {t \in Submitted : txs[t].item = i}
  <1>2. Mine \subseteq Mine'
    <2>1. Grows /\ Len(txs) \in Nat /\ Len(txs') \in Nat
      BY NextGrows, LenProperties DEF TableGrows, TxsType, IInv
    <2> QED BY <2>1 DEF Grows, Submitted
  <1>3. IsFiniteSet(Submitted')
    BY LenProperties, FS_Interval DEF IInv, TxsType, Submitted
  <1>4. IsFiniteSet(Mine')
    BY <1>3, FS_Subset
  <1>5. /\ Cardinality(Mine) <= Cardinality(Mine')
        /\ Cardinality(Mine) \in Nat /\ Cardinality(Mine') \in Nat
    <2> HIDE DEF Mine
    <2> QED BY <1>2, <1>4, FS_Subset, FS_CardinalityType
  <1>6. Cardinality(Mine') <= 1
    BY DEF Untroubled
  <1>7. Cardinality(Mine) <= 1
    <2> HIDE DEF Mine
    <2> QED BY <1>5, <1>6
  <1> QED BY <1>1, <1>7 DEF Untroubled

LEMMA AllUntroubledBefore ==
  ASSUME IInv, IInv', [Next]_vars, NEW s, AllUntroubled(s)'
  PROVE  AllUntroubled(s)
  BY UntroubledBefore DEF AllUntroubled

\* A finite set of at most one element has no two.
LEMMA AtMostOne ==
  ASSUME NEW S, IsFiniteSet(S), Cardinality(S) <= 1,
         NEW t \in S, NEW u \in S
  PROVE  t = u
  <1> SUFFICES ASSUME t # u PROVE FALSE
    OBVIOUS
  <1>1. Cardinality({t}) = 1 /\ IsFiniteSet({t})
    BY FS_Singleton
  <1>2. Cardinality({t} \cup {u}) = 2
    BY <1>1, FS_AddElement
  <1>3. {t} \cup {u} \subseteq S
    OBVIOUS
  <1>4. Cardinality({t} \cup {u}) <= Cardinality(S) /\ Cardinality(S) \in Nat
    BY <1>3, FS_Subset, FS_CardinalityType
  <1> QED BY <1>2, <1>4

\* Nonce states are never taken away.
LEMMA StatesStay ==
  ASSUME IInv, [Next]_vars, NEW r, Replicas = {r}, NEW s \in Signers, nextNonce[s] # None
  PROVE  nextNonce'[s] # None
  <1>1. CASE UNCHANGED nextNonce
    BY <1>1
  <1>2. CASE \E q \in Signers : GetSignerNonceState(q)
    BY <1>2, GatewayAssumption DEF GetSignerNonceState, IInv, NonceType
  <1>3. CASE CreateNonceState(r)
    BY <1>3, GatewayAssumption DEF CreateNonceState, IInv, NonceType
  <1>4. CASE AdvanceNonceState(r)
    <2>1. PICK n \in Nat : n = worker[r].nonce
      BY <1>4 DEF AdvanceNonceState, IInv, WorkersFit, Fits
    <2>2. nextNonce' = [nextNonce EXCEPT ![SignerOf[worker[r].item]] = n + 1]
      BY <1>4, <2>1 DEF AdvanceNonceState, NonceAfter
    <2>3. n + 1 # None
      BY GatewayAssumption
    <2> QED BY <2>2, <2>3 DEF IInv, NonceType
  <1>5. CASE RecoverWrite(r)
    <2>1. PICK w : w = worker[r]
      OBVIOUS
    <2>2. PICK m : m = Recovered(w.seen, w.nonce, w.error)
      OBVIOUS
    <2>3. m \in Nat /\ m # None
      <3>1. w \in Tick /\ w.nonce \in Nat
        BY <1>5, <2>1 DEF RecoverWrite, IInv, WorkersFit, Fits, WorkerType
      <3>2. w.seen \in NoneOr(Nat)
        BY <3>1 DEF Tick
      <3>3. m \in Nat
        BY <2>2, <3>1, <3>2, RecoveredIsNat DEF NoneOr
      <3> QED BY <3>3, GatewayAssumption
    <2>4. nextNonce' = nextNonce
          \/ nextNonce' = [nextNonce EXCEPT ![SignerOf[w.item]] = m]
      BY <1>5, <2>1, <2>2 DEF RecoverWrite
    <2> QED BY <2>3, <2>4 DEF IInv, NonceType
  <1> QED BY <1>1, <1>2, <1>3, <1>4, <1>5, OneReplicaMoves
          DEF StartTick, ReadFresh, MarkProcessing, AllocateNonce, SubmitAccepted,
              SubmitRejected, RecordSubmission, DbErrorAfterSubmit, RecoverRead,
              RecordFailure, LoseCreateRace, DbErrorOutsideTry, CutOff, Crash

LEMMA NonceHasHashKept ==
  ASSUME IInv, [Next]_vars, NEW r, Replicas = {r}, ClientNonces = {None}, NonceHasHash
  PROVE  NonceHasHash'
  <1> SUFFICES ASSUME NEW i \in Items, items'[i].nonce # None
               PROVE  items'[i].txHash # None
    BY DEF NonceHasHash
  <1>1. CASE RecordSubmission(r) /\ worker[r].item = i
    <2>1. worker[r].tx \in Submitted /\ items[i] \in QueueItem
      BY <1>1 DEF RecordSubmission, IInv, WorkersFit, Fits, ItemsType
    <2>2. worker[r].tx # None
      BY <2>1, LenProperties, GatewayAssumption DEF Submitted, IInv, TxsType
    <2>3. items'[i].txHash = worker[r].tx
      BY <1>1, <2>1 DEF RecordSubmission, QueueItem, IInv, ItemsType
    <2> QED BY <2>2, <2>3
  <1>2. CASE ~(RecordSubmission(r) /\ worker[r].item = i)
    BY <1>2, NextMovesRows DEF RowMoves, NonceHasHash
  <1> QED BY <1>1, <1>2

\* An item with a nonce has a transaction.
LEMMA NonceHasTransaction ==
  ASSUME IInv, NonceHasHash, NEW i \in Items, items[i].nonce # None
  PROVE  \E t \in Submitted : txs[t].item = i
  BY DEF NonceHasHash, IInv, HashNonce

LEMMA StateMadeKept ==
  ASSUME IInv, [Next]_vars, NEW r, Replicas = {r}, KnownNonce(r), NonceHasHash,
         StateMade(r)
  PROVE  StateMade(r)'
  <1>1. r \in Replicas /\ TableGrows
    BY NextGrows
  <1>2. PICK i : i = worker[r].item
    OBVIOUS
  <1>3. worker[r].pc \notin {"idle", "pick"} => i \in Items /\ SignerOf[i] \in Signers
    BY <1>1, <1>2, QueueAssumption DEF IInv, WorkersFit, Fits
  <1>4. ASSUME NEW t \in Submitted'
        PROVE  nextNonce'[SignerOf[txs'[t].item]] # None
    <2>1. ASSUME t \in Submitted
          PROVE  nextNonce'[SignerOf[txs'[t].item]] # None
      <3>1. txs[t].item \in Items /\ txs'[t].item = txs[t].item
        BY <1>1, <2>1, ItemOf DEF TableGrows, Grows
      <3>2. SignerOf[txs[t].item] \in Signers
        BY <3>1, QueueAssumption
      <3> QED BY <2>1, <3>1, <3>2, StatesStay DEF StateMade
    <2>2. CASE SubmitAccepted(r) /\ t \notin Submitted
      <3>1. i \in Items /\ worker[r].nonce \in Nat /\ worker[r].pc = "submit"
        BY <1>2, <2>2 DEF SubmitAccepted, IInv, WorkersFit, Fits
      <3>2. PICK m \in Nat : m = Len(txs)
        BY LenProperties DEF IInv, TxsType
      <3>3. txs'[m + 1].item = i /\ Len(txs') = m + 1
        BY <1>2, <2>2, <3>1, <3>2, AcceptedGrows DEF SubmitAccepted, Accepted, IInv, TxsType
      <3>4. t = m + 1
        BY <2>2, <3>2, <3>3 DEF Submitted
      <3>5. nextNonce[SignerOf[i]] # None
        BY <1>2, <3>1 DEF StateMade
      <3> QED BY <1>3, <3>1, <3>3, <3>4, <3>5, StatesStay
    <2> QED BY <2>1, <2>2, OnlySubmitting
  <1>5. ASSUME worker'[r].pc \in {"submit", "record", "advance"}
        PROVE  nextNonce'[SignerOf[worker'[r].item]] # None
    <2>1. ASSUME worker'[r].item = i, worker[r].pc \notin {"idle", "pick"},
                 nextNonce[SignerOf[i]] # None
          PROVE  nextNonce'[SignerOf[worker'[r].item]] # None
      BY <1>3, <2>1, StatesStay
    <2>2. CASE UNCHANGED worker
      BY <1>2, <1>5, <2>1, <2>2 DEF StateMade
    <2>3. ASSUME AllocateNonce(r)
          PROVE  nextNonce'[SignerOf[worker'[r].item]] # None
      <3>1. /\ worker'[r].item = i
            /\ Allocation(worker[r].fresh, i) # None
        BY <1>1, <1>2, <1>5, <2>3, WorkerAfter
      <3>2. worker[r].pc = "allocate" /\ worker[r].fresh.nonce = items[i].nonce
        BY <1>2, <2>3 DEF AllocateNonce, KnownNonce
      <3>3. CASE items[i].nonce # None
        <4>1. PICK t \in Submitted : txs[t].item = i
          BY <1>3, <3>2, <3>3, NonceHasTransaction
        <4> QED BY <2>1, <3>1, <3>2, <4>1 DEF StateMade
      <3>4. CASE items[i].nonce = None
        BY <2>1, <3>1, <3>2, <3>4 DEF Allocation
      <3> QED BY <3>3, <3>4
    <2>4. ASSUME CreateNonceState(r)
          PROVE  nextNonce'[SignerOf[worker'[r].item]] # None
      <3>1. worker'[r].item = i /\ SignerOf[i] \in Signers
        BY <1>1, <1>2, <1>3, <2>4, WorkerAfter DEF CreateNonceState
      <3>2. nextNonce'[SignerOf[i]] = 0
        BY <1>2, <2>4, <3>1 DEF CreateNonceState, IInv, NonceType
      <3> QED BY <3>1, <3>2, GatewayAssumption
    <2>5. ASSUME SubmitAccepted(r) \/ RecordSubmission(r)
          PROVE  nextNonce'[SignerOf[worker'[r].item]] # None
      <3>1. worker'[r].item = i /\ worker[r].pc \in {"submit", "record"}
        BY <1>1, <1>2, <2>5, WorkerAfter DEF SubmitAccepted, RecordSubmission
      <3> QED BY <1>2, <2>1, <3>1 DEF StateMade
    <2>6. ASSUME \/ MarkProcessing(r) \/ \E e \in Errors : SubmitRejected(r, e)
                 \/ RecoverRead(r) \/ RecoverWrite(r) \/ \E e \in DbErrorClass : DbErrorAfterSubmit(r, e)
          PROVE  FALSE
      BY <1>1, <1>5, <2>6, WorkerAfter
    <2>7. ASSUME \/ \E batch \in SUBSET Candidates : StartTick(r, batch)
                 \/ AdvanceNonceState(r) \/ RecordFailure(r) \/ LoseCreateRace(r)
                 \/ DbErrorOutsideTry(r) \/ Crash(r)
          PROVE  FALSE
      BY <1>1, <1>5, <2>7, WorkerAtRest
         DEF AdvanceNonceState, RecordFailure, LoseCreateRace, DbErrorOutsideTry
    <2>8. ASSUME NEW j \in Items, ReadFresh(r, j) PROVE FALSE
      BY <1>1, <1>5, <2>8, WorkerTakesUp
    <2> QED BY <2>2, <2>3, <2>4, <2>5, <2>6, <2>7, <2>8, OneReplicaMoves
            DEF GetSignerNonceState
  <1> QED BY <1>4, <1>5 DEF StateMade

\* A second submission of the worker's item is trouble.
LEMMA ResubmittedIsTrouble ==
  ASSUME IInv, IInv', [Next]_vars, NEW r \in Replicas, NonceHasHash,
         SubmitAccepted(r), NEW i \in Items, i = worker[r].item, Untroubled(i)'
  PROVE  items[i].nonce = None
  <1> SUFFICES ASSUME items[i].nonce # None PROVE FALSE
    OBVIOUS
  <1>2. PICK t \in Submitted : txs[t].item = i
    BY NonceHasTransaction
  <1>3. PICK m \in Nat : m = Len(txs)
    BY LenProperties DEF IInv, TxsType
  <1>4. worker[r].nonce \in Nat
    BY DEF SubmitAccepted, IInv, WorkersFit, Fits
  <1>5. m + 1 \in Submitted' /\ txs'[m + 1].item = i
    <2>1. /\ Len(txs') = m + 1
          /\ txs'[m + 1].item = i
      BY <1>3, <1>4, AcceptedGrows DEF SubmitAccepted, Accepted, IInv, TxsType
    <2> QED BY <2>1 DEF Submitted
  <1>6. t \in Submitted' /\ txs'[t].item = i /\ t # m + 1
    <2>1. TableGrows /\ Len(txs') \in Nat
      BY NextGrows, LenProperties DEF IInv, TxsType
    <2> QED BY <1>2, <1>3, <2>1 DEF TableGrows, Grows, Submitted
  <1>7. IsFiniteSet(Submitted')
    BY LenProperties, FS_Interval DEF IInv, TxsType, Submitted
  <1> DEFINE Mine == {v \in Submitted' : txs'[v].item = i}
  <1>8. IsFiniteSet(Mine) /\ Cardinality(Mine) <= 1
    BY <1>7, FS_Subset DEF Untroubled
  <1>9. t \in Mine /\ m + 1 \in Mine
    BY <1>5, <1>6
  <1> HIDE DEF Mine
  <1> QED BY <1>6, <1>8, <1>9, AtMostOne

\* The worker's new nonce stays the next one.
LEMMA TakesNextKept ==
  ASSUME IInv, IInv', [Next]_vars, NEW r, Replicas = {r}, KnownNonce(r),
         NonceHasHash, StateMade(r), TakesNext(r)
  PROVE  TakesNext(r)'
  <1>1. r \in Replicas
    OBVIOUS
  <1>2. PICK i : i = worker[r].item
    OBVIOUS
  <1>3. worker[r].pc \notin {"idle", "pick"} => i \in Items /\ SignerOf[i] \in Signers
    BY <1>1, <1>2, QueueAssumption DEF IInv, WorkersFit, Fits
  <1>4. CASE worker'[r].pc \notin {"submit", "record", "advance"}
    BY <1>4 DEF TakesNext
  <1>5. CASE UNCHANGED worker
    <2>1. CASE worker[r].pc = "submit"
      <3>1. items'[i].nonce = items[i].nonce
        BY <1>2, <2>1, RowStays
      <3>2. nextNonce'[SignerOf[i]] = nextNonce[SignerOf[i]]
        <4>1. nextNonce[SignerOf[i]] # None
          BY <1>2, <2>1 DEF StateMade
        <4>2. CASE UNCHANGED nextNonce
          BY <4>2
        <4>3. CASE \E q \in Signers : GetSignerNonceState(q)
          BY <1>3, <2>1, <4>1, <4>3 DEF GetSignerNonceState, IInv, NonceType
        <4> QED BY <1>1, <1>5, <2>1, <4>2, <4>3, OneReplicaMoves, WorkerAfter, WorkerAtRest
                DEF StartTick, ReadFresh, MarkProcessing, AllocateNonce,
                    CreateNonceState, SubmitAccepted, SubmitRejected,
                    RecordSubmission, AdvanceNonceState, DbErrorAfterSubmit,
                    RecoverRead, RecoverWrite, RecordFailure, LoseCreateRace,
                    DbErrorOutsideTry, CutOff, Crash
      <3> QED BY <1>2, <1>5, <2>1, <3>1, <3>2 DEF TakesNext
    <2>2. CASE worker[r].pc \in {"record", "advance"} /\ AllUntroubled(SignerOf[i])'
      <3>1. AllUntroubled(SignerOf[i])
        BY <2>2, AllUntroubledBefore
      <3>2. nextNonce'[SignerOf[i]] = nextNonce[SignerOf[i]]
        <4>1. nextNonce[SignerOf[i]] # None
          BY <1>2, <2>2 DEF StateMade
        <4>2. CASE UNCHANGED nextNonce
          BY <4>2
        <4>3. CASE \E q \in Signers : GetSignerNonceState(q)
          BY <1>3, <2>2, <4>1, <4>3 DEF GetSignerNonceState, IInv, NonceType
        <4>4. CASE AdvanceNonceState(r)
          BY <1>1, <1>5, <2>2, <4>4, WorkerAtRest DEF AdvanceNonceState
        <4> QED BY <1>1, <1>5, <2>2, <4>2, <4>3, <4>4, OneReplicaMoves
                DEF StartTick, ReadFresh, MarkProcessing, AllocateNonce,
                    CreateNonceState, SubmitAccepted, SubmitRejected,
                    RecordSubmission, DbErrorAfterSubmit,
                    RecoverRead, RecoverWrite, RecordFailure, LoseCreateRace,
                    DbErrorOutsideTry, CutOff, Crash
      <3> QED BY <1>2, <1>5, <2>2, <3>1, <3>2 DEF TakesNext
    <2>3. CASE /\ worker[r].pc # "submit"
               /\ ~(worker[r].pc \in {"record", "advance"} /\ AllUntroubled(SignerOf[i])')
      BY <1>2, <1>5, <2>3 DEF TakesNext
    <2> QED BY <2>1, <2>2, <2>3
  <1>6. ASSUME AllocateNonce(r) PROVE TakesNext(r)'
    <2>1. PICK n : n = Allocation(worker[r].fresh, i)
      OBVIOUS
    <2>2. /\ worker'[r].item = i
          /\ \/ worker'[r].pc = "create"
             \/ worker'[r].pc = "submit" /\ worker'[r].nonce = n
      BY <1>1, <1>2, <1>6, <2>1, WorkerAfter
    <2>3. /\ worker[r].pc = "allocate" /\ worker[r].fresh.nonce = items[i].nonce
          /\ UNCHANGED <<nextNonce, items>>
      BY <1>2, <1>6 DEF AllocateNonce, KnownNonce
    <2>4. items[i].nonce = None => n = nextNonce[SignerOf[i]]
      BY <2>1, <2>3 DEF Allocation
    <2> QED BY <2>2, <2>3, <2>4 DEF TakesNext
  <1>7. ASSUME CreateNonceState(r) PROVE TakesNext(r)'
    <2>1. worker'[r].item = i /\ worker'[r].pc = "submit" /\ worker'[r].nonce = 0
      BY <1>1, <1>2, <1>7, WorkerAfter
    <2>2. nextNonce'[SignerOf[i]] = 0
      BY <1>2, <1>3, <1>7 DEF CreateNonceState, IInv, NonceType
    <2> QED BY <2>1, <2>2 DEF TakesNext
  <1>8. ASSUME SubmitAccepted(r) PROVE TakesNext(r)'
    <2>1. /\ worker'[r].item = i /\ worker'[r].pc = "record"
          /\ worker'[r].nonce = worker[r].nonce
      BY <1>1, <1>2, <1>8, WorkerAfter
    <2>2. worker[r].pc = "submit" /\ i \in Items /\ UNCHANGED nextNonce
      BY <1>3, <1>8 DEF SubmitAccepted
    <2>3. ASSUME AllUntroubled(SignerOf[i])' PROVE items[i].nonce = None
      <3>1. Untroubled(i)'
        BY <2>2, <2>3 DEF AllUntroubled
      <3> QED BY <1>1, <1>2, <1>8, <2>2, <3>1, ResubmittedIsTrouble
    <2> QED BY <1>2, <2>1, <2>2, <2>3 DEF TakesNext
  <1>9. ASSUME RecordSubmission(r) PROVE TakesNext(r)'
    <2>1. /\ worker'[r].item = i /\ worker'[r].pc = "advance"
          /\ worker'[r].nonce = worker[r].nonce
      BY <1>1, <1>2, <1>9, WorkerAfter
    <2>2. worker[r].pc = "record" /\ UNCHANGED nextNonce
      BY <1>9 DEF RecordSubmission
    <2>3. AllUntroubled(SignerOf[i])' => AllUntroubled(SignerOf[i])
      BY AllUntroubledBefore
    <2> QED BY <1>2, <2>1, <2>2, <2>3 DEF TakesNext
  <1>10. ASSUME \/ MarkProcessing(r) \/ \E e \in Errors : SubmitRejected(r, e)
                \/ RecoverRead(r) \/ RecoverWrite(r) \/ \E e \in DbErrorClass : DbErrorAfterSubmit(r, e)
                \/ \E batch \in SUBSET Candidates : StartTick(r, batch)
                \/ \E j \in Items : ReadFresh(r, j)
                \/ AdvanceNonceState(r) \/ RecordFailure(r) \/ LoseCreateRace(r)
                \/ DbErrorOutsideTry(r) \/ Crash(r)
         PROVE  TakesNext(r)'
    <2>1. worker'[r].pc \in {"allocate", "recover", "fail", "rewind", "idle", "pick", "mark"}
      BY <1>1, <1>10, WorkerAfter, WorkerAtRest, WorkerTakesUp
         DEF AdvanceNonceState, RecordFailure, LoseCreateRace, DbErrorOutsideTry
    <2> QED BY <1>4, <2>1
  <1> QED BY <1>5, <1>6, <1>7, <1>8, <1>9, <1>10, OneReplicaMoves
          DEF GetSignerNonceState

\* A step that leaves the next nonce of s alone, and the worker with its
\* transaction if that is one of s.
LEMMA BelowStays ==
  ASSUME IInv, IInv', [Next]_vars, NEW r \in Replicas, NEW s \in Signers,
         Below(r, s), ~Failing(r, s),
         Submitted' = Submitted, nextNonce'[s] = nextNonce[s],
         worker[r].pc \in {"record", "advance"} /\ SignerOf[worker[r].item] = s
           => worker'[r].pc \in {"record", "advance"} /\ worker'[r].tx = worker[r].tx
  PROVE  Below(r, s)'
  <1> SUFFICES ASSUME AllUntroubled(s)', NEW t \in Submitted, SignerOf[txs'[t].item] = s
               PROVE  \/ txs'[t].nonce < nextNonce'[s]
                      \/ worker'[r].pc \in {"record", "advance"} /\ worker'[r].tx = t
    BY DEF Below
  <1>1. txs'[t].item = txs[t].item /\ txs'[t].nonce = txs[t].nonce
    BY NextGrows DEF TableGrows, Grows
  <1>2. AllUntroubled(s)
    BY AllUntroubledBefore
  <1>3. \/ txs[t].nonce < nextNonce[s]
        \/ worker[r].pc \in {"record", "advance"} /\ worker[r].tx = t
    BY <1>1, <1>2 DEF Below
  <1>4. worker[r].pc \in {"record", "advance"} /\ worker[r].tx = t
          => SignerOf[worker[r].item] = s
    BY <1>1 DEF IInv, WorkersFit, Fits
  <1> QED BY <1>1, <1>3, <1>4

\* The steps that end the worker's work on an item without having noted it.
LEMMA CutOffIsTrouble ==
  ASSUME IInv, IInv', [Next]_vars, NEW r \in Replicas, CutOff(r) \/ Crash(r),
         NEW s, AllUntroubled(s)',
         worker[r].pc \notin {"idle", "pick", "mark"}
  PROVE  SignerOf[worker[r].item] # s
  <1>1. PICK i \in Items : i = worker[r].item
    BY DEF IInv, WorkersFit, Fits
  <1>2. i \in abandoned'
    BY <1>1 DEF CutOff, Crash, OnItem
  <1>3. ~Untroubled(i)'
    BY <1>2 DEF Untroubled
  <1> QED BY <1>1, <1>3 DEF AllUntroubled

LEMMA FailureIsTrouble ==
  ASSUME IInv, IInv', [Next]_vars, NEW r \in Replicas, RecordFailure(r),
         NEW s, AllUntroubled(s)'
  PROVE  SignerOf[worker[r].item] # s
  <1>1. PICK i \in Items : i = worker[r].item
    BY DEF RecordFailure, IInv, WorkersFit, Fits
  <1>2. PICK n \in Nat : n = worker[r].fresh.retryCount
    BY DEF IInv, WorkerType, Tick, QueueItem
  <1>3. items'[i] = AfterFailure(items[i], n + 1)
    BY <1>1, <1>2 DEF RecordFailure, IInv, ItemsType
  <1>4. items'[i].retryCount = n + 1
    BY <1>3 DEF AfterFailure, QueueItem, IInv, ItemsType
  <1>5. ~Untroubled(i)'
    BY <1>2, <1>4 DEF Untroubled
  <1> QED BY <1>1, <1>5 DEF AllUntroubled

LEMMA BelowKept ==
  ASSUME IInv, IInv', [Next]_vars, NEW r, Replicas = {r}, StateMade(r), TakesNext(r),
         NEW s \in Signers, Below(r, s)
  PROVE  Below(r, s)'
  <1>1. r \in Replicas
    OBVIOUS
  <1> SUFFICES ASSUME AllUntroubled(s)', ~Failing(r, s)'
               PROVE  Below(r, s)'
    BY DEF Below
  <1>2. AllUntroubled(s)
    BY AllUntroubledBefore
  <1>3. ~SubmitAccepted(r) => Submitted' = Submitted
    BY OnlySubmitting
  <1>4. CASE SubmitAccepted(r)
    <2>1. /\ worker'[r].pc = "record" /\ worker'[r].tx = Len(txs) + 1
          /\ worker[r].pc = "submit" /\ nextNonce' = nextNonce
      BY <1>1, <1>4, WorkerAfter DEF SubmitAccepted
    <2>2. Len(txs) \in Nat /\ Len(txs') = Len(txs) + 1
      BY <1>4, LenProperties DEF SubmitAccepted, Accepted, IInv, TxsType
    <2>3. ASSUME NEW t \in Submitted', SignerOf[txs'[t].item] = s
          PROVE  \/ txs'[t].nonce < nextNonce'[s]
                 \/ worker'[r].pc \in {"record", "advance"} /\ worker'[r].tx = t
      <3>1. CASE t = Len(txs) + 1
        BY <2>1, <3>1
      <3>2. CASE t \in Submitted
        <4>1. txs'[t].item = txs[t].item /\ txs'[t].nonce = txs[t].nonce
          BY <3>2, NextGrows DEF TableGrows, Grows
        <4>2. txs[t].nonce < nextNonce[s]
          BY <1>2, <2>1, <2>3, <3>2, <4>1 DEF Below, Failing
        <4> QED BY <2>1, <4>1, <4>2
      <3> QED BY <2>2, <3>1, <3>2 DEF Submitted
    <2> QED BY <2>3 DEF Below
  <1>5. CASE UNCHANGED <<worker, nextNonce>>
    <2>1. worker'[r].pc = "record" => worker[r].pc = "record"
      BY <1>5
    <2>2. ~SubmitAccepted(r)
      BY <1>1, <1>5, WorkerAfter DEF SubmitAccepted
    <2> QED BY <1>1, <1>3, <1>5, <2>2, BelowStays DEF Failing
  <1>6. ASSUME nextNonce[s] = None, Submitted' = Submitted
        PROVE  Below(r, s)'
    <2>1. ASSUME NEW t \in Submitted', SignerOf[txs'[t].item] = s PROVE FALSE
      <3>1. t \in Submitted /\ txs'[t].item = txs[t].item
        BY <1>6, <2>1, NextGrows DEF TableGrows, Grows
      <3> QED BY <1>6, <2>1, <3>1 DEF StateMade
    <2> QED BY <2>1 DEF Below
  <1>7. CASE \E q \in Signers : GetSignerNonceState(q)
    <2>1. PICK q \in Signers : GetSignerNonceState(q)
      BY <1>7
    <2>2. UNCHANGED <<worker, txs>> /\ (q = s \/ nextNonce'[s] = nextNonce[s])
      BY <2>1 DEF GetSignerNonceState, IInv, NonceType
    <2>3. Submitted' = Submitted
      BY <2>2 DEF Submitted
    <2>4. CASE q = s
      BY <1>6, <2>1, <2>3, <2>4 DEF GetSignerNonceState
    <2>5. CASE nextNonce'[s] = nextNonce[s]
      BY <1>1, <2>2, <2>3, <2>5, BelowStays DEF Failing
    <2> QED BY <2>2, <2>4, <2>5
  <1>8. CASE CreateNonceState(r)
    <2>1. ~SubmitAccepted(r) /\ worker[r].pc = "create"
      BY <1>8 DEF CreateNonceState, SubmitAccepted
    <2>2. CASE SignerOf[worker[r].item] = s
      BY <1>3, <1>6, <1>8, <2>1, <2>2 DEF CreateNonceState
    <2>3. CASE SignerOf[worker[r].item] # s
      <3>1. nextNonce'[s] = nextNonce[s]
        BY <1>8, <2>3 DEF CreateNonceState, IInv, NonceType
      <3> QED BY <1>1, <1>3, <2>1, <3>1, BelowStays DEF Failing
    <2> QED BY <2>2, <2>3
  <1>9. CASE RecordSubmission(r)
    <2>1. /\ worker[r].pc = "record" /\ nextNonce' = nextNonce
          /\ worker'[r].pc = "advance" /\ worker'[r].tx = worker[r].tx
      BY <1>1, <1>9, WorkerAfter DEF RecordSubmission
    <2> QED BY <1>1, <1>3, <2>1, BelowStays DEF SubmitAccepted, Failing
  <1>10. CASE AdvanceNonceState(r)
    <2>1. ~SubmitAccepted(r) /\ worker[r].pc = "advance"
      BY <1>10 DEF AdvanceNonceState, SubmitAccepted
    <2>2. CASE SignerOf[worker[r].item] # s
      <3>1. nextNonce'[s] = nextNonce[s]
        BY <1>10, <2>2 DEF AdvanceNonceState, IInv, NonceType
      <3> QED BY <1>1, <1>3, <2>1, <2>2, <3>1, BelowStays DEF Failing
    <2>3. CASE SignerOf[worker[r].item] = s
      <3>1. PICK n \in Nat : n = worker[r].nonce
        BY <1>1, <2>1 DEF IInv, WorkersFit, Fits
      <3>2. nextNonce[s] = n
        BY <1>2, <2>1, <2>3, <3>1 DEF TakesNext
      <3>3. nextNonce'[s] = n + 1
        BY <1>10, <2>3, <3>1 DEF AdvanceNonceState, NonceAfter, IInv, NonceType
      <3>4. ASSUME NEW t \in Submitted', SignerOf[txs'[t].item] = s
            PROVE  txs'[t].nonce < nextNonce'[s]
        <4>1. /\ t \in Submitted /\ txs'[t].item = txs[t].item
              /\ txs'[t].nonce = txs[t].nonce /\ txs[t].nonce \in Nat
          BY <1>3, <2>1, <3>4, NextGrows, ItemOf DEF TableGrows, Grows
        <4>2. \/ txs[t].nonce < nextNonce[s]
              \/ worker[r].tx = t
          BY <1>2, <2>1, <3>4, <4>1 DEF Below, Failing
        <4>3. worker[r].tx = t => txs[t].nonce = n
          BY <1>1, <2>1, <3>1 DEF IInv, WorkersFit, Fits
        <4> QED BY <3>2, <3>3, <4>1, <4>2, <4>3
      <3> QED BY <3>4 DEF Below
    <2> QED BY <2>2, <2>3
  <1>11. CASE \/ RecoverRead(r) \/ RecoverWrite(r)
              \/ \E e \in DbErrorClass : DbErrorAfterSubmit(r, e)
    <2>1. /\ worker'[r].pc \in {"recover", "rewind", "fail"}
          /\ worker'[r].item = worker[r].item
          /\ worker[r].pc \in {"recover", "rewind", "record", "advance"}
      BY <1>1, <1>11, WorkerAfter DEF RecoverRead, RecoverWrite, DbErrorAfterSubmit
    <2>2. SignerOf[worker[r].item] # s
      BY <2>1 DEF Failing
    <2>3. nextNonce'[s] = nextNonce[s]
      BY <1>11, <2>2 DEF RecoverRead, RecoverWrite, DbErrorAfterSubmit, IInv, NonceType
    <2> QED BY <1>1, <1>3, <2>1, <2>2, <2>3, BelowStays DEF SubmitAccepted, Failing
  <1>12. CASE \/ \E batch \in SUBSET Candidates : StartTick(r, batch)
              \/ \E i \in Items : ReadFresh(r, i)
              \/ MarkProcessing(r) \/ AllocateNonce(r)
              \/ \E e \in Errors : SubmitRejected(r, e)
    <2>1. /\ worker[r].pc \in {"idle", "pick", "mark", "allocate", "submit"}
          /\ nextNonce' = nextNonce /\ UNCHANGED txs
      BY <1>12 DEF StartTick, ReadFresh, MarkProcessing, AllocateNonce, SubmitRejected
    <2> QED BY <1>1, <2>1, BelowStays DEF Submitted, Failing
  <1>13. CASE RecordFailure(r) \/ LoseCreateRace(r) \/ DbErrorOutsideTry(r) \/ Crash(r)
    <2>1. ~SubmitAccepted(r) /\ nextNonce' = nextNonce
      <3>1. worker'[r].pc \in {"idle", "pick"}
        BY <1>1, <1>13, WorkerAtRest DEF RecordFailure, LoseCreateRace, DbErrorOutsideTry
      <3> QED BY <1>1, <1>13, <3>1, WorkerAfter
              DEF RecordFailure, LoseCreateRace, DbErrorOutsideTry, CutOff, Crash
    <2>2. \/ worker[r].pc \in {"idle", "pick", "mark"}
          \/ SignerOf[worker[r].item] # s
      BY <1>1, <1>13, CutOffIsTrouble, FailureIsTrouble
         DEF LoseCreateRace, DbErrorOutsideTry
    <2> QED BY <1>1, <1>3, <2>1, <2>2, BelowStays DEF Failing
  <1> QED BY <1>4, <1>5, <1>7, <1>8, <1>9, <1>10, <1>11, <1>12, <1>13, OneReplicaMoves

\* A new transaction has a nonce of its own, or its item is in trouble.
LEMMA FreshNoncesKept ==
  ASSUME IInv, IInv', [Next]_vars, NEW r, Replicas = {r}, NonceHasHash, StateMade(r),
         TakesNext(r), \A s \in Signers : Below(r, s), FreshNoncesDistinct
  PROVE  FreshNoncesDistinct'
  <1>1. r \in Replicas
    OBVIOUS
  <1> SUFFICES ASSUME NEW s \in Signers, AllUntroubled(s)',
                      NEW t \in Submitted', NEW u \in Submitted',
                      SignerOf[txs'[t].item] = s, SignerOf[txs'[u].item] = s,
                      txs'[t].nonce = txs'[u].nonce
               PROVE  t = u
    BY DEF FreshNoncesDistinct, AllUntroubled
  <1>2. AllUntroubled(s)
    BY AllUntroubledBefore
  <1>3. ASSUME NEW v \in Submitted
        PROVE  txs'[v].item = txs[v].item /\ txs'[v].nonce = txs[v].nonce
    BY NextGrows DEF TableGrows, Grows
  <1>4. CASE t \in Submitted /\ u \in Submitted
    BY <1>2, <1>3, <1>4 DEF FreshNoncesDistinct, AllUntroubled
  <1>5. ASSUME t \notin Submitted \/ u \notin Submitted, t # u
        PROVE  FALSE
    <2>1. SubmitAccepted(r)
      BY <1>5, OnlySubmitting
    <2>2. PICK m \in Nat : m = Len(txs)
      BY LenProperties DEF IInv, TxsType
    <2>3. PICK i \in Items : i = worker[r].item
      BY <1>1, <2>1 DEF SubmitAccepted, IInv, WorkersFit, Fits
    <2>4. PICK n \in Nat : n = worker[r].nonce
      BY <1>1, <2>1 DEF SubmitAccepted, IInv, WorkersFit, Fits
    <2>5. /\ Len(txs') = m + 1
          /\ txs'[m + 1].item = i /\ txs'[m + 1].nonce = n
      BY <1>1, <2>1, <2>2, <2>3, <2>4, AcceptedGrows
         DEF SubmitAccepted, Accepted, IInv, TxsType
    <2>6. PICK v \in Submitted : {t, u} = {v, m + 1}
      BY <1>5, <2>2, <2>5 DEF Submitted
    <2>7. SignerOf[i] = s /\ SignerOf[txs[v].item] = s /\ txs[v].nonce = n
      BY <1>3, <2>5, <2>6
    <2>8. items[i].nonce = None
      <3>1. Untroubled(i)'
        BY <2>7 DEF AllUntroubled
      <3> QED BY <1>1, <2>1, <2>3, <3>1, ResubmittedIsTrouble
    <2>9. nextNonce[s] = n
      BY <2>1, <2>3, <2>4, <2>7, <2>8 DEF TakesNext, SubmitAccepted
    <2>10. txs[v].nonce < nextNonce[s]
      BY <1>2, <2>1, <2>7 DEF Below, SubmitAccepted, Failing
    <2> QED BY <2>4, <2>7, <2>9, <2>10
  <1> QED BY <1>4, <1>5

\* With one replica, and nonces left to the queue: as long as no item of a signer
\* was submitted twice, retried after a failure or cut off, no two transactions of
\* the signer have the same nonce, although allocateNonce reserves nothing.
THEOREM FreshNoncesDistinctHolds ==
  ASSUME NEW r, Replicas = {r}, ClientNonces = {None}
  PROVE  Spec => []FreshNoncesDistinct
  <1> DEFINE Inv == /\ KnownNonce(r) /\ NonceHasHash /\ StateMade(r) /\ TakesNext(r)
                    /\ \A s \in Signers : Below(r, s)
                    /\ FreshNoncesDistinct
  <1>1. Init => Inv
    BY DEF Init, InitGateway, KnownNonce, NoTick, Absent, NonceHasHash, StateMade,
           TakesNext, Below, FreshNoncesDistinct, Submitted
  <1>2. IInv /\ IInv' /\ Inv /\ [Next]_vars => Inv'
    <2> SUFFICES ASSUME IInv, IInv', Inv, [Next]_vars PROVE Inv'
      OBVIOUS
    <2>1. ASSUME NEW s \in Signers PROVE Below(r, s)'
      BY BelowKept
    <2> QED BY <2>1, KnownNonceKept, NonceHasHashKept, StateMadeKept, TakesNextKept,
               FreshNoncesKept
  <1>3. Inv => FreshNoncesDistinct
    OBVIOUS
  <1> HIDE DEF Inv
  <1> QED BY <1>1, <1>2, <1>3, IInvHolds, PTL DEF Spec
-----------------------------------------------------------------------------
(* A tick ends: what Settles rests on, beside the fairness. *)

Stages == {"idle", "pick", "mark", "allocate", "create", "submit", "record",
           "advance", "recover", "rewind", "fail"}

\* How far the worker is from being done with the item it is on ...
Stage == [pc \in Stages |->
  CASE pc = "idle" -> 0
    [] pc = "pick" -> 1
    [] pc = "fail" -> 2
    [] pc = "rewind" -> 3
    [] pc = "recover" -> 4
    [] pc = "advance" -> 5
    [] pc = "record" -> 6
    [] pc = "submit" -> 7
    [] pc = "create" -> 8
    [] pc = "allocate" -> 9
    [] pc = "mark" -> 10]

\* ... and with its tick.
Left(r) == 10 * Cardinality(worker[r].batch) + Stage[worker[r].pc]

\* A worker that is in a tick only gets closer to its end.
TicksEnd ==
  [][\A r \in Replicas :
       worker'[r] # worker[r] =>
         worker[r].pc = "idle" \/ Left(r)' < Left(r)]_vars

\* The step of the worker of r is one towards the end.
NearerEnd(r) == OthersStay(r) /\ (worker[r].pc = "idle" \/ Left(r)' < Left(r))

LEMMA StageValues ==
  /\ Stage["idle"] = 0 /\ Stage["pick"] = 1 /\ Stage["fail"] = 2
  /\ Stage["rewind"] = 3 /\ Stage["recover"] = 4
  /\ Stage["advance"] = 5 /\ Stage["record"] = 6
  /\ Stage["submit"] = 7 /\ Stage["create"] = 8
  /\ Stage["allocate"] = 9 /\ Stage["mark"] = 10
  BY DEF Stages, Stage

LEMMA StageType ==
  ASSUME NEW pc \in Stages
  PROVE  /\ Stage[pc] \in 0..10
         /\ pc \notin {"idle", "pick"} => Stage[pc] >= 2
  BY StageValues DEF Stages

LEMMA BatchCount ==
  ASSUME IInv, IsFiniteSet(Items), NEW r \in Replicas
  PROVE  /\ worker[r] \in Tick /\ worker[r].pc \in Stages
         /\ worker[r].batch \in SUBSET Items
         /\ IsFiniteSet(worker[r].batch)
         /\ Cardinality(worker[r].batch) \in Nat
  <1>1. worker[r] \in Tick
    BY DEF IInv, WorkerType
  <1>2. worker[r].pc \in Stages /\ worker[r].batch \in SUBSET Items
    BY <1>1 DEF Tick, Stages
  <1> QED BY <1>1, <1>2, FS_Subset, FS_CardinalityType

\* The tick of the worker of r, having learnt something about its item.
Learnt(r, w) ==
  \/ w = worker[r]
  \/ \E n : w = [worker[r] EXCEPT !.nonce = n]
  \/ \E t : w = [worker[r] EXCEPT !.tx = t]
  \/ \E e : w = [worker[r] EXCEPT !.error = e]
  \/ \E n : w = [worker[r] EXCEPT !.seen = n]

\* A step to a later stage of the same item.
LEMMA GoNearer ==
  ASSUME IInv, IsFiniteSet(Items), NEW r \in Replicas, NEW pc \in Stages, NEW w,
         Learnt(r, w), Go(r, pc, w), Stage[pc] < Stage[worker[r].pc]
  PROVE  NearerEnd(r)
  <1>1. PICK v : v = [w EXCEPT !.pc = pc]
    OBVIOUS
  <1>2. v.pc = pc /\ v.batch = worker[r].batch
    <2>1. worker[r] \in Tick
      BY BatchCount
    <2>2. w.batch = worker[r].batch /\ DOMAIN w = DOMAIN worker[r]
      BY <2>1 DEF Learnt, Tick
    <2> QED BY <1>1, <2>1, <2>2 DEF Tick
  <1>3. worker' = [worker EXCEPT ![r] = v]
    BY <1>1 DEF Go
  <1>4. worker'[r] = v /\ OthersStay(r)
    BY <1>3 DEF OthersStay, IInv, WorkerType
  <1>5. PICK n \in Nat : n = Cardinality(worker[r].batch)
    BY BatchCount
  <1>6. /\ Left(r) = 10 * n + Stage[worker[r].pc]
        /\ Left(r)' = 10 * n + Stage[pc]
    BY <1>2, <1>4, <1>5 DEF Left
  <1>7. Stage[pc] \in 0..10 /\ Stage[worker[r].pc] \in 0..10
    BY BatchCount, StageType
  <1> QED BY <1>4, <1>6, <1>7 DEF NearerEnd

\* A worker that is done with its item, or with its tick.
LEMMA RestNearer ==
  ASSUME IInv, IsFiniteSet(Items), NEW r \in Replicas,
         NEW rest, GoOnWith(r, rest),
         \/ /\ worker[r].pc \notin {"idle", "pick"}
            /\ rest \in {worker[r].batch, {}}
         \/ \E i \in worker[r].batch :
              worker[r].pc = "pick" /\ rest = worker[r].batch \ {i}
  PROVE  NearerEnd(r)
  <1>1. PICK v : v = IF rest = {} THEN NoTick
                     ELSE [NoTick EXCEPT !.pc = "pick", !.batch = rest]
    OBVIOUS
  <1>2. v.batch = rest /\ v.pc = IF rest = {} THEN "idle" ELSE "pick"
    BY <1>1 DEF NoTick
  <1>3. worker' = [worker EXCEPT ![r] = v]
    BY <1>1 DEF GoOnWith
  <1>4. worker'[r] = v /\ OthersStay(r)
    BY <1>3 DEF OthersStay, IInv, WorkerType
  <1>5. PICK n \in Nat : n = Cardinality(worker[r].batch)
    BY BatchCount
  <1>6. PICK m \in Nat :
          /\ m = Cardinality(rest) /\ m <= n
          /\ worker[r].pc = "pick" => m < n
    <2>1. CASE rest = worker[r].batch /\ worker[r].pc # "pick"
      BY <1>5, <2>1
    <2>2. CASE rest = {} /\ worker[r].pc # "pick"
      BY <2>2, FS_EmptySet
    <2>3. CASE \E i \in worker[r].batch :
                 worker[r].pc = "pick" /\ rest = worker[r].batch \ {i}
      <3>1. PICK i \in worker[r].batch : rest = worker[r].batch \ {i}
        BY <2>3
      <3>2. IsFiniteSet(rest) /\ Cardinality(rest) = n - 1 /\ n # 0
        BY <1>5, <3>1, BatchCount, FS_RemoveElement, FS_EmptySet
      <3> QED BY <3>2
    <2> QED BY <2>1, <2>2, <2>3
  <1>7. /\ Left(r) = 10 * n + Stage[worker[r].pc]
        /\ Left(r)' = 10 * m + Stage[v.pc]
    BY <1>2, <1>4, <1>5, <1>6 DEF Left
  <1>8. Stage[v.pc] <= 1 /\ Stage[v.pc] \in Nat
    BY <1>2, StageValues
  <1>9. /\ Stage[worker[r].pc] \in Nat
        /\ worker[r].pc \notin {"idle", "pick"} => Stage[worker[r].pc] >= 2
        /\ worker[r].pc = "pick" => Stage[worker[r].pc] = 1
    <2>1. PICK pc \in Stages : pc = worker[r].pc
      BY BatchCount
    <2>2. Stage[pc] \in 0..10 /\ (pc \notin {"idle", "pick"} => Stage[pc] >= 2)
      BY StageType
    <2> QED BY <2>1, <2>2, StageValues
  <1> QED BY <1>4, <1>6, <1>7, <1>8, <1>9 DEF NearerEnd

LEMMA StepsGoNearer ==
  ASSUME IInv, IsFiniteSet(Items), NEW r \in Replicas,
         \/ MarkProcessing(r) \/ AllocateNonce(r) \/ CreateNonceState(r)
         \/ SubmitAccepted(r) \/ \E e \in Errors : SubmitRejected(r, e)
         \/ RecordSubmission(r) \/ RecoverRead(r) \/ RecoverWrite(r)
         \/ \E e \in DbErrorClass : DbErrorAfterSubmit(r, e)
  PROVE  NearerEnd(r)
  <1>1. CASE MarkProcessing(r)
    <2>1. Learnt(r, worker[r])
      BY DEF Learnt
    <2>2. Go(r, "allocate", worker[r])
      BY <1>1 DEF MarkProcessing
    <2>3. worker[r].pc = "mark"
      BY <1>1 DEF MarkProcessing
    <2>4. "allocate" \in Stages /\ Stage["allocate"] < Stage[worker[r].pc]
      BY <2>3, StageValues DEF Stages
    <2> QED BY <2>1, <2>2, <2>4, GoNearer
  <1>2. CASE AllocateNonce(r)
    <2>1. PICK w : w = [worker[r] EXCEPT !.nonce = Allocation(worker[r].fresh, worker[r].item)]
      OBVIOUS
    <2>2. Learnt(r, w)
      BY <2>1 DEF Learnt
    <2>3. Learnt(r, worker[r])
      BY DEF Learnt
    <2>4. Go(r, "create", worker[r]) \/ Go(r, "submit", w)
      BY <1>2, <2>1 DEF AllocateNonce, Go
    <2>5. worker[r].pc = "allocate"
      BY <1>2 DEF AllocateNonce
    <2>6. /\ "create" \in Stages /\ Stage["create"] < Stage[worker[r].pc]
          /\ "submit" \in Stages /\ Stage["submit"] < Stage[worker[r].pc]
      BY <2>5, StageValues DEF Stages
    <2> QED BY <2>2, <2>3, <2>4, <2>6, GoNearer
  <1>3. CASE CreateNonceState(r)
    <2>1. PICK w : w = [worker[r] EXCEPT !.nonce = 0]
      OBVIOUS
    <2>2. Learnt(r, w)
      BY <2>1 DEF Learnt
    <2>3. Go(r, "submit", w)
      BY <1>3, <2>1 DEF CreateNonceState, Go
    <2>4. worker[r].pc = "create"
      BY <1>3 DEF CreateNonceState
    <2>5. "submit" \in Stages /\ Stage["submit"] < Stage[worker[r].pc]
      BY <2>4, StageValues DEF Stages
    <2> QED BY <2>2, <2>3, <2>5, GoNearer
  <1>4. CASE SubmitAccepted(r)
    <2>1. PICK w : w = [worker[r] EXCEPT !.tx = Len(txs) + 1]
      OBVIOUS
    <2>2. Learnt(r, w)
      BY <2>1 DEF Learnt
    <2>3. Go(r, "record", w)
      BY <1>4, <2>1 DEF SubmitAccepted, Go
    <2>4. worker[r].pc = "submit"
      BY <1>4 DEF SubmitAccepted
    <2>5. "record" \in Stages /\ Stage["record"] < Stage[worker[r].pc]
      BY <2>4, StageValues DEF Stages
    <2> QED BY <2>2, <2>3, <2>5, GoNearer
  <1>5. CASE \E e \in Errors : SubmitRejected(r, e)
    <2>1. PICK e \in Errors : SubmitRejected(r, e)
      BY <1>5
    <2>2. PICK w : w = [worker[r] EXCEPT !.error = e]
      OBVIOUS
    <2>3. Learnt(r, w)
      BY <2>2 DEF Learnt
    <2>4. Go(r, "fail", w) \/ Go(r, "recover", w)
      BY <2>1, <2>2 DEF SubmitRejected, ToFailure, Go
    <2>5. worker[r].pc = "submit"
      BY <2>1 DEF SubmitRejected
    <2>6. /\ "fail" \in Stages /\ Stage["fail"] < Stage[worker[r].pc]
          /\ "recover" \in Stages /\ Stage["recover"] < Stage[worker[r].pc]
      BY <2>5, StageValues DEF Stages
    <2> QED BY <2>3, <2>4, <2>6, GoNearer
  <1>6. CASE RecordSubmission(r)
    <2>1. Learnt(r, worker[r])
      BY DEF Learnt
    <2>2. Go(r, "advance", worker[r])
      BY <1>6 DEF RecordSubmission
    <2>3. worker[r].pc = "record"
      BY <1>6 DEF RecordSubmission
    <2>4. "advance" \in Stages /\ Stage["advance"] < Stage[worker[r].pc]
      BY <2>3, StageValues DEF Stages
    <2> QED BY <2>1, <2>2, <2>4, GoNearer
  <1>7. CASE RecoverRead(r)
    <2>1. PICK w : w = [worker[r] EXCEPT !.seen = nextNonce[SignerOf[worker[r].item]]]
      OBVIOUS
    <2>2. Learnt(r, w)
      BY <2>1 DEF Learnt
    <2>3. Go(r, "rewind", w)
      BY <1>7, <2>1 DEF RecoverRead, Go
    <2>4. worker[r].pc = "recover"
      BY <1>7 DEF RecoverRead
    <2>5. "rewind" \in Stages /\ Stage["rewind"] < Stage[worker[r].pc]
      BY <2>4, StageValues DEF Stages
    <2> QED BY <2>2, <2>3, <2>5, GoNearer
  <1>8. CASE RecoverWrite(r)
    <2>1. Learnt(r, worker[r])
      BY DEF Learnt
    <2>2. Go(r, "fail", worker[r])
      BY <1>8 DEF RecoverWrite
    <2>3. worker[r].pc = "rewind"
      BY <1>8 DEF RecoverWrite
    <2>4. "fail" \in Stages /\ Stage["fail"] < Stage[worker[r].pc]
      BY <2>3, StageValues DEF Stages
    <2> QED BY <2>1, <2>2, <2>4, GoNearer
  <1>9. CASE \E e \in DbErrorClass : DbErrorAfterSubmit(r, e)
    <2>1. PICK e \in DbErrorClass : DbErrorAfterSubmit(r, e)
      BY <1>9
    <2>2. PICK w : w = [worker[r] EXCEPT !.error = e]
      OBVIOUS
    <2>3. Learnt(r, w)
      BY <2>2 DEF Learnt
    <2>4. Go(r, "fail", w) \/ Go(r, "recover", w)
      BY <2>1, <2>2 DEF DbErrorAfterSubmit, ToFailure, Go
    <2>5. worker[r].pc = "record" \/ worker[r].pc = "advance"
      BY <2>1 DEF DbErrorAfterSubmit
    <2>6. /\ "fail" \in Stages /\ Stage["fail"] < Stage[worker[r].pc]
          /\ "recover" \in Stages /\ Stage["recover"] < Stage[worker[r].pc]
      BY <2>5, StageValues DEF Stages
    <2> QED BY <2>3, <2>4, <2>6, GoNearer
  <1> QED BY <1>1, <1>2, <1>3, <1>4, <1>5, <1>6, <1>7, <1>8, <1>9

LEMMA ReadsNearer ==
  ASSUME IInv, IsFiniteSet(Items), NEW r \in Replicas, NEW i \in Items,
         ReadFresh(r, i)
  PROVE  NearerEnd(r)
  <1>1. i \in worker[r].batch /\ worker[r].pc = "pick"
    BY DEF ReadFresh
  <1>2. PICK rest : rest = worker[r].batch \ {i}
    OBVIOUS
  <1>3. CASE GoOnWith(r, rest)
    BY <1>1, <1>2, <1>3, RestNearer
  <1>4. CASE Go(r, "mark", [worker[r] EXCEPT !.batch = rest, !.item = i,
                                            !.fresh = items[i]])
    <2>1. PICK v : v = [[worker[r] EXCEPT !.batch = rest, !.item = i,
                                          !.fresh = items[i]] EXCEPT !.pc = "mark"]
      OBVIOUS
    <2>2. v.pc = "mark" /\ v.batch = rest
      <3>1. worker[r] \in Tick
        BY BatchCount
      <3> QED BY <2>1, <3>1 DEF Tick
    <2>3. worker' = [worker EXCEPT ![r] = v]
      BY <1>4, <2>1 DEF Go
    <2>4. worker'[r] = v /\ OthersStay(r)
      BY <2>3 DEF OthersStay, IInv, WorkerType
    <2>5. PICK n \in Nat : n = Cardinality(worker[r].batch)
      BY BatchCount
    <2>6. Cardinality(rest) = n - 1
      BY <1>1, <1>2, <2>5, BatchCount, FS_RemoveElement
    <2>7. Left(r) = 10 * n + 1 /\ Left(r)' = 10 * (n - 1) + 10
      BY <1>1, <2>2, <2>4, <2>5, <2>6, StageValues DEF Left
    <2> QED BY <2>4, <2>7 DEF NearerEnd
  <1> QED BY <1>2, <1>3, <1>4 DEF ReadFresh

LEMMA RestsNearer ==
  ASSUME IInv, IsFiniteSet(Items), NEW r \in Replicas,
         \/ AdvanceNonceState(r) \/ RecordFailure(r) \/ LoseCreateRace(r)
         \/ DbErrorOutsideTry(r)
  PROVE  NearerEnd(r)
  <1>1. worker[r].pc \notin {"idle", "pick"}
    BY DEF AdvanceNonceState, RecordFailure, LoseCreateRace, DbErrorOutsideTry
  <1>2. GoOnWith(r, worker[r].batch) \/ GoOnWith(r, {})
    BY DEF AdvanceNonceState, RecordFailure, LoseCreateRace, DbErrorOutsideTry,
           CutOff, Done
  <1> QED BY <1>1, <1>2, RestNearer

LEMMA CrashNearer ==
  ASSUME IInv, IsFiniteSet(Items), NEW r \in Replicas, Crash(r)
  PROVE  NearerEnd(r)
  <1>1. OthersStay(r) /\ worker'[r] = NoTick
    BY DEF Crash, OthersStay, IInv, WorkerType
  <1>2. Left(r)' = 0
    BY <1>1, FS_EmptySet, StageValues DEF Left, NoTick
  <1>3. PICK n \in Nat, pc \in Stages :
          n = Cardinality(worker[r].batch) /\ pc = worker[r].pc
    BY BatchCount
  <1>4. Left(r) = 10 * n + Stage[pc]
    BY <1>3 DEF Left
  <1>5. pc = "idle" \/ Stage[pc] >= 1
    BY StageValues DEF Stages
  <1>6. Stage[pc] \in 0..10
    BY StageType
  <1> QED BY <1>1, <1>2, <1>3, <1>4, <1>5, <1>6 DEF NearerEnd

\* However a tick goes (another tick's writes, errors of the database or of the
\* gateway, a crash), each step of a replica's worker leaves it less to do: it is
\* through with a batch of n items in at most 10n + 1 steps of its own, and no step
\* of another process sends it back (processQueuedTransactions and
\* processSingleItem have no loop but the one over the batch).
THEOREM TickEnds ==
  ASSUME IsFiniteSet(Items)
  PROVE  Spec => TicksEnd
  <1>1. ASSUME IInv, [Next]_vars
        PROVE  \/ UNCHANGED worker
               \/ \E r \in Replicas : NearerEnd(r)
    <2>1. CASE World
      BY <1>1, <2>1, StepsGoNearer, RestsNearer, CrashNearer
         DEF World, RetryNow, CancelRead, CancelWrite, Enqueue, GetSignerNonceState,
             BumpFee, PollError
    <2>2. CASE \E r \in Replicas : WorkerStep(r)
      BY <1>1, <2>2, StepsGoNearer, ReadsNearer, RestsNearer DEF WorkerStep
    <2>3. CASE \E r \in Replicas : PollStep(r)
      BY <2>3 DEF PollStep, StartPoll, PollItem
    <2>4. CASE \E r \in Replicas, batch \in SUBSET Candidates : StartTick(r, batch)
      <3>1. PICK r \in Replicas, batch \in SUBSET Candidates : StartTick(r, batch)
        BY <2>4
      <3>2. OthersStay(r) /\ worker[r].pc = "idle"
        BY <1>1, <3>1, OthersStayPut DEF StartTick
      <3> QED BY <3>2 DEF NearerEnd
    <2>5. CASE UNCHANGED vars
      BY <2>5 DEF vars
    <2> QED BY <1>1, <2>1, <2>2, <2>3, <2>4, <2>5 DEF Next
  <1>2. IInv /\ [Next]_vars =>
          [\A r \in Replicas :
             worker'[r] # worker[r] =>
               worker[r].pc = "idle" \/ Left(r)' < Left(r)]_vars
    BY <1>1 DEF NearerEnd, OthersStay
  <1> QED BY <1>2, IInvHolds, PTL DEF Spec, TicksEnd

=============================================================================
