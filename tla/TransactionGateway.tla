------------------------- MODULE TransactionGateway -------------------------
(***************************************************************************)
(* The gateway the transaction queue submits through                       *)
(* (Backend/src/transaction-queue/transaction-gateway.service.ts), in the  *)
(* simulation mode it runs in by default. Its table of transactions lives  *)
(* in the memory of one replica: another replica, or the same one after a  *)
(* restart, does not find a transaction in it and reports it FAILED.       *)
(*                                                                         *)
(* A transaction is a number, in the order of submission; hashes carry a   *)
(* random seed and never collide. Each operator is what happens between    *)
(* two awaits, given to the actions of TransactionQueue.                   *)
(***************************************************************************)
EXTENDS Integers, Sequences

CONSTANTS
  Items,            \* the queue items transactions are submitted for
  Replicas,         \* instances of the backend
  None,             \* null
  PollsToConfirm    \* the polls after which a transaction confirms (3)

ASSUME GatewayAssumption ==
  /\ PollsToConfirm \in Nat \ {0, 1}
  /\ None \notin Int
  /\ None \notin Replicas

VARIABLE txs        \* the transactions of all replicas' tables

Transaction ==
  [ item  : Items,
    nonce : Nat,
    home  : Replicas \cup {None},   \* whose table holds it; None once lost
    polls : 0..PollsToConfirm ]     \* counted no further: nothing changes

\* Every transaction ever submitted.
Submitted == 1..Len(txs)

Confirmed(t) == txs[t].polls = PollsToConfirm

InitGateway == txs = <<>>

\* submitTransaction: the new transaction is the last of txs.
Accepted(r, i, n) ==
  txs' = Append(txs, [item |-> i, nonce |-> n, home |-> r, polls |-> 0])

\* getTransactionStatus: what replica r answers about t, and the count.
Status(r, t) == IF txs[t].home # r THEN "FAILED"
                ELSE IF txs[t].polls + 1 >= PollsToConfirm THEN "CONFIRMED"
                ELSE "PENDING"

Polled(r, t) ==
  IF txs[t].home = r /\ ~Confirmed(t)
  THEN txs' = [txs EXCEPT ![t].polls = @ + 1]
  ELSE UNCHANGED txs

\* getTransactionStatus (still pending), then bumpFee, which is accepted for
\* a transaction in the table and leaves it one poll short of confirming.
PolledAndBumped(r, t) ==
  /\ txs[t].home = r
  /\ txs' = [txs EXCEPT ![t].polls = PollsToConfirm - 1]

\* The process of replica r ends: its table is gone.
Lost(r) ==
  txs' = [t \in Submitted |-> IF txs[t].home = r
                              THEN [txs[t] EXCEPT !.home = None] ELSE txs[t]]
=============================================================================
