------------------------- MODULE MCTransactionQueue -------------------------
(* Small instances of TransactionQueue for TLC: all items have one signer. *)
EXTENDS TransactionQueue, TLC

CONSTANTS i1, i2, r1, r2, s1

MCSignerOf == [i \in Items |-> s1]
NoClientNonce == {None}
SomeClientNonce == {None, 0}
ReplicaSymmetry == Permutations(Replicas)
=============================================================================
