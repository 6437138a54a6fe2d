------------------------- MODULE MCDistributedLock -------------------------
(* A small instance of DistributedLock for TLC: a healthy context that nests   *)
(* calls, and another one that may be late, fail or stop, on two keys.        *)
EXTENDS DistributedLock, TLC

CONSTANTS c1, c2

MCRequests == (c1 :> {{2}, {1, 2}}) @@ (c2 :> {{1, 2}})
=============================================================================
