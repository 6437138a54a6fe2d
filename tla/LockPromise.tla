----------------------------- MODULE LockPromise -----------------------------
(***************************************************************************)
(* What the lock service promises to the code that runs under it           *)
(* (Backend/src/redis/distributed-lock.service.ts). A lock has at most one *)
(* holder; locks are taken in ascending order; an operation of a reliable  *)
(* client runs inside its locks, and they are neither released nor lost    *)
(* before it is over. Tokens, times to live, renewals, hold counts and the *)
(* nesting of calls are left to the implementation.                        *)
(***************************************************************************)
EXTENDS Integers

CONSTANTS Clients, Reliable, Locks, None

VARIABLES
  holder,     \* of every lock
  inside      \* the locks the operations of every reliable client run under

vars == <<holder, inside>>

HeldBy(c) == {k \in Locks : holder[k] = c}

Init ==
  /\ holder = [k \in Locks |-> None]
  /\ inside = [c \in Reliable |-> {}]

\* A free lock is taken, by a client that has no later one.
Acquire(c, k) ==
  /\ holder[k] = None
  /\ \A h \in HeldBy(c) : h < k
  /\ holder' = [holder EXCEPT ![k] = c]
  /\ UNCHANGED inside

\* An operation starts under locks its client has.
Enter(c, locks) ==
  /\ locks \subseteq HeldBy(c)
  /\ inside' = [inside EXCEPT ![c] = @ \cup locks]
  /\ UNCHANGED holder

\* An operation ends; those around it stay under their locks.
Leave(c, locks) ==
  /\ locks \subseteq inside[c]
  /\ inside' = [inside EXCEPT ![c] = locks]
  /\ UNCHANGED holder

\* A lock is given back, by a reliable client only when no operation needs it.
Release(c, k) ==
  /\ holder[k] = c
  /\ c \in Reliable => k \notin inside[c]
  /\ holder' = [holder EXCEPT ![k] = None]
  /\ UNCHANGED inside

\* Locks are lost, by clients that are not reliable.
Lapse(lost) ==
  /\ \A k \in lost : holder[k] \notin Reliable
  /\ holder' = [k \in Locks |-> IF k \in lost THEN None ELSE holder[k]]
  /\ UNCHANGED inside

Next ==
  \/ \E c \in Clients, k \in Locks : Acquire(c, k) \/ Release(c, k)
  \/ \E c \in Reliable, locks \in SUBSET Locks : Enter(c, locks) \/ Leave(c, locks)
  \/ \E lost \in SUBSET Locks : Lapse(lost)

Spec == Init /\ [][Next]_vars

\* No two operations of different reliable clients run under one lock.
Exclusion ==
  \A c \in Reliable, d \in Reliable : c # d => inside[c] \cap inside[d] = {}
=============================================================================
