-------------------------- MODULE LockPromiseProofs --------------------------
(* The promise of LockPromise is strong enough for mutual exclusion. *)
EXTENDS LockPromise, TLAPS

Types ==
  /\ holder \in [Locks -> Clients \cup {None}]
  /\ inside \in [Reliable -> SUBSET Locks]

\* Every operation's client has the locks it runs under.
InsideHeld == \A c \in Reliable : inside[c] \subseteq HeldBy(c)

LEMMA InitHolds ==
  ASSUME Init
  PROVE  Types /\ InsideHeld
  BY DEF Init, Types, InsideHeld

LEMMA NextKeepsInside ==
  ASSUME Reliable \subseteq Clients, None \notin Clients,
         Types, InsideHeld, [Next]_vars
  PROVE  (Types /\ InsideHeld)'
  <1>1. ASSUME NEW c \in Clients, NEW k \in Locks, Acquire(c, k)
        PROVE  (Types /\ InsideHeld)'
    <2>1. Types'
      BY <1>1 DEF Acquire, Types
    <2>2. InsideHeld'
      BY <1>1 DEF Acquire, Types, InsideHeld, HeldBy
    <2> QED BY <2>1, <2>2
  <1>2. ASSUME NEW c \in Clients, NEW k \in Locks, Release(c, k)
        PROVE  (Types /\ InsideHeld)'
    <2>1. Types'
      BY <1>2 DEF Release, Types
    <2>2. InsideHeld'
      BY <1>2 DEF Release, Types, InsideHeld, HeldBy
    <2> QED BY <2>1, <2>2
  <1>3. ASSUME NEW c \in Reliable, NEW locks \in SUBSET Locks,
               Enter(c, locks) \/ Leave(c, locks)
        PROVE  (Types /\ InsideHeld)'
    <2>1. Types'
      BY <1>3 DEF Enter, Leave, Types
    <2>2. InsideHeld'
      BY <1>3 DEF Enter, Leave, Types, InsideHeld, HeldBy
    <2> QED BY <2>1, <2>2
  <1>4. ASSUME NEW lost \in SUBSET Locks, Lapse(lost)
        PROVE  (Types /\ InsideHeld)'
    <2>1. Types'
      BY <1>4 DEF Lapse, Types
    <2>2. InsideHeld'
      BY <1>4 DEF Lapse, Types, InsideHeld, HeldBy
    <2> QED BY <2>1, <2>2
  <1>5. CASE UNCHANGED vars
    BY <1>5 DEF vars, Types, InsideHeld, HeldBy
  <1> QED BY <1>1, <1>2, <1>3, <1>4, <1>5 DEF Next

\* No two operations of different reliable clients ever run under one lock.
THEOREM ExclusionHolds ==
  ASSUME Reliable \subseteq Clients, None \notin Clients
  PROVE  Spec => []Exclusion
  <1>1. Init => Types /\ InsideHeld
    BY InitHolds
  <1>2. Types /\ InsideHeld /\ [Next]_vars => (Types /\ InsideHeld)'
    BY NextKeepsInside
  <1>3. Types /\ InsideHeld => Exclusion
    BY DEF InsideHeld, HeldBy, Exclusion
  <1> QED BY <1>1, <1>2, <1>3, PTL DEF Spec
=============================================================================
