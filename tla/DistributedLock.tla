--------------------------- MODULE DistributedLock ---------------------------
(***************************************************************************)
(* The lock operations run under                                           *)
(* (Backend/src/redis/distributed-lock.service.ts): a key in Redis with a  *)
(* random token and a time to live, renewed by a timer of its holder.      *)
(*                                                                         *)
(* A context is one asynchronous execution, of any instance. It runs its   *)
(* calls of executeWithLock one inside the other (a stack of frames) and   *)
(* keeps the table of the locks it holds; one that branches and runs two   *)
(* calls side by side is not modelled. A context has at most one lock on a *)
(* key at a time, so the context stands for the token.                     *)
(*                                                                         *)
(* Time is discrete and kept in countdowns. A Healthy context's Redis      *)
(* calls succeed, and neither they nor its timer come more than MaxDelay   *)
(* late. Any other context may be late without bound, see calls fail, or   *)
(* stop (it then just takes no step).                                      *)
(***************************************************************************)
EXTENDS Integers, Sequences, FiniteSets

CONSTANTS
  Contexts,
  Healthy,       \* the contexts that are never late and see no errors
  Keys,          \* numbers, in the order localeCompare gives the lock keys
  Requests,      \* the sets of keys the operations of every context ask for
  Ttls,          \* the ttlMs calls ask for
  Timeout,       \* timeoutMs
  MinInterval,   \* the least interval of the renewal timer, 1 s
  MaxDelay,
  MaxDepth,      \* bound on the nesting of calls and on hold counts
  None

\* The interval of the renewal timer of a lock taken for ttl.
Interval(ttl) == IF ttl \div 3 < MinInterval THEN MinInterval ELSE ttl \div 3

\* LeaseAssumption: a lease outlives the wait for its next renewal, be it set
\* by the call that made the timer or by a nested one with another ttlMs.
ASSUME LockAssumption ==
  /\ Healthy \subseteq Contexts
  /\ None \notin Contexts
  /\ Keys \subseteq Nat
  /\ Requests \in [Contexts -> SUBSET ((SUBSET Keys) \ {{}})]
  /\ Ttls \subseteq Nat \ {0}
  /\ Timeout \in Nat
  /\ MinInterval \in Nat \ {0}
  /\ MaxDelay \in Nat
  /\ MaxDepth \in Nat
ASSUME LeaseAssumption ==
  \A t \in Ttls, u \in Ttls : Interval(t) + 2 * MaxDelay < u

VARIABLES
  redis,     \* the owner of every key, and what is left of its time to live
  frames,    \* the calls of executeWithLock every context is in
  held       \* heldLocks: count, ttl and timer of the locks it believes to hold

vars == <<redis, frames, held>>

Entry == [owner : Contexts \cup {None}, left : Nat]

Frame ==
  [ pc   : {"acquire", "enter", "run", "release"},
    todo : SUBSET Keys,       \* the keys still to acquire
    got  : SUBSET Keys,       \* acquiredLocks
    ttl  : Ttls,
    wait : Nat ]              \* time since it began to wait for what it awaits

HeldLock ==
  [ count : Nat,              \* holdCount; 0 when the table has no record
    ttl   : Nat,
    every : Nat,              \* interval of the renewal timer; 0 when none runs
    due   : Int ]             \* time until it fires next; negative when late

Free == [owner |-> None, left |-> 0]
NotHeld == [count |-> 0, ttl |-> 0, every |-> 0, due |-> 0]

Top(c) == frames[c][Len(frames[c])]
At(c, pc) == frames[c] # <<>> /\ Top(c).pc = pc

\* The context changes its innermost frame.
SetTop(c, frame) == frames' = [frames EXCEPT ![c][Len(frames[c])] = frame]

Holds(c) == {k \in Keys : held[c][k].count > 0}

\* Keys are acquired in ascending order.
NextKey(c) == CHOOSE k \in Top(c).todo : \A j \in Top(c).todo : k <= j

\* The key the context is waiting for, if it is.
Awaits(c, k) == At(c, "acquire") /\ Top(c).todo # {} /\ k = NextKey(c)

Init ==
  /\ redis = [k \in Keys |-> Free]
  /\ frames = [c \in Contexts |-> <<>>]
  /\ held = [c \in Contexts |-> [k \in Keys |-> NotHeld]]

-----------------------------------------------------------------------------
\* validateLockOrdering: no key is requested that is not held yet and comes
\* before one that is.
InOrder_Bug(c, keys) == TRUE
InOrder(c, keys) ==
  \A k \in keys \ Holds(c) : \A h \in Holds(c) : h <= k

\* executeWithLock, from outside or from within the operation of another call.
Call(c, keys, ttl) ==
  /\ frames[c] = <<>> \/ At(c, "run")
  /\ Len(frames[c]) < MaxDepth
  /\ \A k \in keys : held[c][k].count < MaxDepth
  /\ InOrder(c, keys)
  /\ frames' = [frames EXCEPT ![c] = Append(@,
       [pc |-> "acquire", todo |-> keys, got |-> {}, ttl |-> ttl, wait |-> 0])]
  /\ UNCHANGED <<redis, held>>

\* The innermost call has its next lock.
Acquired(c) ==
  LET f == Top(c) IN
  SetTop(c, [f EXCEPT !.pc = "acquire", !.todo = @ \ {NextKey(c)},
                      !.got = @ \cup {NextKey(c)}, !.wait = 0])

\* refreshLock: only the token that is stored is renewed.
Refreshed(c, k, ttl) ==
  IF redis[k].owner = c THEN [redis EXCEPT ![k].left = ttl] ELSE redis

\* acquireSingleLock of a key the table has: counted once more, and renewed
\* with the new time to live; the timer keeps its interval.
HoldAgain_Bug(lock, t) == [lock EXCEPT !.ttl = t]
HoldAgain(lock, t) == [lock EXCEPT !.count = @ + 1, !.ttl = t]

Reenter(c) ==
  LET k == NextKey(c) IN
  /\ At(c, "acquire")
  /\ Top(c).todo # {}
  /\ held[c][k].count > 0
  /\ held' = [held EXCEPT ![c][k] = HoldAgain(@, Top(c).ttl)]
  /\ redis' = Refreshed(c, k, Top(c).ttl)
  /\ Acquired(c)

\* acquireSingleLock of a free key: SET NX PX, in Redis.
NewEntry_Bug(c, ttl) == [owner |-> c, left |-> 0]
NewEntry(c, ttl) == [owner |-> c, left |-> ttl]

SetKey(c) ==
  LET k == NextKey(c) IN
  /\ At(c, "acquire")
  /\ Top(c).todo # {}
  /\ held[c][k].count = 0
  /\ Top(c).wait < Timeout
  /\ redis[k] = Free
  /\ redis' = [redis EXCEPT ![k] = NewEntry(c, Top(c).ttl)]
  /\ SetTop(c, [Top(c) EXCEPT !.pc = "enter", !.wait = 0])
  /\ UNCHANGED held

\* The answer is in: the lock goes into the table and its timer starts.
NewLock(ttl) ==
  [count |-> 1, ttl |-> ttl, every |-> Interval(ttl), due |-> Interval(ttl)]

EnterTable(c) ==
  /\ At(c, "enter")
  /\ held' = [held EXCEPT ![c][NextKey(c)] = NewLock(Top(c).ttl)]
  /\ Acquired(c)
  /\ UNCHANGED redis

\* The innermost call throws while it acquires: it releases what it has got.
Throw(c) == SetTop(c, [Top(c) EXCEPT !.pc = "release", !.todo = {}, !.wait = 0])

\* The wait has lasted timeoutMs.
GiveUp_Bug(c) ==
  /\ At(c, "acquire")
  /\ Top(c).todo # {}
  /\ held[c][NextKey(c)].count = 0
  /\ Top(c).wait >= Timeout
  /\ frames' = [frames EXCEPT ![c] = SubSeq(@, 1, Len(@) - 1)]
  /\ UNCHANGED <<redis, held>>
GiveUp(c) ==
  /\ At(c, "acquire")
  /\ Top(c).todo # {}
  /\ held[c][NextKey(c)].count = 0
  /\ Top(c).wait >= Timeout
  /\ Throw(c)
  /\ UNCHANGED <<redis, held>>

StartOperation(c) ==
  /\ At(c, "acquire")
  /\ Top(c).todo = {}
  /\ SetTop(c, [Top(c) EXCEPT !.pc = "run", !.wait = 0])
  /\ UNCHANGED <<redis, held>>

EndOperation(c) ==
  /\ At(c, "run")
  /\ SetTop(c, [Top(c) EXCEPT !.pc = "release"])
  /\ UNCHANGED <<redis, held>>

\* LOCK_RELEASE_SCRIPT: only the token that is stored is deleted.
Deleted_Bug(c, k) == [redis EXCEPT ![k] = Free]
Deleted(c, k) == IF redis[k].owner = c THEN [redis EXCEPT ![k] = Free] ELSE redis

\* releaseSingleLock, of the locks of the call in descending order.
Release(c) ==
  /\ At(c, "release")
  /\ \E k \in Top(c).got :
       /\ \A j \in Top(c).got : j <= k
       /\ IF held[c][k].count > 1
          THEN /\ held' = [held EXCEPT ![c][k].count = @ - 1]
               /\ UNCHANGED redis
          ELSE /\ held' = [held EXCEPT ![c][k] = NotHeld]
               /\ redis' = Deleted(c, k)
       /\ SetTop(c, [Top(c) EXCEPT !.got = @ \ {k}])

Return(c) ==
  /\ At(c, "release")
  /\ Top(c).got = {}
  /\ frames' = [frames EXCEPT ![c] = SubSeq(@, 1, Len(@) - 1)]
  /\ UNCHANGED <<redis, held>>

-----------------------------------------------------------------------------
\* The renewal timer fires and its script reaches Redis.
Renew(c, k) ==
  /\ held[c][k].every > 0
  /\ held[c][k].due <= 0
  /\ redis' = Refreshed(c, k, held[c][k].ttl)
  /\ held' = [held EXCEPT ![c][k].due = held[c][k].every]
  /\ UNCHANGED frames

\* What fails in a context that is not Healthy. Re-entry: refreshLock, whether or
\* not it reached Redis, or the metric after it; the lock stays counted once more.
ReentryFails(c) ==
  LET k == NextKey(c) IN
  /\ At(c, "acquire")
  /\ Top(c).todo # {}
  /\ held[c][k].count > 0
  /\ held' = [held EXCEPT ![c][k] = HoldAgain(@, Top(c).ttl)]
  /\ redis' = Refreshed(c, k, Top(c).ttl) \/ UNCHANGED redis
  /\ Throw(c)

\* The wait for a key: SET, without effect, or what is asked and noted of the key.
WaitFails(c) ==
  /\ At(c, "acquire")
  /\ Top(c).todo # {}
  /\ held[c][NextKey(c)].count = 0
  /\ Throw(c)
  /\ UNCHANGED <<redis, held>>

\* The answer to a SET that was done (the key stays in Redis), or the metric
\* after it (the lock stays in the table, with its timer).
EnterFails(c) ==
  /\ At(c, "enter")
  /\ held' = [held EXCEPT ![c][NextKey(c)] = NewLock(Top(c).ttl)] \/ UNCHANGED held
  /\ Throw(c)
  /\ UNCHANGED redis

\* A release: its script (the timer is cleared, the lock stays in the table) or
\* the metric after it. The call's other locks are not released.
ReleaseFails(c) ==
  /\ At(c, "release")
  /\ \E k \in Top(c).got :
       /\ \A j \in Top(c).got : j <= k
       /\ held[c][k].count <= 1
       /\ \/ /\ held' = [held EXCEPT ![c][k].every = 0, ![c][k].due = 0]
             /\ redis' = Deleted(c, k) \/ UNCHANGED redis
          \/ /\ held' = [held EXCEPT ![c][k] = NotHeld]
             /\ redis' = Deleted(c, k)
  /\ SetTop(c, [Top(c) EXCEPT !.got = {}])

CallFails(c) ==
  /\ c \notin Healthy
  /\ ReentryFails(c) \/ WaitFails(c) \/ EnterFails(c) \/ ReleaseFails(c)

-----------------------------------------------------------------------------
\* One unit of time passes. Nothing of a Healthy context comes more than
\* MaxDelay late; a key whose time is up is gone.
OnTime(c) ==
  /\ At(c, "enter") => Top(c).wait < MaxDelay
  /\ \A k \in Holds(c) : held[c][k].due > -MaxDelay

Older(f) ==
  IF \/ f.pc = "acquire" /\ f.wait < Timeout
     \/ f.pc = "enter" /\ f.wait < MaxDelay
  THEN [f EXCEPT !.wait = @ + 1] ELSE f

Tick ==
  /\ \A c \in Healthy : OnTime(c)
  /\ redis' = [k \in Keys |-> IF redis[k].left <= 1 THEN Free
                              ELSE [redis[k] EXCEPT !.left = @ - 1]]
  /\ frames' = [c \in Contexts |-> [n \in DOMAIN frames[c] |-> Older(frames[c][n])]]
  /\ held' = [c \in Contexts |-> [k \in Keys |->
                IF held[c][k].every > 0 /\ held[c][k].due > -MaxDelay
                THEN [held[c][k] EXCEPT !.due = @ - 1] ELSE held[c][k]]]

Step(c) ==
  \/ Reenter(c) \/ SetKey(c) \/ EnterTable(c) \/ GiveUp(c)
  \/ StartOperation(c) \/ EndOperation(c) \/ Release(c) \/ Return(c)

Next ==
  \/ Tick
  \/ \E c \in Contexts :
       \/ Step(c)
       \/ CallFails(c)
       \/ \E keys \in Requests[c], ttl \in Ttls : Call(c, keys, ttl)
       \/ \E k \in Keys : Renew(c, k)

Spec == Init /\ [][Next]_vars

-----------------------------------------------------------------------------
\* Every variable has its type.
TypeInvariant ==
  /\ redis \in [Keys -> Entry]
  /\ \A k \in Keys : redis[k].owner = None <=> redis[k].left = 0
  /\ frames \in [Contexts -> Seq(Frame)]
  /\ held \in [Contexts -> [Keys -> HeldLock]]

\* A lock a healthy context holds is its own in Redis: no delay within MaxDelay
\* lets it expire, and no late or failing context takes or deletes it. So no two
\* healthy contexts ever run operations under one key.
LeaseHeld ==
  \A c \in Healthy : \A k \in Holds(c) : redis[k].owner = c

\* A healthy context's hold count is the number of its calls that have the lock,
\* so that the outermost one, and no other, gives it up.
HoldsMatchFrames ==
  \A c \in Healthy : \A k \in Keys :
    held[c][k].count =
      Cardinality({n \in DOMAIN frames[c] : k \in frames[c][n].got})

\* No circular wait: a context waits only for a key after all those it holds, so
\* of all keys contexts wait for, the last one's holder is not waiting.
WaitsInOrder ==
  \A c \in Contexts, k \in Keys : Awaits(c, k) /\ k \notin Holds(c) =>
    \A h \in Holds(c) : h < k

-----------------------------------------------------------------------------
\* The holder of a key: the context that has it in Redis and in its table.
Holder(k) ==
  IF \E c \in Contexts : redis[k].owner = c /\ k \in Holds(c)
  THEN redis[k].owner ELSE None

\* The keys the operations of a context run under.
Inside(c) ==
  UNION {frames[c][n].got : n \in {m \in DOMAIN frames[c] : frames[c][m].pc = "run"}}

Promise == INSTANCE LockPromise WITH
  Clients  <- Contexts,
  Reliable <- Healthy,
  Locks    <- Keys,
  holder   <- [k \in Keys |-> Holder(k)],
  inside   <- [c \in Healthy |-> Inside(c)]

\* Every behaviour of the service is one its promise allows: through nesting,
\* renewals, expiry and failures, a healthy context's operations keep all their
\* keys to themselves until they end, and keys are taken in ascending order.
KeepsPromise == Promise!Spec

-----------------------------------------------------------------------------
\* Time passes, the event loop of a healthy context runs on, and each operation
\* ends after a finite number of nested calls.
Fairness ==
  /\ SF_vars(Tick)
  /\ \A c \in Healthy : /\ WF_vars(Step(c))
                        /\ \A n \in 1..MaxDepth : SF_vars(Len(frames[c]) = n /\ EndOperation(c))
                        /\ \A k \in Keys : WF_vars(Renew(c, k))

FairSpec == Spec /\ Fairness

\* A lock a healthy context has taken is taken from it again: every key it puts
\* into Redis is some time not its own.
GivenBack == \A c \in Healthy : \A k \in Keys : []<>(redis[k].owner # c)
=============================================================================
