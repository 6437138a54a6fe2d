------------------------ MODULE DistributedLockProofs ------------------------
(***************************************************************************)
(* Proofs about DistributedLock, for any contexts, keys, times to live and *)
(* delays that satisfy LockAssumption and LeaseAssumption.                 *)
(*                                                                         *)
(* LeaseHeld needs to be strengthened by how long the lease still lasts:   *)
(* longer than the latest moment the timer may fire (LeaseOk), also while  *)
(* the answer to SET is on its way (EnterOk).                              *)
(***************************************************************************)
EXTENDS DistributedLock, TLAPS, SequenceTheorems, FiniteSetTheorems,
        WellFoundedInduction

\* What a frame is like at each of its stages.
FrameOk(f) ==
  /\ f.pc \in {"run", "release"} => f.todo = {}
  /\ f.pc = "enter" => f.todo # {}
  /\ f.todo \cap f.got = {}

GoodFrame == {f \in Frame : FrameOk(f)}

FramesType == frames \in [Contexts -> Seq(GoodFrame)]
\* A lock in the table has one of the times to live calls ask for, and only a lock
\* in the table has a timer.
GoodLock ==
  {l \in HeldLock : /\ l.count > 0 => l.ttl \in Ttls
                    /\ l.every > 0 => l.count > 0}

HeldType == held \in [Contexts -> [Keys -> GoodLock]]
RedisType == /\ redis \in [Keys -> Entry]
             /\ \A k \in Keys : redis[k].owner = None <=> redis[k].left = 0
Types == FramesType /\ HeldType /\ RedisType

\* The calls around the innermost one are running their operation.
Nested(c) == \A n \in 1..Len(frames[c]) - 1 : frames[c][n].pc = "run"

\* What the innermost call has yet to acquire comes after what the context has.
OrderOk(c) ==
  frames[c] # <<>> =>
    \A k \in Top(c).todo \ Holds(c) : \A h \in Holds(c) : h < k

\* The lease of a held lock lasts beyond the latest time of its renewal.
LeaseOk(c) ==
  \A k \in Holds(c) :
    /\ redis[k].owner = c
    /\ held[c][k].ttl \in Ttls
    /\ \E t \in Ttls : held[c][k].every = Interval(t)
    /\ held[c][k].due <= held[c][k].every
    /\ redis[k].left > held[c][k].due + MaxDelay

\* A key that was just set: the answer comes within MaxDelay.
EnterOk(c) ==
  At(c, "enter") =>
    /\ held[c][NextKey(c)].count = 0
    /\ redis[NextKey(c)].owner = c
    /\ Top(c).wait <= MaxDelay
    /\ redis[NextKey(c)].left + Top(c).wait >= Top(c).ttl

\* The calls of c that have the lock on k.
Having(c, k) == {n \in DOMAIN frames[c] : k \in frames[c][n].got}

CountOk(c) == \A k \in Keys : held[c][k].count = Cardinality(Having(c, k))

Sound(c) ==
  /\ Nested(c) /\ OrderOk(c)
  /\ c \in Healthy => LeaseOk(c) /\ EnterOk(c) /\ CountOk(c)

IInv == Types /\ \A c \in Contexts : Sound(c)

-----------------------------------------------------------------------------
(* Keys and intervals. *)

LEMMA LeastElement ==
  ASSUME NEW T, T \subseteq Nat, T # {}
  PROVE  \E x \in T : \A y \in T : x <= y
  <1>1. \E x \in T : \A y \in T : ~ (<<y, x>> \in OpToRel(<, Nat))
    BY NatLessThanWellFounded, WFMin
  <1>2. \A x \in Nat, y \in Nat : <<y, x>> \in OpToRel(<, Nat) <=> y < x
    BY DEF OpToRel
  <1>3. PICK x \in T : \A y \in T : ~ (<<y, x>> \in OpToRel(<, Nat))
    BY <1>1
  <1>4. \A y \in T : ~(y < x)
    BY <1>2, <1>3
  <1>5. \A y \in T : x <= y
    <2> SUFFICES ASSUME NEW y \in T PROVE x <= y
      OBVIOUS
    <2>1. x \in Nat /\ y \in Nat /\ ~(y < x)
      BY <1>4
    <2> QED BY <2>1
  <1> QED BY <1>5

LEMMA NextKeyLeast ==
  ASSUME FramesType, NEW c \in Contexts, frames[c] # <<>>, Top(c).todo # {}
  PROVE  /\ NextKey(c) \in Top(c).todo
         /\ \A j \in Top(c).todo : NextKey(c) <= j
         /\ NextKey(c) \in Keys
  <1>1. Top(c) \in GoodFrame
    BY ElementOfSeq, LenProperties, EmptySeq DEF FramesType, Top
  <1>2. Top(c).todo \subseteq Keys
    BY <1>1 DEF GoodFrame, Frame
  <1>3. \E k \in Top(c).todo : \A j \in Top(c).todo : k <= j
    BY <1>2, LeastElement, LockAssumption
  <1> QED BY <1>2, <1>3 DEF NextKey

LEMMA IntervalType ==
  ASSUME NEW t \in Nat
  PROVE  Interval(t) \in Nat /\ Interval(t) > 0
  BY LockAssumption DEF Interval

\* The lease of u outlives a renewal made every Interval(t).
LEMMA LeaseOutlives ==
  ASSUME NEW t \in Ttls, NEW u \in Ttls
  PROVE  /\ u \in Nat /\ u > 0 /\ Interval(t) \in Nat /\ MaxDelay \in Nat
         /\ Interval(t) > 0 /\ Interval(t) + MaxDelay + MaxDelay < u
  <1>1. t \in Nat /\ u \in Nat /\ u > 0 /\ MaxDelay \in Nat
    BY LockAssumption
  <1>2. Interval(t) \in Nat /\ Interval(t) > 0
    BY <1>1, IntervalType
  <1>3. Interval(t) + 2 * MaxDelay < u
    BY LeaseAssumption
  <1> QED BY <1>1, <1>2, <1>3

-----------------------------------------------------------------------------
(* The stacks of frames. *)

OthersFrames(c) == \A d \in Contexts \ {c} : frames'[d] = frames[d]

LEMMA NonEmpty ==
  ASSUME NEW S, NEW s \in Seq(S)
  PROVE  s # <<>> <=> Len(s) > 0
  <1>1. Len(s) \in Nat /\ Len(<<>>) = 0
    BY LenProperties, EmptySeq
  <1>2. s # <<>> => Len(s) # 0
    BY EmptySeq
  <1> QED BY <1>1, <1>2

LEMMA TopFrame ==
  ASSUME FramesType, NEW c \in Contexts, frames[c] # <<>>
  PROVE  /\ Len(frames[c]) \in Nat /\ Len(frames[c]) > 0
         /\ DOMAIN frames[c] = 1..Len(frames[c])
         /\ Top(c) \in Frame /\ FrameOk(Top(c))
         /\ \A n \in 1..Len(frames[c]) : frames[c][n] \in GoodFrame
  <1>1. frames[c] \in Seq(GoodFrame)
    BY DEF FramesType
  <1>2. /\ Len(frames[c]) \in Nat /\ Len(frames[c]) > 0
        /\ DOMAIN frames[c] = 1..Len(frames[c])
    BY <1>1, LenProperties, NonEmpty
  <1>3. \A n \in 1..Len(frames[c]) : frames[c][n] \in GoodFrame
    BY <1>1, ElementOfSeq
  <1>4. Top(c) \in GoodFrame
    BY <1>2, <1>3 DEF Top
  <1> QED BY <1>2, <1>3, <1>4 DEF GoodFrame

LEMMA ChangeTop ==
  ASSUME FramesType, NEW c \in Contexts, frames[c] # <<>>, Nested(c),
         NEW f \in Frame, FrameOk(f), SetTop(c, f)
  PROVE  /\ FramesType' /\ Nested(c)' /\ OthersFrames(c)
         /\ frames'[c] # <<>> /\ Top(c)' = f
         /\ Len(frames'[c]) = Len(frames[c])
         /\ \A n \in 1..Len(frames[c]) - 1 : frames'[c][n] = frames[c][n]
  <1>1. PICK s : s = frames[c]
    OBVIOUS
  <1>2. s \in Seq(GoodFrame) /\ Len(s) \in Nat /\ Len(s) > 0 /\ DOMAIN s = 1..Len(s)
    BY <1>1, TopFrame DEF FramesType
  <1>3. PICK new : new = [s EXCEPT ![Len(s)] = f]
    OBVIOUS
  <1>4. f \in GoodFrame
    BY DEF GoodFrame
  <1>5. /\ new \in Seq(GoodFrame) /\ Len(new) = Len(s)
        /\ \A n \in 1..Len(s) : new[n] = IF n = Len(s) THEN f ELSE s[n]
    <2>1. Len(s) \in 1..Len(s)
      BY <1>2
    <2> QED BY <1>2, <1>3, <1>4, <2>1, ExceptSeq
  <1>6. frames' = [frames EXCEPT ![c] = new]
    BY <1>1, <1>3 DEF SetTop
  <1>7. FramesType' /\ frames'[c] = new /\ OthersFrames(c)
    BY <1>5, <1>6 DEF FramesType, OthersFrames
  <1>8. new # <<>>
    BY <1>2, <1>5, NonEmpty
  <1> QED BY <1>1, <1>2, <1>5, <1>7, <1>8 DEF Nested, Top

LEMMA Push ==
  ASSUME FramesType, NEW c \in Contexts, frames[c] = <<>> \/ At(c, "run"), Nested(c),
         NEW f \in Frame, FrameOk(f), frames' = [frames EXCEPT ![c] = Append(@, f)]
  PROVE  /\ FramesType' /\ Nested(c)' /\ OthersFrames(c)
         /\ frames'[c] # <<>> /\ Top(c)' = f
         /\ Len(frames'[c]) = Len(frames[c]) + 1
         /\ \A n \in 1..Len(frames[c]) : frames'[c][n] = frames[c][n]
  <1>1. PICK s : s = frames[c]
    OBVIOUS
  <1>2. s \in Seq(GoodFrame) /\ Len(s) \in Nat
    BY <1>1, LenProperties DEF FramesType
  <1>3. PICK new : new = Append(s, f)
    OBVIOUS
  <1>4. f \in GoodFrame
    BY DEF GoodFrame
  <1>5. /\ new \in Seq(GoodFrame) /\ Len(new) = Len(s) + 1
        /\ new[Len(s) + 1] = f
        /\ \A n \in 1..Len(s) : new[n] = s[n]
    BY <1>2, <1>3, <1>4
  <1>6. frames' = [frames EXCEPT ![c] = new]
    BY <1>1, <1>3
  <1>7. FramesType' /\ frames'[c] = new /\ OthersFrames(c)
    BY <1>5, <1>6 DEF FramesType, OthersFrames
  <1>8. new # <<>>
    BY <1>2, <1>5, NonEmpty
  <1>9. Nested(c)'
    <2> SUFFICES ASSUME NEW n \in 1..Len(s) PROVE new[n].pc = "run"
      BY <1>2, <1>5, <1>7 DEF Nested
    <2>1. s # <<>> /\ s[Len(s)].pc = "run"
      BY <1>1, <1>2, NonEmpty DEF At, Top
    <2>2. n = Len(s) \/ n \in 1..Len(s) - 1
      BY <1>2
    <2> QED BY <1>1, <1>5, <2>1, <2>2 DEF Nested
  <1> QED BY <1>1, <1>2, <1>5, <1>7, <1>8, <1>9 DEF Top

LEMMA Pop ==
  ASSUME FramesType, NEW c \in Contexts, frames[c] # <<>>, Nested(c),
         frames' = [frames EXCEPT ![c] = SubSeq(@, 1, Len(@) - 1)]
  PROVE  /\ FramesType' /\ Nested(c)' /\ OthersFrames(c)
         /\ Len(frames'[c]) = Len(frames[c]) - 1
         /\ \A n \in 1..Len(frames[c]) - 1 : frames'[c][n] = frames[c][n]
         /\ frames'[c] # <<>> => Top(c)'.pc = "run" /\ FrameOk(Top(c)')
  <1>1. PICK s : s = frames[c]
    OBVIOUS
  <1>2. s \in Seq(GoodFrame) /\ Len(s) \in Nat /\ Len(s) > 0
    BY <1>1, TopFrame DEF FramesType
  <1>3. PICK new : new = SubSeq(s, 1, Len(s) - 1)
    OBVIOUS
  <1>4. /\ new \in Seq(GoodFrame) /\ Len(new) = Len(s) - 1
        /\ \A n \in 1..Len(s) - 1 : new[n] = s[n]
    <2>1. \A n \in 1..Len(s) - 1 : s[n] \in GoodFrame
      BY <1>2, ElementOfSeq
    <2>2. PICK m \in Nat : m = Len(s) - 1
      BY <1>2
    <2>3. new = SubSeq(s, 1, m) /\ \A n \in 1..m : s[n] \in GoodFrame
      BY <1>3, <2>1, <2>2
    <2>4. /\ new \in Seq(GoodFrame)
          /\ Len(new) = IF 1 <= m THEN m - 1 + 1 ELSE 0
          /\ \A n \in 1..m - 1 + 1 : new[n] = s[1 + n - 1]
      BY <2>3, SubSeqProperties
    <2> QED BY <2>2, <2>4
  <1>5. frames' = [frames EXCEPT ![c] = new]
    BY <1>1, <1>3
  <1>6. FramesType' /\ frames'[c] = new /\ OthersFrames(c)
    BY <1>4, <1>5 DEF FramesType, OthersFrames
  <1>7. Nested(c)'
    BY <1>1, <1>2, <1>4, <1>6 DEF Nested
  <1>8. ASSUME new # <<>> PROVE Top(c)'.pc = "run" /\ FrameOk(Top(c)')
    <2>1. Len(new) > 0
      BY <1>4, <1>8, NonEmpty
    <2>2. Len(new) \in 1..Len(s) - 1
      BY <1>2, <1>4, <2>1
    <2>3. Top(c)' = s[Len(new)]
      BY <1>4, <1>6, <2>2 DEF Top
    <2>4. s[Len(new)].pc = "run" /\ s[Len(new)] \in GoodFrame
      BY <1>1, <1>2, <2>2, ElementOfSeq DEF Nested
    <2> QED BY <2>3, <2>4 DEF GoodFrame
  <1> QED BY <1>1, <1>4, <1>6, <1>7, <1>8

-----------------------------------------------------------------------------
(* A step leaves the other contexts alone. *)

\* What a step of c does to the others' locks, frames and keys.
LeavesAlone(c) ==
  /\ OthersFrames(c)
  /\ \A d \in Contexts \ {c} : held'[d] = held[d]
  /\ \A k \in Keys : redis[k].owner \notin {c, None} => redis'[k] = redis[k]

LEMMA Bystander ==
  ASSUME FramesType, NEW d \in Contexts, Sound(d),
         frames'[d] = frames[d], held'[d] = held[d],
         \A k \in Keys : redis[k].owner = d => redis'[k] = redis[k]
  PROVE  Sound(d)'
  <1>1. Nested(d)' /\ OrderOk(d)'
    BY DEF Sound, Nested, OrderOk, Top, Holds
  <1>2. LeaseOk(d) => LeaseOk(d)'
    BY DEF LeaseOk, Holds
  <1>3. CountOk(d) => CountOk(d)'
    BY DEF CountOk, Having
  <1>4. EnterOk(d) => EnterOk(d)'
    <2> SUFFICES ASSUME EnterOk(d), At(d, "enter")' PROVE EnterOk(d)'
      BY DEF EnterOk
    <2>1. At(d, "enter") /\ Top(d)' = Top(d) /\ NextKey(d)' = NextKey(d)
      BY DEF At, Top, NextKey
    <2>2. NextKey(d) \in Keys
      BY <2>1, TopFrame, NextKeyLeast DEF At, FrameOk
    <2> QED BY <2>1, <2>2 DEF EnterOk
  <1> QED BY <1>1, <1>2, <1>3, <1>4 DEF Sound

LEMMA StepKeeps ==
  ASSUME IInv, NEW c \in Contexts, LeavesAlone(c), Types', Sound(c)'
  PROVE  IInv'
  <1>1. \A d \in Contexts \ {c} : Sound(d)'
    <2> SUFFICES ASSUME NEW d \in Contexts \ {c} PROVE Sound(d)'
      OBVIOUS
    <2>1. \A k \in Keys : redis[k].owner = d => redis'[k] = redis[k]
      BY LockAssumption DEF LeavesAlone
    <2> QED BY <2>1, Bystander DEF LeavesAlone, OthersFrames, IInv, Types
  <1> QED BY <1>1 DEF IInv

-----------------------------------------------------------------------------
(* The calls that have a lock. *)

LEMMA HavingFinite ==
  ASSUME FramesType, NEW c \in Contexts, NEW k
  PROVE  IsFiniteSet(Having(c, k)) /\ Cardinality(Having(c, k)) \in Nat
  <1>1. frames[c] \in Seq(GoodFrame)
    BY DEF FramesType
  <1>2. Len(frames[c]) \in Nat /\ DOMAIN frames[c] = 1..Len(frames[c])
    BY <1>1, LenProperties
  <1>3. IsFiniteSet(1..Len(frames[c]))
    BY <1>2, FS_Interval
  <1>4. Having(c, k) \subseteq 1..Len(frames[c])
    BY <1>2 DEF Having
  <1>5. IsFiniteSet(Having(c, k))
    BY <1>3, <1>4, FS_Subset
  <1> QED BY <1>5, FS_CardinalityType

\* When the innermost frame is replaced by f.
LEMMA HavingTop ==
  ASSUME FramesType, FramesType', NEW c \in Contexts, NEW f, NEW k,
         frames[c] # <<>>, frames'[c] # <<>>,
         Top(c)' = f,
         Len(frames'[c]) = Len(frames[c]),
         \A n \in 1..Len(frames[c]) - 1 : frames'[c][n] = frames[c][n]
  PROVE  /\ k \in f.got => Having(c, k)' = Having(c, k) \cup {Len(frames[c])}
         /\ k \notin f.got => Having(c, k)' = Having(c, k) \ {Len(frames[c])}
         /\ Len(frames[c]) \in Having(c, k) <=> k \in Top(c).got
  <1>1. /\ Len(frames[c]) \in Nat /\ Len(frames[c]) > 0
        /\ DOMAIN frames[c] = 1..Len(frames[c])
    BY TopFrame
  <1>2. frames'[c] \in Seq(GoodFrame)
    BY DEF FramesType
  <1>3. DOMAIN frames'[c] = 1..Len(frames[c])
    BY <1>2, LenProperties
  <1>4. frames'[c][Len(frames[c])] = f
    BY DEF Top
  <1> QED BY <1>1, <1>3, <1>4 DEF Having, Top

LEMMA CountSame ==
  ASSUME FramesType, FramesType', NEW c \in Contexts, CountOk(c),
         frames[c] # <<>>, frames'[c] # <<>>,
         Top(c)'.got = Top(c).got,
         Len(frames'[c]) = Len(frames[c]),
         \A n \in 1..Len(frames[c]) - 1 : frames'[c][n] = frames[c][n],
         held'[c] = held[c]
  PROVE  CountOk(c)'
  <1>1. PICK f : f = Top(c)'
    OBVIOUS
  <1>2. \A k \in Keys : Having(c, k)' = Having(c, k)
    <2> SUFFICES ASSUME NEW k \in Keys PROVE Having(c, k)' = Having(c, k)
      OBVIOUS
    <2>1. /\ k \in f.got => Having(c, k)' = Having(c, k) \cup {Len(frames[c])}
          /\ k \notin f.got => Having(c, k)' = Having(c, k) \ {Len(frames[c])}
          /\ Len(frames[c]) \in Having(c, k) <=> k \in Top(c).got
      BY <1>1, HavingTop
    <2>2. f.got = Top(c).got
      BY <1>1
    <2> QED BY <2>1, <2>2
  <1> QED BY <1>2 DEF CountOk

LEMMA CountPush ==
  ASSUME FramesType, FramesType', NEW c \in Contexts, CountOk(c),
         frames'[c] # <<>>, Top(c)'.got = {},
         Len(frames'[c]) = Len(frames[c]) + 1,
         \A n \in 1..Len(frames[c]) : frames'[c][n] = frames[c][n],
         held'[c] = held[c]
  PROVE  CountOk(c)'
  <1>1. frames[c] \in Seq(GoodFrame) /\ frames'[c] \in Seq(GoodFrame)
    BY DEF FramesType
  <1>2. /\ Len(frames[c]) \in Nat
        /\ DOMAIN frames[c] = 1..Len(frames[c])
        /\ DOMAIN frames'[c] = 1..Len(frames[c]) + 1
    BY <1>1, LenProperties
  <1>3. frames'[c][Len(frames[c]) + 1].got = {}
    BY DEF Top
  <1>4. \A n \in 1..Len(frames[c]) + 1 : n \in 1..Len(frames[c]) \/ n = Len(frames[c]) + 1
    BY <1>2
  <1>5. 1..Len(frames[c]) \subseteq 1..Len(frames[c]) + 1
    BY <1>2
  <1>6. \A k \in Keys : Having(c, k)' = Having(c, k)
    BY <1>2, <1>3, <1>4, <1>5 DEF Having
  <1> QED BY <1>6 DEF CountOk

LEMMA CountPop ==
  ASSUME FramesType, FramesType', NEW c \in Contexts, CountOk(c),
         frames[c] # <<>>, Top(c).got = {},
         Len(frames'[c]) = Len(frames[c]) - 1,
         \A n \in 1..Len(frames[c]) - 1 : frames'[c][n] = frames[c][n],
         held'[c] = held[c]
  PROVE  CountOk(c)'
  <1>1. frames'[c] \in Seq(GoodFrame)
    BY DEF FramesType
  <1>2. /\ Len(frames[c]) \in Nat
        /\ DOMAIN frames[c] = 1..Len(frames[c])
        /\ DOMAIN frames'[c] = 1..Len(frames[c]) - 1
    BY <1>1, TopFrame, LenProperties
  <1>3. frames[c][Len(frames[c])].got = {}
    BY DEF Top
  <1>4. \A n \in 1..Len(frames[c]) : n \in 1..Len(frames[c]) - 1 \/ n = Len(frames[c])
    BY <1>2
  <1>5. 1..Len(frames[c]) - 1 \subseteq 1..Len(frames[c])
    BY <1>2
  <1>6. \A k \in Keys : Having(c, k)' = Having(c, k)
    BY <1>2, <1>3, <1>4, <1>5 DEF Having
  <1> QED BY <1>6 DEF CountOk

\* The innermost call gets the lock on k.
LEMMA CountGot ==
  ASSUME FramesType, FramesType', NEW c \in Contexts, CountOk(c), HeldType,
         NEW f, NEW k \in Keys,
         frames[c] # <<>>, frames'[c] # <<>>, Top(c)' = f,
         Len(frames'[c]) = Len(frames[c]),
         \A n \in 1..Len(frames[c]) - 1 : frames'[c][n] = frames[c][n],
         k \notin Top(c).got, f.got = Top(c).got \cup {k},
         held'[c][k].count = held[c][k].count + 1,
         \A j \in Keys \ {k} : held'[c][j].count = held[c][j].count
  PROVE  CountOk(c)'
  <1>1. ASSUME NEW j \in Keys
        PROVE  /\ j \in f.got => Having(c, j)' = Having(c, j) \cup {Len(frames[c])}
               /\ j \notin f.got => Having(c, j)' = Having(c, j) \ {Len(frames[c])}
               /\ Len(frames[c]) \in Having(c, j) <=> j \in Top(c).got
    BY HavingTop
  <1>2. \A j \in Keys \ {k} : Having(c, j)' = Having(c, j)
    <2> SUFFICES ASSUME NEW j \in Keys \ {k} PROVE Having(c, j)' = Having(c, j)
      OBVIOUS
    <2>1. j \in f.got <=> j \in Top(c).got
      OBVIOUS
    <2>2. PICK A : A = Having(c, j)
      OBVIOUS
    <2>3. PICK p : p = Len(frames[c])
      OBVIOUS
    <2>4. CASE j \in f.got
      <3>1. Having(c, j)' = A \cup {p} /\ p \in A
        BY <1>1, <2>1, <2>2, <2>3, <2>4
      <3> QED BY <2>2, <3>1
    <2>5. CASE j \notin f.got
      <3>1. Having(c, j)' = A \ {p} /\ p \notin A
        BY <1>1, <2>1, <2>2, <2>3, <2>5
      <3> QED BY <2>2, <3>1
    <2> QED BY <2>4, <2>5
  <1>3. PICK S : S = Having(c, k)
    OBVIOUS
  <1>4. PICK m : m = Len(frames[c])
    OBVIOUS
  <1>5. Having(c, k)' = S \cup {m} /\ m \notin S
    BY <1>1, <1>3, <1>4
  <1>6. IsFiniteSet(S)
    BY <1>3, HavingFinite
  <1>7. Cardinality(S \cup {m}) = Cardinality(S) + 1
    BY <1>5, <1>6, FS_AddElement
  <1>8. held'[c][k].count = Cardinality(Having(c, k)')
    BY <1>3, <1>5, <1>7 DEF CountOk
  <1> QED BY <1>2, <1>8 DEF CountOk

\* The innermost call gives the lock on k up.
LEMMA CountLost ==
  ASSUME FramesType, FramesType', NEW c \in Contexts, CountOk(c), HeldType,
         NEW f, NEW k \in Keys,
         frames[c] # <<>>, frames'[c] # <<>>, Top(c)' = f,
         Len(frames'[c]) = Len(frames[c]),
         \A n \in 1..Len(frames[c]) - 1 : frames'[c][n] = frames[c][n],
         k \in Top(c).got, f.got = Top(c).got \ {k},
         held'[c][k].count = IF held[c][k].count > 1 THEN held[c][k].count - 1 ELSE 0,
         \A j \in Keys \ {k} : held'[c][j].count = held[c][j].count
  PROVE  CountOk(c)'
  <1>1. ASSUME NEW j \in Keys
        PROVE  /\ j \in f.got => Having(c, j)' = Having(c, j) \cup {Len(frames[c])}
               /\ j \notin f.got => Having(c, j)' = Having(c, j) \ {Len(frames[c])}
               /\ Len(frames[c]) \in Having(c, j) <=> j \in Top(c).got
    BY HavingTop
  <1>2. \A j \in Keys \ {k} : Having(c, j)' = Having(c, j)
    <2> SUFFICES ASSUME NEW j \in Keys \ {k} PROVE Having(c, j)' = Having(c, j)
      OBVIOUS
    <2>1. j \in f.got <=> j \in Top(c).got
      OBVIOUS
    <2>2. PICK A : A = Having(c, j)
      OBVIOUS
    <2>3. PICK p : p = Len(frames[c])
      OBVIOUS
    <2>4. CASE j \in f.got
      <3>1. Having(c, j)' = A \cup {p} /\ p \in A
        BY <1>1, <2>1, <2>2, <2>3, <2>4
      <3> QED BY <2>2, <3>1
    <2>5. CASE j \notin f.got
      <3>1. Having(c, j)' = A \ {p} /\ p \notin A
        BY <1>1, <2>1, <2>2, <2>3, <2>5
      <3> QED BY <2>2, <3>1
    <2> QED BY <2>4, <2>5
  <1>3. PICK S : S = Having(c, k)
    OBVIOUS
  <1>4. PICK m : m = Len(frames[c])
    OBVIOUS
  <1>5. Having(c, k)' = S \ {m} /\ m \in S
    BY <1>1, <1>3, <1>4
  <1>6. IsFiniteSet(S) /\ Cardinality(S) \in Nat
    BY <1>3, HavingFinite
  <1>7. Cardinality(S \ {m}) = Cardinality(S) - 1 /\ Cardinality(S \ {m}) \in Nat
    <2>1. IsFiniteSet(S \ {m}) /\ Cardinality(S \ {m}) = Cardinality(S) - 1
      BY <1>5, <1>6, FS_RemoveElement
    <2> QED BY <2>1, FS_CardinalityType
  <1>8. held[c][k].count = Cardinality(S)
    BY <1>3 DEF CountOk
  <1>9. held'[c][k].count = Cardinality(S \ {m})
    BY <1>6, <1>7, <1>8
  <1>10. held'[c][k].count = Cardinality(Having(c, k)')
    BY <1>5, <1>9
  <1> QED BY <1>2, <1>10 DEF CountOk

-----------------------------------------------------------------------------
(* Steps that change no lock and no key. *)

LEMMA FrameStep ==
  ASSUME IInv, NEW c \in Contexts, FramesType', Nested(c)', OthersFrames(c),
         UNCHANGED <<redis, held>>,
         frames'[c] # <<>> => /\ Top(c)'.pc # "enter"
                              /\ \A k \in Top(c)'.todo \ Holds(c) :
                                   \A h \in Holds(c) : h < k,
         CountOk(c) => CountOk(c)'
  PROVE  IInv'
  <1>1. Types' /\ LeavesAlone(c)
    BY DEF IInv, Types, HeldType, RedisType, LeavesAlone
  <1>2. LeaseOk(c) => LeaseOk(c)'
    BY DEF LeaseOk, Holds
  <1>3. EnterOk(c)'
    BY DEF EnterOk, At
  <1>4. OrderOk(c)'
    BY DEF OrderOk, Holds
  <1>5. Sound(c)'
    BY <1>2, <1>3, <1>4 DEF IInv, Sound
  <1> QED BY <1>1, <1>5, StepKeeps

LEMMA CallKeeps ==
  ASSUME IInv, NEW c \in Contexts, NEW keys \in Requests[c], NEW ttl \in Ttls,
         Call(c, keys, ttl)
  PROVE  IInv'
  <1>1. PICK f : f = [pc |-> "acquire", todo |-> keys, got |-> {}, ttl |-> ttl, wait |-> 0]
    OBVIOUS
  <1>2. keys \subseteq Keys
    BY LockAssumption
  <1>3. f \in Frame /\ FrameOk(f) /\ f.pc = "acquire" /\ f.todo = keys /\ f.got = {}
    BY <1>1, <1>2 DEF Frame, FrameOk
  <1>4. frames' = [frames EXCEPT ![c] = Append(@, f)]
    BY <1>1 DEF Call
  <1>5. FramesType /\ Nested(c) /\ (frames[c] = <<>> \/ At(c, "run"))
    BY DEF IInv, Types, Sound, Call
  <1>6. /\ FramesType' /\ Nested(c)' /\ OthersFrames(c)
        /\ frames'[c] # <<>> /\ Top(c)' = f
        /\ Len(frames'[c]) = Len(frames[c]) + 1
        /\ \A n \in 1..Len(frames[c]) : frames'[c][n] = frames[c][n]
    BY <1>3, <1>4, <1>5, Push
  <1>7. held' = held /\ redis' = redis
    BY DEF Call
  <1>8. CountOk(c) => CountOk(c)'
    BY <1>3, <1>5, <1>6, <1>7, CountPush
  <1>9. \A k \in f.todo \ Holds(c) : \A h \in Holds(c) : h < k
    <2> SUFFICES ASSUME NEW k \in keys \ Holds(c), NEW h \in Holds(c) PROVE h < k
      BY <1>3
    <2>1. h <= k
      BY DEF Call, InOrder
    <2>2. k \in Nat /\ h \in Nat /\ h # k
      BY <1>2, LockAssumption DEF Holds
    <2> QED BY <2>1, <2>2
  <1> QED BY <1>3, <1>6, <1>7, <1>8, <1>9, FrameStep

\* The steps that give the innermost frame another pc.
LEMMA ToStageKeeps ==
  ASSUME IInv, NEW c \in Contexts,
         GiveUp(c) \/ StartOperation(c) \/ EndOperation(c)
  PROVE  IInv'
  <1>1. frames[c] # <<>> /\ FramesType /\ Nested(c)
    BY DEF GiveUp, StartOperation, EndOperation, At, IInv, Types, Sound
  <1>2. PICK x : x = Top(c)
    OBVIOUS
  <1>3. x \in Frame /\ FrameOk(x)
    BY <1>1, <1>2, TopFrame
  <1>4. \E f \in Frame : /\ SetTop(c, f) /\ FrameOk(f)
                         /\ f.pc # "enter" /\ f.todo = {} /\ f.got = x.got
    <2>1. CASE GiveUp(c)
      <3>1. PICK f : f = [x EXCEPT !.pc = "release", !.todo = {}, !.wait = 0]
        OBVIOUS
      <3>2. f \in Frame /\ FrameOk(f) /\ f.pc # "enter" /\ f.todo = {} /\ f.got = x.got
        BY <1>3, <3>1 DEF Frame, FrameOk
      <3>3. SetTop(c, f)
        BY <1>2, <2>1, <3>1 DEF GiveUp, Throw, SetTop
      <3> QED BY <3>2, <3>3
    <2>2. CASE StartOperation(c)
      <3>1. PICK f : f = [x EXCEPT !.pc = "run", !.wait = 0]
        OBVIOUS
      <3>2. x.todo = {}
        BY <1>2, <2>2 DEF StartOperation
      <3>3. f \in Frame /\ FrameOk(f) /\ f.pc # "enter" /\ f.todo = {} /\ f.got = x.got
        BY <1>3, <3>1, <3>2 DEF Frame, FrameOk
      <3>4. SetTop(c, f)
        BY <1>2, <2>2, <3>1 DEF StartOperation, SetTop
      <3> QED BY <3>3, <3>4
    <2>3. CASE EndOperation(c)
      <3>1. PICK f : f = [x EXCEPT !.pc = "release"]
        OBVIOUS
      <3>2. x.todo = {}
        BY <1>2, <1>3, <2>3 DEF EndOperation, At, FrameOk
      <3>3. f \in Frame /\ FrameOk(f) /\ f.pc # "enter" /\ f.todo = {} /\ f.got = x.got
        BY <1>3, <3>1, <3>2 DEF Frame, FrameOk
      <3>4. SetTop(c, f)
        BY <1>2, <2>3, <3>1 DEF EndOperation, SetTop
      <3> QED BY <3>3, <3>4
    <2> QED BY <2>1, <2>2, <2>3
  <1>5. PICK f \in Frame : /\ SetTop(c, f) /\ FrameOk(f)
                           /\ f.pc # "enter" /\ f.todo = {} /\ f.got = x.got
    BY <1>4
  <1>6. /\ FramesType' /\ Nested(c)' /\ OthersFrames(c)
        /\ frames'[c] # <<>> /\ Top(c)' = f
        /\ Len(frames'[c]) = Len(frames[c])
        /\ \A n \in 1..Len(frames[c]) - 1 : frames'[c][n] = frames[c][n]
    BY <1>1, <1>5, ChangeTop
  <1>7. UNCHANGED <<redis, held>>
    BY DEF GiveUp, StartOperation, EndOperation
  <1>8. CountOk(c) => CountOk(c)'
    BY <1>1, <1>2, <1>5, <1>6, <1>7, CountSame
  <1> QED BY <1>5, <1>6, <1>7, <1>8, FrameStep

LEMMA ReturnKeeps ==
  ASSUME IInv, NEW c \in Contexts, Return(c)
  PROVE  IInv'
  <1>1. frames[c] # <<>> /\ Top(c).got = {} /\ FramesType /\ Nested(c)
    BY DEF Return, At, IInv, Types, Sound
  <1>2. /\ FramesType' /\ Nested(c)' /\ OthersFrames(c)
        /\ Len(frames'[c]) = Len(frames[c]) - 1
        /\ \A n \in 1..Len(frames[c]) - 1 : frames'[c][n] = frames[c][n]
        /\ frames'[c] # <<>> => Top(c)'.pc = "run" /\ FrameOk(Top(c)')
    BY <1>1, Pop DEF Return
  <1>3. UNCHANGED <<redis, held>>
    BY DEF Return
  <1>4. CountOk(c) => CountOk(c)'
    BY <1>1, <1>2, <1>3, CountPop
  <1>5. frames'[c] # <<>> => Top(c)'.pc # "enter" /\ Top(c)'.todo = {}
    BY <1>2 DEF FrameOk
  <1> QED BY <1>2, <1>3, <1>4, <1>5, FrameStep
-----------------------------------------------------------------------------
(* Acquiring. *)

\* What the innermost frame becomes when its next key is acquired.
LEMMA AcquiredFrame ==
  ASSUME FramesType, NEW c \in Contexts, frames[c] # <<>>, Nested(c),
         Top(c).todo # {}, Acquired(c)
  PROVE  /\ FramesType' /\ Nested(c)' /\ OthersFrames(c)
         /\ frames'[c] # <<>> /\ Len(frames'[c]) = Len(frames[c])
         /\ \A n \in 1..Len(frames[c]) - 1 : frames'[c][n] = frames[c][n]
         /\ Top(c)'.pc = "acquire"
         /\ Top(c)'.todo = Top(c).todo \ {NextKey(c)}
         /\ Top(c)'.got = Top(c).got \cup {NextKey(c)}
         /\ NextKey(c) \notin Top(c).got
  <1>1. PICK x : x = Top(c)
    OBVIOUS
  <1>2. PICK k : k = NextKey(c)
    OBVIOUS
  <1>3. x \in Frame /\ FrameOk(x) /\ k \in x.todo /\ k \in Keys
    BY <1>1, <1>2, TopFrame, NextKeyLeast
  <1>4. PICK f : f = [x EXCEPT !.pc = "acquire", !.todo = @ \ {k},
                               !.got = @ \cup {k}, !.wait = 0]
    OBVIOUS
  <1>5. /\ f \in Frame /\ FrameOk(f) /\ f.pc = "acquire"
        /\ f.todo = x.todo \ {k} /\ f.got = x.got \cup {k} /\ k \notin x.got
    BY <1>3, <1>4 DEF Frame, FrameOk
  <1>6. SetTop(c, f)
    BY <1>1, <1>2, <1>4 DEF Acquired
  <1>7. /\ FramesType' /\ Nested(c)' /\ OthersFrames(c)
        /\ frames'[c] # <<>> /\ Top(c)' = f
        /\ Len(frames'[c]) = Len(frames[c])
        /\ \A n \in 1..Len(frames[c]) - 1 : frames'[c][n] = frames[c][n]
    BY <1>5, <1>6, ChangeTop
  <1> QED BY <1>1, <1>2, <1>5, <1>7

\* The keys still to acquire come after the one that was.
LEMMA AcquiredOrder ==
  ASSUME FramesType, NEW c \in Contexts, frames[c] # <<>>, Top(c).todo # {},
         OrderOk(c), Top(c)'.todo = Top(c).todo \ {NextKey(c)},
         Holds(c)' = Holds(c) \cup {NextKey(c)}
  PROVE  OrderOk(c)'
  <1>1. PICK x : x = NextKey(c)
    OBVIOUS
  <1>2. x \in Keys /\ \A j \in Top(c).todo : x <= j
    BY <1>1, NextKeyLeast
  <1>3. Top(c).todo \subseteq Keys /\ Keys \subseteq Nat
    BY TopFrame, LockAssumption DEF Frame
  <1>4. ASSUME NEW k \in Top(c)'.todo \ Holds(c)', NEW h \in Holds(c)'
        PROVE  h < k
    <2>1. k \in Top(c).todo \ Holds(c) /\ k # x
      BY <1>1, <1>4
    <2>2. CASE h \in Holds(c)
      BY <2>1, <2>2 DEF OrderOk
    <2>3. CASE h = x
      <3>1. k \in Nat /\ x \in Nat /\ x <= k
        BY <1>2, <1>3, <2>1
      <3> QED BY <2>1, <2>3, <3>1
    <2> QED BY <1>1, <1>4, <2>2, <2>3
  <1> QED BY <1>4 DEF OrderOk

LEMMA ReenterKeeps ==
  ASSUME IInv, NEW c \in Contexts, Reenter(c)
  PROVE  IInv'
  <1>1. /\ frames[c] # <<>> /\ Top(c).pc = "acquire" /\ Top(c).todo # {}
        /\ Types /\ FramesType /\ HeldType /\ RedisType /\ Nested(c) /\ OrderOk(c)
        /\ Acquired(c)
    BY DEF Reenter, At, IInv, Types, Sound
  <1>2. PICK k : k = NextKey(c)
    OBVIOUS
  <1>3. PICK t : t = Top(c).ttl
    OBVIOUS
  <1>4. k \in Keys /\ t \in Ttls /\ t \in Nat /\ t > 0
    <2>1. k \in Keys
      BY <1>1, <1>2, NextKeyLeast
    <2>2. t \in Ttls
      BY <1>1, <1>3, TopFrame DEF Frame
    <2> QED BY <2>1, <2>2, LockAssumption
  <1>5. /\ FramesType' /\ Nested(c)' /\ OthersFrames(c)
        /\ frames'[c] # <<>> /\ Len(frames'[c]) = Len(frames[c])
        /\ \A n \in 1..Len(frames[c]) - 1 : frames'[c][n] = frames[c][n]
        /\ Top(c)'.pc = "acquire"
        /\ Top(c)'.todo = Top(c).todo \ {k}
        /\ Top(c)'.got = Top(c).got \cup {k}
        /\ k \notin Top(c).got
    BY <1>1, <1>2, AcquiredFrame
  <1>6. held[c][k].count > 0 /\ held[c][k] \in GoodLock /\ held[c] \in [Keys -> GoodLock]
    BY <1>1, <1>2, <1>4 DEF Reenter, HeldType
  <1>7. PICK n \in Nat : n = held[c][k].count
    BY <1>6 DEF GoodLock, HeldLock
  <1>8. PICK lock : lock = [held[c][k] EXCEPT !.count = n + 1, !.ttl = t]
    OBVIOUS
  <1>9. /\ lock \in GoodLock /\ lock.count = n + 1 /\ lock.ttl = t
        /\ lock.every = held[c][k].every /\ lock.due = held[c][k].due
    <2>1. PICK old \in GoodLock : old = held[c][k]
      BY <1>6
    <2>2. PICK n1 \in Nat : n1 = n + 1 /\ n1 > 0
      OBVIOUS
    <2>3. lock = [old EXCEPT !.count = n1, !.ttl = t]
      BY <1>8, <2>1, <2>2
    <2>4. /\ lock \in GoodLock /\ lock.count = n1 /\ lock.ttl = t
          /\ lock.every = old.every /\ lock.due = old.due
      <3>1. old \in HeldLock
        BY DEF GoodLock
      <3>2. /\ lock \in HeldLock /\ lock.count = n1 /\ lock.ttl = t
            /\ lock.every = old.every /\ lock.due = old.due
        BY <1>4, <2>2, <2>3, <3>1 DEF HeldLock
      <3> QED BY <1>4, <2>2, <3>2 DEF GoodLock
    <2> QED BY <2>1, <2>2, <2>4
  <1>10. held' = [held EXCEPT ![c][k] = lock]
    BY <1>2, <1>3, <1>7, <1>8 DEF Reenter, HoldAgain
  <1>11. /\ HeldType' /\ held'[c][k] = lock
         /\ \A j \in Keys \ {k} : held'[c][j] = held[c][j]
         /\ \A d \in Contexts \ {c} : held'[d] = held[d]
    BY <1>1, <1>4, <1>9, <1>10 DEF HeldType
  <1>12. redis' = IF redis[k].owner = c THEN [redis EXCEPT ![k].left = t] ELSE redis
    BY <1>2, <1>3 DEF Reenter, Refreshed
  <1>13. /\ RedisType'
         /\ \A j \in Keys \ {k} : redis'[j] = redis[j]
         /\ redis[k].owner # c => redis'[k] = redis[k]
         /\ redis[k].owner = c => redis'[k].owner = c /\ redis'[k].left = t
    <2>1. CASE redis[k].owner = c
      <3>1. PICK old \in Entry : old = redis[k]
        BY <1>1, <1>4 DEF RedisType
      <3>2. PICK new : new = [old EXCEPT !.left = t]
        OBVIOUS
      <3>3. new \in Entry /\ new.owner = c /\ new.left = t
        BY <1>4, <2>1, <3>1, <3>2 DEF Entry
      <3>4. redis' = [redis EXCEPT ![k] = new]
        BY <1>12, <2>1, <3>1, <3>2
      <3>5. redis' \in [Keys -> Entry] /\ redis'[k] = new
            /\ \A j \in Keys \ {k} : redis'[j] = redis[j]
        BY <1>1, <1>4, <3>3, <3>4 DEF RedisType
      <3>6. c # None /\ t # 0
        BY <1>4, LockAssumption
      <3>7. \A j \in Keys : redis'[j].owner = None <=> redis'[j].left = 0
        BY <1>1, <3>3, <3>5, <3>6 DEF RedisType
      <3> QED BY <2>1, <3>3, <3>5, <3>7 DEF RedisType
    <2>2. CASE redis[k].owner # c
      BY <1>1, <1>12, <2>2 DEF RedisType
    <2> QED BY <2>1, <2>2
  <1>14. Types' /\ LeavesAlone(c)
    BY <1>5, <1>11, <1>13 DEF Types, LeavesAlone
  <1>15. Holds(c)' = Holds(c) /\ k \in Holds(c)
    BY <1>4, <1>6, <1>7, <1>9, <1>11 DEF Holds
  <1>16. OrderOk(c)'
    <2>1. Holds(c)' = Holds(c) \cup {NextKey(c)}
      BY <1>2, <1>15
    <2> QED BY <1>1, <1>2, <1>5, <2>1, AcquiredOrder
  <1>17. EnterOk(c)'
    BY <1>5 DEF EnterOk, At
  <1>18. ASSUME LeaseOk(c) PROVE LeaseOk(c)'
    <2>1. \A h \in Holds(c) \ {k} : held'[c][h] = held[c][h] /\ redis'[h] = redis[h]
      BY <1>11, <1>13 DEF Holds
    <2>2. /\ redis[k].owner = c /\ held[c][k].due <= held[c][k].every
      BY <1>15, <1>18 DEF LeaseOk
    <2>3. PICK u \in Ttls : held[c][k].every = Interval(u)
      BY <1>15, <1>18 DEF LeaseOk
    <2>4. /\ Interval(u) \in Nat /\ MaxDelay \in Nat
          /\ Interval(u) + MaxDelay + MaxDelay < t
      BY <1>4, LeaseOutlives
    <2>5. held[c][k].due \in Int
      BY <1>6 DEF GoodLock, HeldLock
    <2>6. redis'[k].left > held'[c][k].due + MaxDelay
      BY <1>4, <1>9, <1>11, <1>13, <2>2, <2>3, <2>4, <2>5
    <2>7. /\ redis'[k].owner = c /\ held'[c][k].ttl \in Ttls
          /\ \E v \in Ttls : held'[c][k].every = Interval(v)
          /\ held'[c][k].due <= held'[c][k].every
      BY <1>4, <1>9, <1>11, <1>13, <2>2, <2>3
    <2> QED BY <1>15, <1>18, <2>1, <2>6, <2>7 DEF LeaseOk
  <1>19. ASSUME CountOk(c) PROVE CountOk(c)'
    <2>1. /\ held'[c][k].count = held[c][k].count + 1
          /\ \A j \in Keys \ {k} : held'[c][j].count = held[c][j].count
      BY <1>7, <1>9, <1>11
    <2>2. PICK f : f = Top(c)'
      OBVIOUS
    <2> QED BY <1>1, <1>4, <1>5, <1>19, <2>1, <2>2, CountGot
  <1>20. Sound(c)'
    BY <1>5, <1>16, <1>17, <1>18, <1>19 DEF IInv, Sound
  <1> QED BY <1>14, <1>20, StepKeeps

LEMMA SetKeyKeeps ==
  ASSUME IInv, NEW c \in Contexts, SetKey(c)
  PROVE  IInv'
  <1>1. /\ frames[c] # <<>> /\ Top(c).pc = "acquire" /\ Top(c).todo # {}
        /\ Types /\ FramesType /\ HeldType /\ RedisType /\ Nested(c) /\ OrderOk(c)
        /\ held' = held
    BY DEF SetKey, At, IInv, Types, Sound
  <1>2. PICK k : k = NextKey(c)
    OBVIOUS
  <1>3. PICK x : x = Top(c)
    OBVIOUS
  <1>4. k \in Keys /\ x \in Frame /\ FrameOk(x) /\ x.todo # {}
    BY <1>1, <1>2, <1>3, NextKeyLeast, TopFrame
  <1>5. x.ttl \in Ttls /\ x.ttl \in Nat /\ x.ttl > 0
    <2>1. x.ttl \in Ttls
      BY <1>4 DEF Frame
    <2> QED BY <2>1, LeaseOutlives
  <1>6. PICK f : f = [x EXCEPT !.pc = "enter", !.wait = 0]
    OBVIOUS
  <1>7. /\ f \in Frame /\ FrameOk(f) /\ f.pc = "enter" /\ f.wait = 0
        /\ f.todo = x.todo /\ f.got = x.got /\ f.ttl = x.ttl
    BY <1>4, <1>6 DEF Frame, FrameOk
  <1>8. SetTop(c, f)
    BY <1>3, <1>6 DEF SetKey, NewEntry
  <1>9. /\ FramesType' /\ Nested(c)' /\ OthersFrames(c)
        /\ frames'[c] # <<>> /\ Top(c)' = f
        /\ Len(frames'[c]) = Len(frames[c])
        /\ \A n \in 1..Len(frames[c]) - 1 : frames'[c][n] = frames[c][n]
    BY <1>1, <1>7, <1>8, ChangeTop
  <1>10. held[c][k].count = 0 /\ redis[k] = Free
    BY <1>2 DEF SetKey, NewEntry
  <1>11. redis' = [redis EXCEPT ![k] = [owner |-> c, left |-> x.ttl]]
    BY <1>2, <1>3 DEF SetKey, NewEntry
  <1>12. /\ RedisType' /\ redis'[k].owner = c /\ redis'[k].left = x.ttl
         /\ \A j \in Keys \ {k} : redis'[j] = redis[j]
    BY <1>1, <1>4, <1>5, <1>11, LockAssumption DEF RedisType, Entry
  <1>13. redis[k].owner = None
    BY <1>10 DEF Free
  <1>14. Types' /\ LeavesAlone(c)
    BY <1>1, <1>9, <1>12, <1>13 DEF Types, HeldType, LeavesAlone
  <1>15. Holds(c)' = Holds(c) /\ k \notin Holds(c)
    BY <1>1, <1>10 DEF Holds
  <1>16. OrderOk(c)'
    BY <1>1, <1>3, <1>7, <1>9, <1>15 DEF OrderOk
  <1>17. NextKey(c)' = k
    BY <1>2, <1>3, <1>7, <1>9 DEF NextKey
  <1>18. EnterOk(c)'
    <2>1. /\ held'[c][k].count = 0 /\ redis'[k].owner = c
          /\ 0 <= MaxDelay /\ redis'[k].left + 0 >= x.ttl
      BY <1>1, <1>5, <1>10, <1>12, LockAssumption
    <2> QED BY <1>7, <1>9, <1>17, <2>1 DEF EnterOk
  <1>19. LeaseOk(c) => LeaseOk(c)'
    <2>1. \A h \in Holds(c) : redis'[h] = redis[h]
      BY <1>12, <1>15 DEF Holds
    <2> QED BY <1>1, <1>15, <2>1 DEF LeaseOk
  <1>20. CountOk(c) => CountOk(c)'
    <2>1. Top(c)'.got = Top(c).got
      BY <1>3, <1>7, <1>9
    <2>2. held'[c] = held[c]
      BY <1>1
    <2> QED BY <1>1, <1>9, <2>1, <2>2, CountSame
  <1>21. Sound(c)'
    BY <1>9, <1>16, <1>18, <1>19, <1>20 DEF IInv, Sound
  <1> QED BY <1>14, <1>21, StepKeeps

LEMMA EnterTableKeeps ==
  ASSUME IInv, NEW c \in Contexts, EnterTable(c)
  PROVE  IInv'
  <1>1. /\ frames[c] # <<>> /\ At(c, "enter")
        /\ Types /\ FramesType /\ HeldType /\ RedisType /\ Nested(c) /\ OrderOk(c)
        /\ Acquired(c) /\ redis' = redis
    BY DEF EnterTable, At, IInv, Types, Sound
  <1>2. PICK k : k = NextKey(c)
    OBVIOUS
  <1>3. PICK x : x = Top(c)
    OBVIOUS
  <1>4. x \in Frame /\ FrameOk(x) /\ x.todo # {}
    BY <1>1, <1>3, TopFrame DEF At, FrameOk
  <1>5. k \in Keys
    BY <1>1, <1>2, <1>3, <1>4, NextKeyLeast
  <1>6. PICK t \in Ttls : t = x.ttl
    BY <1>4 DEF Frame
  <1>7. /\ t \in Nat /\ t > 0 /\ Interval(t) \in Nat /\ MaxDelay \in Nat
        /\ Interval(t) + MaxDelay + MaxDelay < t
    BY LeaseOutlives
  <1>8. /\ FramesType' /\ Nested(c)' /\ OthersFrames(c)
        /\ frames'[c] # <<>> /\ Len(frames'[c]) = Len(frames[c])
        /\ \A n \in 1..Len(frames[c]) - 1 : frames'[c][n] = frames[c][n]
        /\ Top(c)'.pc = "acquire"
        /\ Top(c)'.todo = Top(c).todo \ {k}
        /\ Top(c)'.got = Top(c).got \cup {k}
        /\ k \notin Top(c).got
    BY <1>1, <1>2, <1>3, <1>4, AcquiredFrame
  <1>9. PICK lock : lock = NewLock(t)
    OBVIOUS
  <1>10. /\ lock \in GoodLock /\ lock.count = 1 /\ lock.ttl = t
         /\ lock.every = Interval(t) /\ lock.due = Interval(t)
    BY <1>7, <1>9 DEF NewLock, GoodLock, HeldLock
  <1>11. held' = [held EXCEPT ![c][k] = lock]
    BY <1>2, <1>3, <1>6, <1>9 DEF EnterTable
  <1>12. held[c] \in [Keys -> GoodLock]
    BY <1>1 DEF HeldType
  <1>13. /\ HeldType' /\ held'[c][k] = lock
         /\ \A j \in Keys \ {k} : held'[c][j] = held[c][j]
         /\ \A d \in Contexts \ {c} : held'[d] = held[d]
    BY <1>1, <1>5, <1>10, <1>11, <1>12 DEF HeldType
  <1>14. Types' /\ LeavesAlone(c)
    BY <1>1, <1>8, <1>13 DEF Types, RedisType, LeavesAlone
  <1>15. Holds(c)' = Holds(c) \cup {k}
    BY <1>5, <1>10, <1>13 DEF Holds
  <1>16. OrderOk(c)'
    BY <1>1, <1>2, <1>3, <1>4, <1>8, <1>15, AcquiredOrder
  <1>17. EnterOk(c)'
    BY <1>8 DEF EnterOk, At
  <1>18. ASSUME EnterOk(c) PROVE /\ held[c][k].count = 0
                                 /\ redis[k].owner = c
                                 /\ x.wait <= MaxDelay
                                 /\ redis[k].left + x.wait >= t
    BY <1>1, <1>2, <1>3, <1>6, <1>18 DEF EnterOk
  <1>19. ASSUME LeaseOk(c), EnterOk(c) PROVE LeaseOk(c)'
    <2>1. PICK left \in Nat : left = redis[k].left
      BY <1>1, <1>5 DEF RedisType, Entry
    <2>2. PICK w \in Nat : w = x.wait
      BY <1>4 DEF Frame
    <2>3. w <= MaxDelay /\ left + w >= t
      BY <1>18, <1>19, <2>1, <2>2
    <2>4. left > Interval(t) + MaxDelay
      BY <1>7, <2>3
    <2>5. /\ redis'[k].owner = c /\ held'[c][k].ttl \in Ttls
          /\ \E v \in Ttls : held'[c][k].every = Interval(v)
          /\ held'[c][k].due <= held'[c][k].every
          /\ redis'[k].left > held'[c][k].due + MaxDelay
      BY <1>1, <1>7, <1>10, <1>13, <1>18, <1>19, <2>1, <2>4
    <2>6. \A h \in Holds(c) \ {k} : held'[c][h] = held[c][h] /\ redis'[h] = redis[h]
      BY <1>1, <1>13 DEF Holds
    <2> QED BY <1>15, <1>19, <2>5, <2>6 DEF LeaseOk
  <1>20. ASSUME CountOk(c), EnterOk(c) PROVE CountOk(c)'
    <2>1. /\ held'[c][k].count = held[c][k].count + 1
          /\ \A j \in Keys \ {k} : held'[c][j].count = held[c][j].count
      BY <1>10, <1>13, <1>18, <1>20
    <2>2. PICK f : f = Top(c)'
      OBVIOUS
    <2> QED BY <1>1, <1>5, <1>8, <1>20, <2>1, <2>2, CountGot
  <1>21. Sound(c)'
    BY <1>8, <1>16, <1>17, <1>19, <1>20 DEF IInv, Sound
  <1> QED BY <1>14, <1>21, StepKeeps

-----------------------------------------------------------------------------
(* Releasing, renewing, failing. *)

LEMMA ReleaseKeeps ==
  ASSUME IInv, NEW c \in Contexts, Release(c)
  PROVE  IInv'
  <1>1. /\ frames[c] # <<>> /\ Top(c).pc = "release"
        /\ Types /\ FramesType /\ HeldType /\ RedisType /\ Nested(c) /\ OrderOk(c)
    BY DEF Release, At, IInv, Types, Sound
  <1>2. PICK x : x = Top(c)
    OBVIOUS
  <1>3. PICK k \in x.got :
          /\ IF held[c][k].count > 1
             THEN /\ held' = [held EXCEPT ![c][k].count = @ - 1]
                  /\ UNCHANGED redis
             ELSE /\ held' = [held EXCEPT ![c][k] = NotHeld]
                  /\ redis' = Deleted(c, k)
          /\ SetTop(c, [x EXCEPT !.got = @ \ {k}])
    BY <1>2 DEF Release
  <1>4. x \in Frame /\ FrameOk(x) /\ k \in Keys /\ x.todo = {}
    BY <1>1, <1>2, <1>3, TopFrame DEF Frame, FrameOk
  <1>5. PICK f : f = [x EXCEPT !.got = @ \ {k}]
    OBVIOUS
  <1>6. /\ f \in Frame /\ FrameOk(f) /\ f.pc = "release"
        /\ f.todo = {} /\ f.got = x.got \ {k}
    BY <1>1, <1>2, <1>4, <1>5 DEF Frame, FrameOk
  <1>7. SetTop(c, f)
    BY <1>3, <1>5
  <1>8. /\ FramesType' /\ Nested(c)' /\ OthersFrames(c)
        /\ frames'[c] # <<>> /\ Top(c)' = f
        /\ Len(frames'[c]) = Len(frames[c])
        /\ \A n \in 1..Len(frames[c]) - 1 : frames'[c][n] = frames[c][n]
    BY <1>1, <1>6, <1>7, ChangeTop
  <1>9. PICK old \in GoodLock : old = held[c][k]
    BY <1>1, <1>4 DEF HeldType
  <1>10. old.count \in Nat
    BY <1>9 DEF GoodLock, HeldLock
  <1>11. PICK lock : lock = IF old.count > 1 THEN [old EXCEPT !.count = old.count - 1]
                            ELSE NotHeld
    OBVIOUS
  <1>12. /\ lock \in GoodLock
         /\ lock.count = IF old.count > 1 THEN old.count - 1 ELSE 0
         /\ old.count > 1 => /\ lock.count > 0 /\ lock.every = old.every
                             /\ lock.due = old.due /\ lock.ttl = old.ttl
    <2>1. CASE old.count > 1
      <3>1. PICK m \in Nat : m = old.count - 1 /\ m > 0
        BY <1>10, <2>1
      <3>2. lock = [old EXCEPT !.count = m]
        BY <1>11, <2>1, <3>1
      <3>3. /\ lock \in GoodLock /\ lock.count = m /\ lock.every = old.every
            /\ lock.due = old.due /\ lock.ttl = old.ttl
        <4>a. old.count > 0
          BY <1>10, <2>1
        <4>1. old \in HeldLock /\ old.ttl \in Ttls
          BY <4>a DEF GoodLock
        <4>2. /\ lock \in HeldLock /\ lock.count = m /\ lock.every = old.every
              /\ lock.due = old.due /\ lock.ttl = old.ttl
          BY <3>2, <4>1 DEF HeldLock
        <4> QED BY <3>1, <4>1, <4>2 DEF GoodLock
      <3> QED BY <2>1, <3>1, <3>3
    <2>2. CASE ~(old.count > 1)
      BY <1>11, <2>2 DEF NotHeld, GoodLock, HeldLock
    <2> QED BY <2>1, <2>2
  <1>13. held' = [held EXCEPT ![c][k] = lock]
    BY <1>3, <1>9, <1>11
  <1>14. held[c] \in [Keys -> GoodLock]
    BY <1>1 DEF HeldType
  <1>15. /\ HeldType' /\ held'[c][k] = lock
         /\ \A j \in Keys \ {k} : held'[c][j] = held[c][j]
         /\ \A d \in Contexts \ {c} : held'[d] = held[d]
    BY <1>1, <1>4, <1>12, <1>13, <1>14 DEF HeldType
  <1>16. /\ RedisType'
         /\ \A j \in Keys \ {k} : redis'[j] = redis[j]
         /\ old.count > 1 \/ redis[k].owner # c => redis'[k] = redis[k]
    <2>1. redis' = redis \/ redis' = [redis EXCEPT ![k] = Free]
      BY <1>3 DEF Deleted
    <2>2. old.count > 1 \/ redis[k].owner # c => redis' = redis
      BY <1>3, <1>9 DEF Deleted
    <2> QED BY <1>1, <1>4, <2>1, <2>2 DEF RedisType, Free, Entry
  <1>17. Types' /\ LeavesAlone(c)
    BY <1>8, <1>15, <1>16 DEF Types, LeavesAlone
  <1>18. OrderOk(c)'
    BY <1>6, <1>8 DEF OrderOk
  <1>19. EnterOk(c)'
    BY <1>6, <1>8 DEF EnterOk, At
  <1>20. ASSUME LeaseOk(c) PROVE LeaseOk(c)'
    <2>1. ASSUME NEW h \in Holds(c)', h # k
          PROVE  h \in Holds(c) /\ held'[c][h] = held[c][h] /\ redis'[h] = redis[h]
      BY <1>15, <1>16, <2>1 DEF Holds
    <2>2. ASSUME k \in Holds(c)' PROVE /\ k \in Holds(c) /\ redis'[k] = redis[k]
                                       /\ lock.every = old.every /\ lock.due = old.due
                                       /\ lock.ttl = old.ttl
      <3>1. lock.count > 0
        BY <1>15, <2>2 DEF Holds
      <3>2. old.count > 1
        BY <1>12, <3>1
      <3>3. k \in Holds(c)
        BY <1>4, <1>9, <1>10, <3>2 DEF Holds
      <3> QED BY <1>12, <1>16, <3>2, <3>3
    <2> QED BY <1>9, <1>15, <1>20, <2>1, <2>2 DEF LeaseOk
  <1>21. ASSUME CountOk(c) PROVE CountOk(c)'
    <2>1. /\ held'[c][k].count =
               IF held[c][k].count > 1 THEN held[c][k].count - 1 ELSE 0
          /\ \A j \in Keys \ {k} : held'[c][j].count = held[c][j].count
      BY <1>9, <1>12, <1>15
    <2>2. k \in Top(c).got /\ f.got = Top(c).got \ {k}
      BY <1>2, <1>3, <1>6
    <2> QED BY <1>1, <1>4, <1>8, <1>21, <2>1, <2>2, CountLost
  <1>22. Sound(c)'
    BY <1>8, <1>18, <1>19, <1>20, <1>21 DEF IInv, Sound
  <1> QED BY <1>17, <1>22, StepKeeps

LEMMA RenewKeeps ==
  ASSUME IInv, NEW c \in Contexts, NEW k \in Keys, Renew(c, k)
  PROVE  IInv'
  <1>1. /\ Types /\ FramesType /\ HeldType /\ RedisType /\ frames' = frames
        /\ held[c][k].every > 0
    BY DEF Renew, IInv, Types
  <1>2. PICK old \in GoodLock : old = held[c][k] /\ old.count > 0
    BY <1>1 DEF HeldType, GoodLock
  <1>3. PICK lock : lock = [old EXCEPT !.due = old.every]
    OBVIOUS
  <1>4. /\ lock \in GoodLock /\ lock.count = old.count /\ lock.ttl = old.ttl
        /\ lock.every = old.every /\ lock.due = old.every
    BY <1>2, <1>3 DEF GoodLock, HeldLock
  <1>5. held' = [held EXCEPT ![c][k] = lock]
    BY <1>2, <1>3 DEF Renew
  <1>6. held[c] \in [Keys -> GoodLock]
    BY <1>1 DEF HeldType
  <1>7. /\ HeldType' /\ held'[c][k] = lock
        /\ \A j \in Keys \ {k} : held'[c][j] = held[c][j]
        /\ \A d \in Contexts \ {c} : held'[d] = held[d]
    BY <1>1, <1>4, <1>5, <1>6 DEF HeldType
  <1>8. \A j \in Keys : held'[c][j].count = held[c][j].count
    BY <1>2, <1>4, <1>7
  <1>9. Holds(c)' = Holds(c)
    BY <1>8 DEF Holds
  <1>10. PICK t \in Ttls : t = old.ttl
    BY <1>1, <1>2 DEF GoodLock
  <1>a. t \in Nat /\ t > 0
    BY LeaseOutlives
  <1>11. redis' = IF redis[k].owner = c THEN [redis EXCEPT ![k].left = t] ELSE redis
    BY <1>2, <1>10 DEF Renew, Refreshed
  <1>12. redis \in [Keys -> Entry] /\ redis' \in [Keys -> Entry]
    BY <1>1, <1>10, <1>11, <1>a DEF RedisType, Entry
  <1>13. /\ \A j \in Keys \ {k} : redis'[j] = redis[j]
         /\ redis[k].owner # c => redis'[k] = redis[k]
         /\ redis[k].owner = c => redis'[k].owner = c /\ redis'[k].left = t
    BY <1>11, <1>12 DEF Entry
  <1>14. RedisType'
    BY <1>1, <1>a, <1>12, <1>13, LockAssumption DEF RedisType
  <1>15. Types' /\ LeavesAlone(c)
    BY <1>1, <1>7, <1>13, <1>14 DEF Types, FramesType, LeavesAlone, OthersFrames
  <1>16. Nested(c)' /\ OrderOk(c)'
    BY <1>1, <1>9 DEF IInv, Sound, Nested, OrderOk, Top
  <1>17. ASSUME LeaseOk(c) PROVE LeaseOk(c)'
    <2>1. /\ redis[k].owner = c /\ \E u \in Ttls : old.every = Interval(u)
      BY <1>1, <1>2, <1>17 DEF LeaseOk, Holds
    <2>2. PICK u \in Ttls : old.every = Interval(u)
      BY <2>1
    <2>3. /\ Interval(u) \in Nat /\ MaxDelay \in Nat
          /\ Interval(u) + MaxDelay + MaxDelay < t
      BY LeaseOutlives
    <2>4. /\ redis'[k].owner = c /\ held'[c][k].ttl \in Ttls
          /\ \E v \in Ttls : held'[c][k].every = Interval(v)
          /\ held'[c][k].due <= held'[c][k].every
          /\ redis'[k].left > held'[c][k].due + MaxDelay
      BY <1>a, <1>4, <1>7, <1>10, <1>13, <2>1, <2>2, <2>3
    <2>5. \A h \in Holds(c) \ {k} : held'[c][h] = held[c][h] /\ redis'[h] = redis[h]
      BY <1>7, <1>13 DEF Holds
    <2> QED BY <1>9, <1>17, <2>4, <2>5 DEF LeaseOk
  <1>18. ASSUME EnterOk(c) PROVE EnterOk(c)'
    <2> SUFFICES ASSUME At(c, "enter")' PROVE EnterOk(c)'
      BY DEF EnterOk
    <2>1. At(c, "enter") /\ Top(c)' = Top(c) /\ NextKey(c)' = NextKey(c)
      BY <1>1 DEF At, Top, NextKey
    <2>2. NextKey(c) \in Keys
      BY <1>1, <2>1, TopFrame, NextKeyLeast DEF At, FrameOk
    <2>3. NextKey(c) # k
      BY <1>2, <1>18, <2>1 DEF EnterOk
    <2>4. held'[c][NextKey(c)] = held[c][NextKey(c)] /\ redis'[NextKey(c)] = redis[NextKey(c)]
      BY <1>7, <1>13, <2>2, <2>3
    <2> QED BY <1>18, <2>1, <2>4 DEF EnterOk
  <1>19. CountOk(c) => CountOk(c)'
    BY <1>1, <1>8 DEF CountOk, Having
  <1>20. Sound(c)'
    BY <1>16, <1>17, <1>18, <1>19 DEF IInv, Sound
  <1> QED BY <1>15, <1>20, StepKeeps

\* What a failure does to the key and the record it is about.
KeyEffect(c, k) ==
  \E e \in Entry : /\ redis' = [redis EXCEPT ![k] = e]
                   /\ e.owner = None <=> e.left = 0
                   /\ \/ e = redis[k]
                      \/ redis[k].owner = c /\ e.owner \in {c, None}

RecordEffect(c, k) ==
  \E lock \in GoodLock :
    /\ held' = [held EXCEPT ![c][k] = lock]
    /\ lock.count > 0 => held[c][k].count > 0 \/ EnterFails(c)

LEMMA SameKey ==
  ASSUME RedisType, NEW c \in Contexts, NEW k \in Keys, redis' = redis
  PROVE  KeyEffect(c, k)
  <1>1. PICK e \in Entry : e = redis[k] /\ (e.owner = None <=> e.left = 0)
    BY DEF RedisType
  <1>2. redis' = [redis EXCEPT ![k] = e]
    BY <1>1 DEF RedisType
  <1> QED BY <1>1, <1>2 DEF KeyEffect

LEMMA RefreshedKey ==
  ASSUME RedisType, NEW c \in Contexts, NEW k \in Keys, NEW t \in Ttls,
         redis' = Refreshed(c, k, t)
  PROVE  KeyEffect(c, k)
  <1>1. CASE redis[k].owner = c
    <2>1. PICK old \in Entry : old = redis[k]
      BY DEF RedisType
    <2>2. PICK e : e = [old EXCEPT !.left = t]
      OBVIOUS
    <2>3. t \in Nat /\ t # 0 /\ c # None
      BY LockAssumption
    <2>4. e \in Entry /\ e.owner = c /\ e.left = t
      BY <1>1, <2>1, <2>2, <2>3 DEF Entry
    <2>5. redis' = [redis EXCEPT ![k] = e]
      BY <1>1, <2>1, <2>2 DEF Refreshed
    <2>6. e.owner = None <=> e.left = 0
      BY <2>3, <2>4
    <2> QED BY <1>1, <2>4, <2>5, <2>6 DEF KeyEffect
  <1>2. CASE redis[k].owner # c
    BY <1>2, SameKey DEF Refreshed
  <1> QED BY <1>1, <1>2

LEMMA DeletedKey ==
  ASSUME RedisType, NEW c \in Contexts, NEW k \in Keys, redis' = Deleted(c, k)
  PROVE  KeyEffect(c, k)
  <1>1. CASE redis[k].owner = c
    <2>1. Free \in Entry /\ Free.owner = None /\ Free.left = 0
      BY DEF Free, Entry
    <2>2. redis' = [redis EXCEPT ![k] = Free]
      BY <1>1 DEF Deleted
    <2> QED BY <1>1, <2>1, <2>2 DEF KeyEffect
  <1>2. CASE redis[k].owner # c
    BY <1>2, SameKey DEF Deleted
  <1> QED BY <1>1, <1>2

LEMMA SameRecord ==
  ASSUME HeldType, NEW c \in Contexts, NEW k \in Keys, held' = held
  PROVE  RecordEffect(c, k)
  <1>1. PICK lock \in GoodLock : lock = held[c][k]
    BY DEF HeldType
  <1>2. held' = [held EXCEPT ![c][k] = lock]
    BY <1>1 DEF HeldType
  <1> QED BY <1>1, <1>2 DEF RecordEffect

\* A failing call goes on to release what it has got, or goes on releasing; it
\* touches one key, at most its own, and its record of it.
LEMMA FailureEffect ==
  ASSUME IInv, NEW c \in Contexts, CallFails(c)
  PROVE  /\ c \notin Healthy /\ frames[c] # <<>>
         /\ \E f \in Frame : /\ SetTop(c, f) /\ FrameOk(f)
                             /\ f.pc = "release" /\ f.todo = {}
         /\ \E k \in Keys : KeyEffect(c, k) /\ RecordEffect(c, k)
  <1>1. /\ frames[c] # <<>> /\ c \notin Healthy
        /\ FramesType /\ HeldType /\ RedisType
    BY DEF CallFails, ReentryFails, WaitFails, EnterFails, ReleaseFails, At, IInv, Types
  <1>2. PICK x : x = Top(c)
    OBVIOUS
  <1>3. x \in Frame /\ FrameOk(x)
    BY <1>1, <1>2, TopFrame
  <1>4. x.ttl \in Ttls /\ x.ttl \in Nat /\ x.ttl > 0
        /\ Interval(x.ttl) \in Nat /\ Interval(x.ttl) > 0
    <2>1. x.ttl \in Ttls
      BY <1>3 DEF Frame
    <2> QED BY <2>1, LeaseOutlives
  <1>5. ASSUME Throw(c)
        PROVE  \E f \in Frame : /\ SetTop(c, f) /\ FrameOk(f)
                                /\ f.pc = "release" /\ f.todo = {}
    <2>1. PICK f : f = [x EXCEPT !.pc = "release", !.todo = {}, !.wait = 0]
      OBVIOUS
    <2>2. f \in Frame /\ FrameOk(f) /\ f.pc = "release" /\ f.todo = {}
      BY <1>3, <2>1 DEF Frame, FrameOk
    <2>3. SetTop(c, f)
      BY <1>2, <1>5, <2>1 DEF Throw
    <2> QED BY <2>2, <2>3
  <1>6. CASE ReentryFails(c)
    <2>1. PICK k \in Keys : k = NextKey(c)
      BY <1>1, <1>6, NextKeyLeast DEF ReentryFails
    <2>2. KeyEffect(c, k)
      <3>1. redis' = Refreshed(c, k, x.ttl) \/ redis' = redis
        BY <1>2, <1>6, <2>1 DEF ReentryFails
      <3> QED BY <1>1, <1>4, <3>1, SameKey, RefreshedKey
    <2>3. PICK old \in GoodLock : old = held[c][k] /\ old.count \in Nat /\ old.count > 0
      BY <1>1, <1>6, <2>1 DEF ReentryFails, HeldType, GoodLock, HeldLock
    <2>4. PICK n \in Nat : n = old.count + 1 /\ n > 0
      BY <2>3
    <2>5. PICK lock : lock = [old EXCEPT !.count = n, !.ttl = x.ttl]
      OBVIOUS
    <2>6. lock \in GoodLock
      BY <1>4, <2>3, <2>4, <2>5 DEF GoodLock, HeldLock
    <2>7. held' = [held EXCEPT ![c][k] = lock]
      BY <1>2, <1>6, <2>1, <2>3, <2>4, <2>5 DEF ReentryFails, HoldAgain
    <2>8. RecordEffect(c, k)
      BY <2>3, <2>6, <2>7 DEF RecordEffect
    <2>9. Throw(c)
      BY <1>6 DEF ReentryFails
    <2> QED BY <1>1, <1>5, <2>2, <2>8, <2>9
  <1>7. CASE WaitFails(c)
    <2>1. PICK k \in Keys : k = NextKey(c)
      BY <1>1, <1>7, NextKeyLeast DEF WaitFails
    <2>2. redis' = redis /\ held' = held /\ Throw(c)
      BY <1>7 DEF WaitFails
    <2> QED BY <1>1, <1>5, <2>1, <2>2, SameKey, SameRecord
  <1>8. CASE EnterFails(c)
    <2>1. At(c, "enter") /\ redis' = redis /\ Throw(c)
          /\ (held' = [held EXCEPT ![c][NextKey(c)] = NewLock(x.ttl)] \/ held' = held)
      BY <1>2, <1>8 DEF EnterFails
    <2>2. x.pc = "enter" /\ x.todo # {}
      BY <1>2, <1>3, <2>1 DEF At, FrameOk
    <2>3. PICK k \in Keys : k = NextKey(c)
      BY <1>1, <1>2, <2>2, NextKeyLeast
    <2>4. PICK lock : lock = NewLock(x.ttl)
      OBVIOUS
    <2>5. lock \in GoodLock
      BY <1>4, <2>4 DEF NewLock, GoodLock, HeldLock
    <2>6. RecordEffect(c, k)
      <3>1. CASE held' = held
        BY <1>1, <3>1, SameRecord
      <3>2. CASE held' = [held EXCEPT ![c][k] = lock]
        BY <1>8, <2>5, <3>2 DEF RecordEffect
      <3> QED BY <2>1, <2>3, <2>4, <3>1, <3>2
    <2> QED BY <1>1, <1>5, <2>1, <2>6, SameKey
  <1>9. CASE ReleaseFails(c)
    <2>1. At(c, "release") /\ SetTop(c, [x EXCEPT !.got = {}])
      BY <1>2, <1>9 DEF ReleaseFails
    <2>2. PICK k \in x.got :
            \/ /\ held' = [held EXCEPT ![c][k].every = 0, ![c][k].due = 0]
               /\ redis' = Deleted(c, k) \/ redis' = redis
            \/ /\ held' = [held EXCEPT ![c][k] = NotHeld]
               /\ redis' = Deleted(c, k)
      BY <1>2, <1>9 DEF ReleaseFails
    <2>3. k \in Keys
      BY <1>3, <2>2 DEF Frame
    <2>4. KeyEffect(c, k)
      BY <1>1, <2>2, <2>3, SameKey, DeletedKey
    <2>5. RecordEffect(c, k)
      <3>1. CASE held' = [held EXCEPT ![c][k] = NotHeld]
        <4>1. NotHeld \in GoodLock /\ ~(NotHeld.count > 0)
          BY DEF NotHeld, GoodLock, HeldLock
        <4> QED BY <3>1, <4>1 DEF RecordEffect
      <3>2. CASE held' = [held EXCEPT ![c][k].every = 0, ![c][k].due = 0]
        <4>1. PICK old \in GoodLock : old = held[c][k]
          BY <1>1, <2>3 DEF HeldType
        <4>2. PICK lock : lock = [old EXCEPT !.every = 0, !.due = 0]
          OBVIOUS
        <4>a. old \in HeldLock
          BY DEF GoodLock
        <4>b. /\ lock \in HeldLock /\ lock.count = old.count
              /\ lock.ttl = old.ttl /\ lock.every = 0
          <5>1. PICK stopped : stopped = [old EXCEPT !.every = 0]
            OBVIOUS
          <5>2. /\ stopped \in HeldLock /\ stopped.count = old.count
                /\ stopped.ttl = old.ttl /\ stopped.every = 0
            BY <4>a, <5>1 DEF HeldLock
          <5>3. lock = [stopped EXCEPT !.due = 0]
            BY <4>2, <5>1
          <5> QED BY <5>2, <5>3 DEF HeldLock
        <4>3. lock \in GoodLock /\ lock.count = old.count
          BY <4>b DEF GoodLock
        <4>4. held' = [held EXCEPT ![c][k] = lock]
          BY <1>1, <2>3, <3>2, <4>1, <4>2 DEF HeldType
        <4> QED BY <4>1, <4>3, <4>4 DEF RecordEffect
      <3> QED BY <2>2, <3>1, <3>2
    <2>6. PICK f : f = [x EXCEPT !.got = {}]
      OBVIOUS
    <2>7. x.pc = "release" /\ x.todo = {}
      BY <1>2, <1>3, <2>1 DEF At, FrameOk
    <2>8. f \in Frame /\ FrameOk(f) /\ f.pc = "release" /\ f.todo = {}
      BY <1>3, <2>6, <2>7 DEF Frame, FrameOk
    <2> QED BY <1>1, <2>1, <2>3, <2>4, <2>5, <2>6, <2>8
  <1> QED BY <1>6, <1>7, <1>8, <1>9 DEF CallFails

LEMMA CallFailsKeeps ==
  ASSUME IInv, NEW c \in Contexts, CallFails(c)
  PROVE  IInv'
  <1>1. /\ frames[c] # <<>> /\ c \notin Healthy
        /\ Types /\ FramesType /\ HeldType /\ RedisType /\ Nested(c)
    BY FailureEffect DEF IInv, Types, Sound
  <1>2. PICK f \in Frame : /\ SetTop(c, f) /\ FrameOk(f)
                           /\ f.pc = "release" /\ f.todo = {}
    BY FailureEffect
  <1>3. /\ FramesType' /\ Nested(c)' /\ OthersFrames(c)
        /\ frames'[c] # <<>> /\ Top(c)' = f
    BY <1>1, <1>2, ChangeTop
  <1>4. PICK k \in Keys : KeyEffect(c, k) /\ RecordEffect(c, k)
    BY FailureEffect
  <1>5. HeldType' /\ \A d \in Contexts \ {c} : held'[d] = held[d]
    <2>1. held[c] \in [Keys -> GoodLock]
      BY <1>1 DEF HeldType
    <2>2. PICK lock \in GoodLock : held' = [held EXCEPT ![c][k] = lock]
      BY <1>4 DEF RecordEffect
    <2> QED BY <1>1, <2>1, <2>2 DEF HeldType
  <1>6. /\ RedisType'
        /\ \A j \in Keys : redis[j].owner \notin {c, None} => redis'[j] = redis[j]
    <2>1. PICK e \in Entry : /\ redis' = [redis EXCEPT ![k] = e]
                             /\ e.owner = None <=> e.left = 0
                             /\ e = redis[k] \/ redis[k].owner = c
      BY <1>4 DEF KeyEffect
    <2> QED BY <1>1, <2>1 DEF RedisType
  <1>7. Types' /\ LeavesAlone(c)
    BY <1>3, <1>5, <1>6 DEF Types, LeavesAlone
  <1>8. OrderOk(c)'
    BY <1>2, <1>3 DEF OrderOk
  <1>9. Sound(c)'
    BY <1>1, <1>3, <1>8 DEF Sound
  <1> QED BY <1>7, <1>9, StepKeeps

-----------------------------------------------------------------------------
(* Time. *)

\* What the passing of a unit of time does to a frame.
LEMMA OlderFrame ==
  ASSUME NEW f \in GoodFrame
  PROVE  /\ Older(f) \in GoodFrame
         /\ Older(f).pc = f.pc /\ Older(f).todo = f.todo
         /\ Older(f).got = f.got /\ Older(f).ttl = f.ttl
         /\ f.pc = "enter" /\ f.wait < MaxDelay => Older(f).wait = f.wait + 1
  <1>1. f \in Frame /\ FrameOk(f) /\ f.wait \in Nat
    BY DEF GoodFrame, Frame
  <1>2. PICK w \in Nat : w = f.wait + 1
    BY <1>1
  <1>3. PICK g : g = [f EXCEPT !.wait = w]
    OBVIOUS
  <1>4. /\ g \in Frame /\ g.pc = f.pc /\ g.todo = f.todo
        /\ g.got = f.got /\ g.ttl = f.ttl /\ g.wait = w
    BY <1>1, <1>3 DEF Frame
  <1>5. g \in GoodFrame
    BY <1>1, <1>4 DEF GoodFrame, FrameOk
  <1>6. [f EXCEPT !.wait = @ + 1] = g
    BY <1>2, <1>3
  <1>7. Older(f) = f \/ Older(f) = g
    BY <1>6 DEF Older
  <1>8. f.pc = "enter" /\ f.wait < MaxDelay => Older(f) = g
    BY <1>6 DEF Older
  <1> QED BY <1>2, <1>4, <1>5, <1>7, <1>8

LEMMA TickFrames ==
  ASSUME FramesType, Tick
  PROVE  /\ FramesType'
         /\ \A c \in Contexts :
              /\ Len(frames'[c]) = Len(frames[c])
              /\ DOMAIN frames'[c] = DOMAIN frames[c]
              /\ \A n \in 1..Len(frames[c]) : frames'[c][n] = Older(frames[c][n])
              /\ frames'[c] # <<>> <=> frames[c] # <<>>
  <1>1. ASSUME NEW c \in Contexts
        PROVE  /\ frames'[c] \in Seq(GoodFrame)
               /\ Len(frames'[c]) = Len(frames[c])
               /\ DOMAIN frames'[c] = DOMAIN frames[c]
               /\ \A n \in 1..Len(frames[c]) : frames'[c][n] = Older(frames[c][n])
               /\ frames'[c] # <<>> <=> frames[c] # <<>>
    <2>1. PICK s \in Seq(GoodFrame) : s = frames[c]
      BY DEF FramesType
    <2>2. PICK m \in Nat : m = Len(s) /\ DOMAIN s = 1..m
      BY LenProperties
    <2>3. PICK new : new = [n \in 1..m |-> Older(s[n])]
      OBVIOUS
    <2>4. \A n \in 1..m : s[n] \in GoodFrame
      BY <2>2, ElementOfSeq
    <2>5. \A n \in 1..m : Older(s[n]) \in GoodFrame
      BY <2>4, OlderFrame
    <2>6. new \in [1..m -> GoodFrame]
      BY <2>3, <2>5
    <2>7. new \in Seq(GoodFrame)
      BY <2>6, SeqDef
    <2>8. DOMAIN new = 1..m /\ Len(new) = m
      BY <2>3, <2>7, LenProperties
    <2>9. frames'[c] = new
      BY <2>1, <2>2, <2>3 DEF Tick
    <2>10. new # <<>> <=> s # <<>>
      BY <2>2, <2>7, <2>8, NonEmpty
    <2> QED BY <2>1, <2>2, <2>3, <2>7, <2>8, <2>9, <2>10
  <1>2. frames' = [c \in Contexts |-> frames'[c]]
    BY DEF Tick
  <1> QED BY <1>1, <1>2 DEF FramesType

LEMMA TickTop ==
  ASSUME FramesType, Tick, NEW c \in Contexts, frames[c] # <<>>
  PROVE  Top(c)' = Older(Top(c)) /\ Top(c) \in GoodFrame
  <1>1. PICK m : m = Len(frames[c])
    OBVIOUS
  <1>2. m \in 1..m
    BY <1>1, TopFrame
  <1>3. Len(frames'[c]) = m /\ frames'[c][m] = Older(frames[c][m])
    BY <1>1, <1>2, TickFrames
  <1> QED BY <1>1, <1>3, TopFrame DEF Top, GoodFrame

LEMMA TickHeld ==
  ASSUME HeldType, Tick
  PROVE  /\ HeldType'
         /\ \A c \in Contexts, k \in Keys :
              /\ held'[c][k].count = held[c][k].count
              /\ held'[c][k].ttl = held[c][k].ttl
              /\ held'[c][k].every = held[c][k].every
              /\ held[c][k].every > 0 /\ held[c][k].due > -MaxDelay =>
                   held'[c][k].due = held[c][k].due - 1
  <1>1. ASSUME NEW c \in Contexts, NEW k \in Keys
        PROVE  /\ held'[c][k] \in GoodLock
               /\ held'[c][k].count = held[c][k].count
               /\ held'[c][k].ttl = held[c][k].ttl
               /\ held'[c][k].every = held[c][k].every
               /\ held[c][k].every > 0 /\ held[c][k].due > -MaxDelay =>
                    held'[c][k].due = held[c][k].due - 1
    <2>1. PICK old \in GoodLock : old = held[c][k]
      BY DEF HeldType
    <2>2. old \in HeldLock /\ old.due \in Int
      BY DEF GoodLock, HeldLock
    <2>3. PICK d \in Int : d = old.due - 1
      BY <2>2
    <2>4. PICK lock : lock = [old EXCEPT !.due = d]
      OBVIOUS
    <2>5. /\ lock \in HeldLock /\ lock.count = old.count /\ lock.ttl = old.ttl
          /\ lock.every = old.every /\ lock.due = d
      BY <2>2, <2>4 DEF HeldLock
    <2>6. lock \in GoodLock
      BY <2>5 DEF GoodLock
    <2>7. held'[c][k] = IF old.every > 0 /\ old.due > -MaxDelay THEN lock ELSE old
      BY <2>1, <2>3, <2>4 DEF Tick
    <2> QED BY <2>1, <2>3, <2>5, <2>6, <2>7
  <1>2. held' = [c \in Contexts |-> [k \in Keys |-> held'[c][k]]]
    BY DEF Tick
  <1> QED BY <1>1, <1>2 DEF HeldType

LEMMA TickRedis ==
  ASSUME RedisType, Tick
  PROVE  /\ RedisType'
         /\ \A k \in Keys : redis[k].left > 1 =>
              redis'[k].owner = redis[k].owner /\ redis'[k].left = redis[k].left - 1
  <1>1. ASSUME NEW k \in Keys
        PROVE  /\ redis'[k] \in Entry
               /\ redis'[k].owner = None <=> redis'[k].left = 0
               /\ redis[k].left > 1 =>
                    redis'[k].owner = redis[k].owner /\ redis'[k].left = redis[k].left - 1
    <2>1. PICK old \in Entry : /\ old = redis[k] /\ old.left \in Nat
                               /\ old.owner = None <=> old.left = 0
      BY DEF RedisType, Entry
    <2>2. CASE old.left <= 1
      <3>1. redis'[k] = Free
        BY <2>1, <2>2 DEF Tick
      <3> QED BY <2>1, <2>2, <3>1 DEF Free, Entry
    <2>3. CASE ~(old.left <= 1)
      <3>1. PICK m \in Nat : m = old.left - 1 /\ m > 0
        BY <2>1, <2>3
      <3>2. PICK new : new = [old EXCEPT !.left = m]
        OBVIOUS
      <3>3. redis'[k] = new
        BY <2>1, <2>3, <3>1, <3>2 DEF Tick
      <3>4. new \in Entry /\ new.owner = old.owner /\ new.left = m
        BY <3>2 DEF Entry
      <3>5. old.owner # None
        BY <2>1, <2>3
      <3> QED BY <2>1, <3>1, <3>3, <3>4, <3>5
    <2> QED BY <2>2, <2>3
  <1>2. redis' = [k \in Keys |-> redis'[k]]
    BY DEF Tick
  <1> QED BY <1>1, <1>2 DEF RedisType

LEMMA TickKeeps ==
  ASSUME IInv, Tick
  PROVE  IInv'
  <1>1. Types /\ FramesType /\ HeldType /\ RedisType
    BY DEF IInv, Types
  <1>2. Types'
    BY <1>1, TickFrames, TickHeld, TickRedis DEF Types
  <1>3. ASSUME NEW c \in Contexts PROVE Sound(c)'
    <2>1. Sound(c)
      BY DEF IInv
    <2>2. Holds(c)' = Holds(c)
      BY <1>1, TickHeld DEF Holds
    <2>3. /\ Len(frames'[c]) = Len(frames[c]) /\ Len(frames[c]) \in Nat
          /\ DOMAIN frames[c] = 1..Len(frames[c])
          /\ DOMAIN frames'[c] = DOMAIN frames[c]
          /\ \A n \in 1..Len(frames[c]) : /\ frames'[c][n] = Older(frames[c][n])
                                          /\ frames[c][n] \in GoodFrame
          /\ frames'[c] # <<>> <=> frames[c] # <<>>
      <3>1. frames[c] \in Seq(GoodFrame)
        BY <1>1 DEF FramesType
      <3> QED BY <1>1, <3>1, TickFrames, LenProperties, ElementOfSeq
    <2>4. \A n \in 1..Len(frames[c]) : /\ frames'[c][n].pc = frames[c][n].pc
                                       /\ frames'[c][n].got = frames[c][n].got
      BY <2>3, OlderFrame
    <2>5. frames[c] # <<>> => Top(c)' = Older(Top(c)) /\ Top(c) \in GoodFrame
      BY <1>1, TickTop
    <2>6. frames[c] # <<>> => Top(c)'.todo = Top(c).todo /\ Top(c)'.pc = Top(c).pc
      BY <2>5, OlderFrame
    <2>7. Nested(c)'
      <3>1. \A n \in 1..Len(frames[c]) - 1 : n \in 1..Len(frames[c])
        BY <2>3
      <3> QED BY <2>1, <2>3, <2>4, <3>1 DEF Sound, Nested
    <2>8. OrderOk(c)'
      BY <2>1, <2>2, <2>3, <2>6 DEF Sound, OrderOk
    <2>9. ASSUME CountOk(c) PROVE CountOk(c)'
      <3>1. \A k \in Keys : Having(c, k)' = Having(c, k)
        BY <2>3, <2>4 DEF Having
      <3>2. \A k \in Keys : held'[c][k].count = held[c][k].count
        BY <1>1, TickHeld
      <3> QED BY <2>9, <3>1, <3>2 DEF CountOk
    <2>10. ASSUME c \in Healthy, LeaseOk(c) PROVE LeaseOk(c)'
      <3> SUFFICES ASSUME NEW k \in Holds(c)
                   PROVE  /\ redis'[k].owner = c
                          /\ held'[c][k].ttl \in Ttls
                          /\ \E t \in Ttls : held'[c][k].every = Interval(t)
                          /\ held'[c][k].due <= held'[c][k].every
                          /\ redis'[k].left > held'[c][k].due + MaxDelay
        BY <2>2 DEF LeaseOk
      <3>1. k \in Keys /\ held[c][k].count > 0
        BY DEF Holds
      <3>2. held[c][k].due > -MaxDelay
        BY <2>10 DEF Tick, OnTime
      <3>3. /\ redis[k].owner = c /\ held[c][k].ttl \in Ttls
            /\ \E t \in Ttls : held[c][k].every = Interval(t)
            /\ held[c][k].due <= held[c][k].every
            /\ redis[k].left > held[c][k].due + MaxDelay
        BY <2>10 DEF LeaseOk
      <3>a. held[c][k].every > 0
        BY <3>3, LeaseOutlives
      <3>4. /\ held'[c][k].ttl = held[c][k].ttl
            /\ held'[c][k].every = held[c][k].every
            /\ held'[c][k].due = held[c][k].due - 1
        BY <1>1, <3>1, <3>2, <3>a, TickHeld
      <3>5. PICK due \in Int : due = held[c][k].due
        BY <1>1, <3>1 DEF HeldType, GoodLock, HeldLock
      <3>6. PICK every \in Nat : every = held[c][k].every
        BY <1>1, <3>1 DEF HeldType, GoodLock, HeldLock
      <3>7. PICK left \in Nat : left = redis[k].left
        BY <1>1, <3>1 DEF RedisType, Entry
      <3>8. MaxDelay \in Nat /\ left > 1
        BY <3>2, <3>3, <3>5, <3>7, LockAssumption
      <3>9. redis'[k].owner = c /\ redis'[k].left = left - 1
        BY <1>1, <3>1, <3>3, <3>7, <3>8, TickRedis
      <3>10. due - 1 <= every /\ left - 1 > due - 1 + MaxDelay
        BY <3>3, <3>5, <3>6, <3>7, <3>8
      <3> QED BY <3>3, <3>4, <3>5, <3>6, <3>9, <3>10
    <2>11. ASSUME c \in Healthy, EnterOk(c) PROVE EnterOk(c)'
      <3> SUFFICES ASSUME At(c, "enter")'
                   PROVE  /\ held'[c][NextKey(c)'].count = 0
                          /\ redis'[NextKey(c)'].owner = c
                          /\ Top(c)'.wait <= MaxDelay
                          /\ redis'[NextKey(c)'].left + Top(c)'.wait >= Top(c)'.ttl
        BY DEF EnterOk
      <3>1. At(c, "enter") /\ frames[c] # <<>>
        BY <2>3, <2>6 DEF At
      <3>2. PICK x \in GoodFrame : x = Top(c)
        BY <2>5, <3>1
      <3>3. PICK w \in Nat : w = x.wait
        BY DEF GoodFrame, Frame
      <3>4. PICK t \in Ttls : t = x.ttl
        BY DEF GoodFrame, Frame
      <3>5. w < MaxDelay
        BY <2>11, <3>1, <3>2, <3>3 DEF Tick, OnTime
      <3>6. Top(c)'.wait = w + 1 /\ Top(c)'.ttl = t
        BY <2>5, <3>1, <3>2, <3>3, <3>4, <3>5, OlderFrame DEF At
      <3>7. PICK k \in Keys : k = NextKey(c)
        BY <1>1, <3>1, TopFrame, NextKeyLeast DEF At, FrameOk
      <3>8. NextKey(c)' = k
        BY <2>6, <3>1, <3>7 DEF NextKey
      <3>9. PICK left \in Nat : left = redis[k].left
        BY <1>1 DEF RedisType, Entry
      <3>10. held[c][k].count = 0 /\ redis[k].owner = c /\ left + w >= t
        BY <2>11, <3>1, <3>2, <3>3, <3>4, <3>7, <3>9 DEF EnterOk
      <3>11. /\ t \in Nat /\ Interval(t) \in Nat /\ MaxDelay \in Nat
             /\ Interval(t) + MaxDelay + MaxDelay < t
        BY LeaseOutlives
      <3>12. left > 1 /\ w + 1 <= MaxDelay
        BY <3>5, <3>10, <3>11
      <3>13. redis'[k].owner = c /\ redis'[k].left = left - 1
        BY <1>1, <3>9, <3>10, <3>12, TickRedis
      <3>14. held'[c][k].count = 0
        BY <1>1, <3>10, TickHeld
      <3>15. left - 1 + (w + 1) >= t
        BY <3>10, <3>11
      <3> QED BY <3>6, <3>8, <3>12, <3>13, <3>14, <3>15
    <2> QED BY <2>1, <2>7, <2>8, <2>9, <2>10, <2>11 DEF Sound
  <1> QED BY <1>2, <1>3 DEF IInv

-----------------------------------------------------------------------------
(* The theorems. *)

LEMMA InitEstablishes ==
  ASSUME Init
  PROVE  IInv
  <1>1. FramesType /\ \A c \in Contexts : frames[c] = <<>>
    BY EmptySeq DEF Init, FramesType
  <1>2. NotHeld \in GoodLock /\ NotHeld.count = 0
    BY DEF NotHeld, GoodLock, HeldLock
  <1>3. HeldType /\ \A c \in Contexts, k \in Keys : held[c][k].count = 0
    BY <1>2 DEF Init, HeldType
  <1>4. RedisType
    BY LockAssumption DEF Init, RedisType, Free, Entry
  <1>5. ASSUME NEW c \in Contexts PROVE Sound(c)
    <2>1. Holds(c) = {}
      BY <1>3 DEF Holds
    <2>2. Len(frames[c]) = 0 /\ DOMAIN frames[c] = {}
      BY <1>1, EmptySeq
    <2>3. Nested(c) /\ OrderOk(c) /\ LeaseOk(c) /\ EnterOk(c)
      BY <1>1, <2>1, <2>2 DEF Nested, OrderOk, LeaseOk, EnterOk, At
    <2>4. \A k \in Keys : Having(c, k) = {}
      BY <2>2 DEF Having
    <2>5. CountOk(c)
      BY <1>3, <2>4, FS_EmptySet DEF CountOk
    <2> QED BY <2>3, <2>5 DEF Sound
  <1> QED BY <1>1, <1>3, <1>4, <1>5 DEF IInv, Types

LEMMA StutterKeeps ==
  ASSUME IInv, UNCHANGED vars
  PROVE  IInv'
  <1>1. frames' = frames /\ held' = held /\ redis' = redis
    BY DEF vars
  <1>2. Types'
    BY <1>1 DEF IInv, Types, FramesType, HeldType, RedisType
  <1>3. \A c \in Contexts : Sound(c)'
    BY <1>1, Bystander DEF IInv, Types
  <1> QED BY <1>2, <1>3 DEF IInv

LEMMA NextKeeps ==
  ASSUME IInv, Next
  PROVE  IInv'
  <1>1. CASE Tick
    BY <1>1, TickKeeps
  <1>2. ASSUME NEW c \in Contexts, Step(c) PROVE IInv'
    <2>1. CASE Reenter(c)
      BY <2>1, ReenterKeeps
    <2>2. CASE SetKey(c)
      BY <2>2, SetKeyKeeps
    <2>3. CASE EnterTable(c)
      BY <2>3, EnterTableKeeps
    <2>4. CASE GiveUp(c) \/ StartOperation(c) \/ EndOperation(c)
      BY <2>4, ToStageKeeps
    <2>5. CASE Release(c)
      BY <2>5, ReleaseKeeps
    <2>6. CASE Return(c)
      BY <2>6, ReturnKeeps
    <2> QED BY <1>2, <2>1, <2>2, <2>3, <2>4, <2>5, <2>6 DEF Step
  <1>3. ASSUME NEW c \in Contexts, CallFails(c) PROVE IInv'
    BY <1>3, CallFailsKeeps
  <1>4. ASSUME NEW c \in Contexts, NEW keys \in Requests[c], NEW ttl \in Ttls,
               Call(c, keys, ttl)
        PROVE  IInv'
    BY <1>4, CallKeeps
  <1>5. ASSUME NEW c \in Contexts, NEW k \in Keys, Renew(c, k) PROVE IInv'
    BY <1>5, RenewKeeps
  <1> QED BY <1>1, <1>2, <1>3, <1>4, <1>5 DEF Next

\* The strengthened invariant: types, the order of the keys, and for every healthy
\* context leases that last beyond their next renewal and exact hold counts.
THEOREM IInvHolds == Spec => []IInv
  <1>1. Init => IInv
    BY InitEstablishes
  <1>2. IInv /\ [Next]_vars => IInv'
    BY NextKeeps, StutterKeeps
  <1> QED BY <1>1, <1>2, PTL DEF Spec

\* Redis, the stacks of calls and the tables of locks always have their types.
THEOREM TypeCorrect == Spec => []TypeInvariant
  <1>1. IInv => TypeInvariant
    <2> SUFFICES ASSUME IInv PROVE TypeInvariant
      OBVIOUS
    <2>1. Seq(GoodFrame) \subseteq Seq(Frame)
      <3>1. GoodFrame \subseteq Frame
        BY DEF GoodFrame
      <3> QED BY <3>1, SeqMonotonic
    <2>2. frames \in [Contexts -> Seq(Frame)]
      BY <2>1 DEF IInv, Types, FramesType
    <2>3. held \in [Contexts -> [Keys -> HeldLock]]
      <3>1. [Keys -> GoodLock] \subseteq [Keys -> HeldLock]
        BY DEF GoodLock
      <3> QED BY <3>1 DEF IInv, Types, HeldType
    <2> QED BY <2>2, <2>3 DEF TypeInvariant, IInv, Types, RedisType
  <1> QED BY <1>1, IInvHolds, PTL

\* Every lock a healthy context holds is its own in Redis, however the timers,
\* the answers, and the late and failing contexts are interleaved.
THEOREM LeaseHeldHolds == Spec => []LeaseHeld
  <1>1. IInv => LeaseHeld
    BY LockAssumption DEF IInv, Sound, LeaseOk, LeaseHeld
  <1> QED BY <1>1, IInvHolds, PTL

\* No two healthy contexts believe to hold one key.
MutualExclusion ==
  \A c \in Healthy, d \in Healthy : c # d => Holds(c) \cap Holds(d) = {}

\* Mutual exclusion of the operations of healthy contexts under one key.
THEOREM MutualExclusionHolds == Spec => []MutualExclusion
  <1>1. LeaseHeld => MutualExclusion
    BY DEF LeaseHeld, MutualExclusion
  <1> QED BY <1>1, LeaseHeldHolds, PTL

\* A healthy context's hold counts are the numbers of its calls with the lock.
THEOREM HoldsMatchFramesHolds == Spec => []HoldsMatchFrames
  <1>1. IInv => HoldsMatchFrames
    BY LockAssumption DEF IInv, Sound, CountOk, Having, HoldsMatchFrames
  <1> QED BY <1>1, IInvHolds, PTL

\* A context waits only for a key that comes after all those it holds.
THEOREM WaitsInOrderHolds == Spec => []WaitsInOrder
  <1>1. IInv => WaitsInOrder
    <2> SUFFICES ASSUME IInv, NEW c \in Contexts, NEW k \in Keys, Awaits(c, k),
                        k \notin Holds(c), NEW h \in Holds(c)
                 PROVE  h < k
      BY DEF WaitsInOrder
    <2>1. FramesType /\ frames[c] # <<>> /\ Top(c).todo # {} /\ k = NextKey(c)
      BY DEF IInv, Types, Awaits, At
    <2>2. k \in Top(c).todo \ Holds(c)
      BY <2>1, NextKeyLeast
    <2> QED BY <2>1, <2>2 DEF IInv, Sound, OrderOk
  <1> QED BY <1>1, IInvHolds, PTL

-----------------------------------------------------------------------------
(* The service keeps its promise. *)

\* The keys the running operations of a stack of calls have.
RunKeys(s) == UNION {s[n].got : n \in {m \in DOMAIN s : s[m].pc = "run"}}

LEMMA RunKeysTop ==
  ASSUME NEW s \in Seq(GoodFrame), s # <<>>, NEW k
  PROVE  k \in RunKeys(s) <=>
           \/ \E n \in 1..Len(s) - 1 : s[n].pc = "run" /\ k \in s[n].got
           \/ s[Len(s)].pc = "run" /\ k \in s[Len(s)].got
  <1>1. Len(s) \in Nat /\ Len(s) > 0 /\ DOMAIN s = 1..Len(s)
    BY LenProperties, NonEmpty
  <1>2. k \in RunKeys(s) <=> \E n \in DOMAIN s : s[n].pc = "run" /\ k \in s[n].got
    BY DEF RunKeys
  <1>3. \A n : n \in 1..Len(s) <=> n \in 1..Len(s) - 1 \/ n = Len(s)
    BY <1>1
  <1> QED BY <1>1, <1>2, <1>3

LEMMA SameElements ==
  ASSUME NEW A, NEW B, \A k : k \in A <=> k \in B
  PROVE  A = B
  OBVIOUS

LEMMA InsideRunKeys ==
  ASSUME NEW c
  PROVE  Inside(c) = RunKeys(frames[c]) /\ Inside(c)' = RunKeys(frames'[c])
  BY DEF Inside, RunKeys

\* When the innermost call changes.
LEMMA InsideTop ==
  ASSUME FramesType, FramesType', NEW c \in Contexts,
         frames[c] # <<>>, frames'[c] # <<>>,
         Len(frames'[c]) = Len(frames[c]),
         \A n \in 1..Len(frames[c]) - 1 : frames'[c][n] = frames[c][n]
  PROVE  /\ Top(c).pc # "run" /\ Top(c)'.pc # "run" => Inside(c)' = Inside(c)
         /\ Top(c).pc # "run" /\ Top(c)'.pc = "run" =>
              Inside(c)' = Inside(c) \cup Top(c)'.got
         /\ Top(c)'.pc # "run" => Inside(c)' \subseteq Inside(c)
  <1>1. PICK s \in Seq(GoodFrame) : s = frames[c]
    BY DEF FramesType
  <1>2. PICK t \in Seq(GoodFrame) : t = frames'[c]
    BY DEF FramesType
  <1>3. PICK m : m = Len(s)
    OBVIOUS
  <1>4. /\ \A k : k \in RunKeys(s) <=>
                 \/ \E n \in 1..m - 1 : s[n].pc = "run" /\ k \in s[n].got
                 \/ s[m].pc = "run" /\ k \in s[m].got
        /\ \A k : k \in RunKeys(t) <=>
                 \/ \E n \in 1..m - 1 : t[n].pc = "run" /\ k \in t[n].got
                 \/ t[m].pc = "run" /\ k \in t[m].got
    BY <1>1, <1>2, <1>3, RunKeysTop
  <1>5. /\ \A n \in 1..m - 1 : t[n] = s[n]
        /\ Top(c) = s[m] /\ Top(c)' = t[m]
        /\ Inside(c) = RunKeys(s) /\ Inside(c)' = RunKeys(t)
    BY <1>1, <1>2, <1>3, InsideRunKeys DEF Top
  <1> DEFINE Outer(q) == UNION {q[n].got : n \in {o \in 1..m - 1 : q[o].pc = "run"}}
  <1>6. \A k : k \in Outer(t) <=> k \in Outer(s)
    BY <1>5
  <1>7. /\ \A k : k \in RunKeys(s) <=> k \in Outer(s) \/ (s[m].pc = "run" /\ k \in s[m].got)
        /\ \A k : k \in RunKeys(t) <=> k \in Outer(t) \/ (t[m].pc = "run" /\ k \in t[m].got)
    BY <1>4
  <1> HIDE DEF Outer
  <1>8. ASSUME s[m].pc # "run", t[m].pc # "run" PROVE RunKeys(t) = RunKeys(s)
    <2>1. \A k : k \in RunKeys(t) <=> k \in RunKeys(s)
      BY <1>6, <1>7, <1>8
    <2> QED BY <2>1, SameElements
  <1>9. ASSUME s[m].pc # "run", t[m].pc = "run"
        PROVE  RunKeys(t) = RunKeys(s) \cup t[m].got
    <2>1. \A k : k \in RunKeys(t) <=> k \in RunKeys(s) \cup t[m].got
      BY <1>6, <1>7, <1>9
    <2> QED BY <2>1, SameElements
  <1>10. ASSUME t[m].pc # "run" PROVE RunKeys(t) \subseteq RunKeys(s)
    <2>1. ASSUME NEW k \in RunKeys(t) PROVE k \in RunKeys(s)
      BY <1>6, <1>7, <1>10
    <2> QED BY <2>1
  <1> QED BY <1>5, <1>8, <1>9, <1>10, Zenon

LEMMA InsidePush ==
  ASSUME FramesType, FramesType', NEW c \in Contexts,
         frames'[c] # <<>>, Top(c)'.pc # "run",
         Len(frames'[c]) = Len(frames[c]) + 1,
         \A n \in 1..Len(frames[c]) : frames'[c][n] = frames[c][n]
  PROVE  Inside(c)' = Inside(c)
  <1>1. PICK s \in Seq(GoodFrame) : s = frames[c]
    BY DEF FramesType
  <1>2. PICK t \in Seq(GoodFrame) : t = frames'[c]
    BY DEF FramesType
  <1>3. PICK m \in Nat : m = Len(s) /\ DOMAIN s = 1..m
    BY LenProperties
  <1>4. Len(t) = m + 1 /\ t # <<>> /\ t[m + 1].pc # "run" /\ m + 1 - 1 = m
    BY <1>1, <1>2, <1>3 DEF Top
  <1>5. \A k : k \in RunKeys(t) <=>
                 \E n \in 1..m : t[n].pc = "run" /\ k \in t[n].got
    BY <1>4, RunKeysTop
  <1>6. \A k : k \in RunKeys(s) <=>
                 \E n \in 1..m : s[n].pc = "run" /\ k \in s[n].got
    BY <1>3 DEF RunKeys
  <1>7. \A n \in 1..m : t[n] = s[n]
    BY <1>1, <1>2, <1>3
  <1>8. RunKeys(t) = RunKeys(s)
    <2>1. ASSUME NEW k PROVE k \in RunKeys(t) <=> k \in RunKeys(s)
      BY <1>5, <1>6, <1>7
    <2> QED BY <2>1, Zenon
  <1> QED BY <1>1, <1>2, <1>8, InsideRunKeys

LEMMA InsidePop ==
  ASSUME FramesType, FramesType', NEW c \in Contexts,
         frames[c] # <<>>, Top(c).pc # "run",
         Len(frames'[c]) = Len(frames[c]) - 1,
         \A n \in 1..Len(frames[c]) - 1 : frames'[c][n] = frames[c][n]
  PROVE  Inside(c)' = Inside(c)
  <1>1. PICK s \in Seq(GoodFrame) : s = frames[c]
    BY DEF FramesType
  <1>2. PICK t \in Seq(GoodFrame) : t = frames'[c]
    BY DEF FramesType
  <1>3. PICK m \in Nat : m = Len(t) /\ DOMAIN t = 1..m
    BY LenProperties
  <1>4. Len(s) - 1 = m /\ s # <<>> /\ s[Len(s)].pc # "run"
    BY <1>1, <1>2, <1>3 DEF Top
  <1>5. \A k : k \in RunKeys(s) <=>
                 \E n \in 1..m : s[n].pc = "run" /\ k \in s[n].got
    BY <1>4, RunKeysTop
  <1>6. \A k : k \in RunKeys(t) <=>
                 \E n \in 1..m : t[n].pc = "run" /\ k \in t[n].got
    BY <1>3 DEF RunKeys
  <1>7. \A n \in 1..m : t[n] = s[n]
    BY <1>1, <1>2, <1>4
  <1>8. RunKeys(t) = RunKeys(s)
    <2>1. ASSUME NEW k PROVE k \in RunKeys(t) <=> k \in RunKeys(s)
      BY <1>5, <1>6, <1>7
    <2> QED BY <2>1, Zenon
  <1> QED BY <1>1, <1>2, <1>8, InsideRunKeys

LEMMA HolderIs ==
  ASSUME NEW k \in Keys, NEW c \in Contexts
  PROVE  /\ Holder(k) = c <=> redis[k].owner = c /\ k \in Holds(c)
         /\ Holder(k) \in Contexts \cup {None}
  BY LockAssumption DEF Holder

\* What a step shows: every key keeps its holder, every context its operations.
LEMMA PromiseStutter ==
  ASSUME \A k \in Keys : Holder(k)' = Holder(k),
         \A d \in Healthy : Inside(d)' = Inside(d)
  PROVE  UNCHANGED Promise!vars
  BY DEF Promise!vars

LEMMA PromiseAcquire ==
  ASSUME NEW c \in Contexts, NEW k \in Keys, Holder(k) = None, Holder(k)' = c,
         \A j \in Keys \ {k} : Holder(j)' = Holder(j),
         \A h \in Keys : Holder(h) = c => h < k,
         \A d \in Healthy : Inside(d)' = Inside(d)
  PROVE  Promise!Next
  <1>1. Promise!Acquire(c, k)
    BY DEF Promise!Acquire, Promise!HeldBy
  <1> QED BY <1>1 DEF Promise!Next

LEMMA PromiseRelease ==
  ASSUME NEW c \in Contexts, NEW k \in Keys, Holder(k) = c, Holder(k)' = None,
         c \in Healthy => k \notin Inside(c),
         \A j \in Keys \ {k} : Holder(j)' = Holder(j),
         \A d \in Healthy : Inside(d)' = Inside(d)
  PROVE  Promise!Next
  <1>1. Promise!Release(c, k)
    BY DEF Promise!Release
  <1> QED BY <1>1 DEF Promise!Next

LEMMA PromiseEnterLeave ==
  ASSUME NEW c \in Healthy, NEW locks \in SUBSET Keys,
         \/ Inside(c)' = Inside(c) \cup locks /\ \A k \in locks : Holder(k) = c
         \/ Inside(c)' = locks /\ locks \subseteq Inside(c),
         \A k \in Keys : Holder(k)' = Holder(k),
         \A d \in Healthy \ {c} : Inside(d)' = Inside(d)
  PROVE  Promise!Next
  <1>1. CASE Inside(c)' = Inside(c) \cup locks /\ \A k \in locks : Holder(k) = c
    <2>1. Promise!Enter(c, locks)
      BY <1>1 DEF Promise!Enter, Promise!HeldBy
    <2> QED BY <2>1 DEF Promise!Next
  <1>2. CASE Inside(c)' = locks /\ locks \subseteq Inside(c)
    <2>1. Promise!Leave(c, locks)
      BY <1>2 DEF Promise!Leave
    <2> QED BY <2>1 DEF Promise!Next
  <1> QED BY <1>1, <1>2

LEMMA PromiseLapse ==
  ASSUME NEW lost \in SUBSET Keys,
         \A k \in lost : Holder(k)' = None /\ Holder(k) \notin Healthy,
         \A k \in Keys \ lost : Holder(k)' = Holder(k),
         \A d \in Healthy : Inside(d)' = Inside(d)
  PROVE  Promise!Next
  <1>1. Promise!Lapse(lost)
    BY DEF Promise!Lapse
  <1> QED BY <1>1 DEF Promise!Next

\* The holders stay when no table gains or loses a lock and no key its owner.
LEMMA HoldersStay ==
  ASSUME \A d \in Contexts : Holds(d)' = Holds(d),
         \A k \in Keys : redis'[k].owner = redis[k].owner
  PROVE  \A k \in Keys : Holder(k)' = Holder(k)
  BY DEF Holder

\* A step of c shows nothing of the others.
LEMMA OthersShow ==
  ASSUME NEW c \in Contexts, OthersFrames(c), NEW d \in Contexts \ {c}
  PROVE  Inside(d)' = Inside(d)
  BY DEF OthersFrames, Inside

\* A step that changes the innermost frame of c.
LEMMA TopShows ==
  ASSUME IInv, NEW c \in Contexts, frames[c] # <<>>,
         NEW f \in Frame, FrameOk(f), SetTop(c, f)
  PROVE  /\ Top(c)' = f /\ OthersFrames(c)
         /\ Top(c).pc # "run" /\ f.pc # "run" =>
              \A d \in Contexts : Inside(d)' = Inside(d)
         /\ Top(c).pc # "run" /\ f.pc = "run" => Inside(c)' = Inside(c) \cup f.got
         /\ f.pc # "run" => Inside(c)' \subseteq Inside(c)
         /\ \A d \in Contexts \ {c} : Inside(d)' = Inside(d)
  <1>1. FramesType /\ Nested(c)
    BY DEF IInv, Types, Sound
  <1>2. /\ FramesType' /\ OthersFrames(c) /\ frames'[c] # <<>> /\ Top(c)' = f
        /\ Len(frames'[c]) = Len(frames[c])
        /\ \A n \in 1..Len(frames[c]) - 1 : frames'[c][n] = frames[c][n]
    BY <1>1, ChangeTop
  <1>3. /\ Top(c).pc # "run" /\ f.pc # "run" => Inside(c)' = Inside(c)
        /\ Top(c).pc # "run" /\ f.pc = "run" => Inside(c)' = Inside(c) \cup f.got
        /\ f.pc # "run" => Inside(c)' \subseteq Inside(c)
    BY <1>1, <1>2, InsideTop
  <1>4. \A d \in Contexts \ {c} : Inside(d)' = Inside(d)
    BY <1>2, OthersShow
  <1> QED BY <1>2, <1>3, <1>4

\* A healthy context is the holder of what its calls have.
LEMMA GotHeld ==
  ASSUME IInv, NEW c \in Healthy, frames[c] # <<>>, NEW k \in Top(c).got
  PROVE  k \in Keys /\ Holder(k) = c
  <1>1. c \in Contexts /\ FramesType /\ CountOk(c) /\ LeaseOk(c)
    BY LockAssumption DEF IInv, Types, Sound
  <1>2. k \in Keys
    BY <1>1, TopFrame DEF Frame
  <1>3. Len(frames[c]) \in Having(c, k)
    BY <1>1, TopFrame DEF Having, Top
  <1>4. IsFiniteSet(Having(c, k)) /\ Cardinality(Having(c, k)) \in Nat
    BY <1>1, HavingFinite
  <1>5. Cardinality(Having(c, k)) # 0
    BY <1>3, <1>4, FS_EmptySet
  <1>6. k \in Holds(c)
    BY <1>1, <1>2, <1>4, <1>5 DEF CountOk, Holds
  <1> QED BY <1>1, <1>2, <1>6, HolderIs DEF LeaseOk

\* An operation around a call that gives a key back for good does not run under it.
LEMMA LastIsOutermost ==
  ASSUME IInv, NEW c \in Healthy, At(c, "release"), NEW k \in Top(c).got,
         ~ (held[c][k].count > 1)
  PROVE  k \notin Inside(c)
  <1>1. c \in Contexts /\ FramesType /\ CountOk(c) /\ frames[c] # <<>>
    BY LockAssumption DEF IInv, Types, Sound, At
  <1>2. k \in Keys
    BY <1>1, TopFrame DEF Frame
  <1>3. PICK m : m = Len(frames[c])
    OBVIOUS
  <1>4. m \in Having(c, k) /\ frames[c][m].pc # "run"
    BY <1>1, <1>3, TopFrame DEF Having, Top, At
  <1>5. PICK S : S = Having(c, k)
    OBVIOUS
  <1>6. IsFiniteSet(S) /\ Cardinality(S) \in Nat /\ ~ (Cardinality(S) > 1)
    BY <1>1, <1>2, <1>5, HavingFinite DEF CountOk
  <1>7. ASSUME k \in Inside(c) PROVE FALSE
    <2>1. PICK n \in DOMAIN frames[c] : frames[c][n].pc = "run" /\ k \in frames[c][n].got
      BY <1>7 DEF Inside
    <2>2. n \in S /\ m \in S /\ n # m
      BY <1>4, <1>5, <2>1 DEF Having
    <2>3. /\ IsFiniteSet(S \ {m}) /\ Cardinality(S \ {m}) = Cardinality(S) - 1
      BY <1>6, <2>2, FS_RemoveElement
    <2>4. n \in S \ {m} /\ Cardinality(S \ {m}) \in Nat
      BY <2>2, <2>3, FS_CardinalityType
    <2>5. Cardinality(S \ {m}) # 0
      BY <2>3, <2>4, FS_EmptySet
    <2> QED BY <1>6, <2>3, <2>4, <2>5
  <1> QED BY <1>7

\* The table of the other contexts does not change when that of c does.
LEMMA OthersHold ==
  ASSUME NEW c \in Contexts, \A d \in Contexts \ {c} : held'[d] = held[d],
         NEW d \in Contexts \ {c}
  PROVE  Holds(d)' = Holds(d)
  BY DEF Holds

LEMMA CallShows ==
  ASSUME IInv, NEW c \in Contexts, NEW keys \in Requests[c], NEW ttl \in Ttls,
         Call(c, keys, ttl)
  PROVE  UNCHANGED Promise!vars
  <1>1. PICK f : f = [pc |-> "acquire", todo |-> keys, got |-> {}, ttl |-> ttl, wait |-> 0]
    OBVIOUS
  <1>2. keys \subseteq Keys
    BY LockAssumption
  <1>3. f \in Frame /\ FrameOk(f) /\ f.pc = "acquire"
    BY <1>1, <1>2 DEF Frame, FrameOk
  <1>4. FramesType /\ Nested(c) /\ (frames[c] = <<>> \/ At(c, "run"))
    BY DEF IInv, Types, Sound, Call
  <1>5. /\ FramesType' /\ OthersFrames(c) /\ frames'[c] # <<>> /\ Top(c)' = f
        /\ Len(frames'[c]) = Len(frames[c]) + 1
        /\ \A n \in 1..Len(frames[c]) : frames'[c][n] = frames[c][n]
    <2>1. frames' = [frames EXCEPT ![c] = Append(@, f)]
      BY <1>1 DEF Call
    <2> QED BY <1>3, <1>4, <2>1, Push
  <1>6. Inside(c)' = Inside(c)
    BY <1>3, <1>4, <1>5, InsidePush
  <1>7. \A d \in Healthy : Inside(d)' = Inside(d)
    BY <1>5, <1>6, OthersShow, LockAssumption
  <1>8. \A k \in Keys : Holder(k)' = Holder(k)
    BY DEF Call, Holder, Holds
  <1> QED BY <1>7, <1>8, PromiseStutter

LEMMA ReturnShows ==
  ASSUME IInv, NEW c \in Contexts, Return(c)
  PROVE  UNCHANGED Promise!vars
  <1>1. /\ frames[c] # <<>> /\ Top(c).pc = "release" /\ FramesType /\ Nested(c)
    BY DEF Return, At, IInv, Types, Sound
  <1>2. /\ FramesType' /\ OthersFrames(c)
        /\ Len(frames'[c]) = Len(frames[c]) - 1
        /\ \A n \in 1..Len(frames[c]) - 1 : frames'[c][n] = frames[c][n]
    BY <1>1, Pop DEF Return
  <1>3. Inside(c)' = Inside(c)
    BY <1>1, <1>2, InsidePop
  <1>4. \A d \in Healthy : Inside(d)' = Inside(d)
    BY <1>2, <1>3, OthersShow, LockAssumption
  <1>5. \A k \in Keys : Holder(k)' = Holder(k)
    BY DEF Return, Holder, Holds
  <1> QED BY <1>4, <1>5, PromiseStutter

LEMMA GiveUpShows ==
  ASSUME IInv, NEW c \in Contexts, GiveUp(c)
  PROVE  UNCHANGED Promise!vars
  <1>1. frames[c] # <<>> /\ Top(c).pc = "acquire" /\ FramesType
    BY DEF GiveUp, At, IInv, Types
  <1>2. PICK x : x = Top(c)
    OBVIOUS
  <1>3. PICK f : f = [x EXCEPT !.pc = "release", !.todo = {}, !.wait = 0]
    OBVIOUS
  <1>4. f \in Frame /\ FrameOk(f) /\ f.pc = "release"
    BY <1>1, <1>2, <1>3, TopFrame DEF Frame, FrameOk
  <1>5. SetTop(c, f)
    BY <1>2, <1>3 DEF GiveUp, Throw
  <1>6. \A d \in Healthy : Inside(d)' = Inside(d)
    BY <1>1, <1>4, <1>5, TopShows, LockAssumption
  <1>7. \A k \in Keys : Holder(k)' = Holder(k)
    BY DEF GiveUp, Holder, Holds
  <1> QED BY <1>6, <1>7, PromiseStutter

LEMMA StartShows ==
  ASSUME IInv, NEW c \in Contexts, StartOperation(c)
  PROVE  Promise!Next \/ UNCHANGED Promise!vars
  <1>1. frames[c] # <<>> /\ Top(c).pc = "acquire" /\ Top(c).todo = {} /\ FramesType
    BY DEF StartOperation, At, IInv, Types
  <1>2. PICK x : x = Top(c)
    OBVIOUS
  <1>3. PICK f : f = [x EXCEPT !.pc = "run", !.wait = 0]
    OBVIOUS
  <1>4. f \in Frame /\ FrameOk(f) /\ f.pc = "run" /\ f.got = x.got
    BY <1>1, <1>2, <1>3, TopFrame DEF Frame, FrameOk
  <1>5. SetTop(c, f)
    BY <1>2, <1>3 DEF StartOperation
  <1>6. /\ Inside(c)' = Inside(c) \cup x.got
        /\ \A d \in Contexts \ {c} : Inside(d)' = Inside(d)
    BY <1>1, <1>4, <1>5, TopShows
  <1>7. \A k \in Keys : Holder(k)' = Holder(k)
    BY DEF StartOperation, Holder, Holds
  <1>8. CASE c \in Healthy
    <2>1. PICK locks \in SUBSET Keys : locks = x.got
      BY <1>1, <1>2, TopFrame DEF Frame
    <2>2. \A k \in locks : Holder(k) = c
      BY <1>1, <1>2, <1>8, <2>1, GotHeld
    <2>3. \A d \in Healthy \ {c} : Inside(d)' = Inside(d)
      BY <1>6, LockAssumption
    <2> QED BY <1>6, <1>7, <1>8, <2>1, <2>2, <2>3, PromiseEnterLeave
  <1>9. CASE c \notin Healthy
    <2>1. \A d \in Healthy : Inside(d)' = Inside(d)
      BY <1>6, <1>9, LockAssumption
    <2> QED BY <1>7, <2>1, PromiseStutter
  <1> QED BY <1>8, <1>9

LEMMA EndShows ==
  ASSUME IInv, NEW c \in Contexts, EndOperation(c)
  PROVE  Promise!Next \/ UNCHANGED Promise!vars
  <1>1. frames[c] # <<>> /\ Top(c).pc = "run" /\ FramesType
    BY DEF EndOperation, At, IInv, Types
  <1>2. PICK x : x = Top(c)
    OBVIOUS
  <1>3. PICK f : f = [x EXCEPT !.pc = "release"]
    OBVIOUS
  <1>4. f \in Frame /\ FrameOk(f) /\ f.pc = "release"
    BY <1>1, <1>2, <1>3, TopFrame DEF Frame, FrameOk
  <1>5. SetTop(c, f)
    BY <1>2, <1>3 DEF EndOperation
  <1>6. /\ Inside(c)' \subseteq Inside(c)
        /\ \A d \in Contexts \ {c} : Inside(d)' = Inside(d)
    BY <1>1, <1>4, <1>5, TopShows
  <1>7. \A k \in Keys : Holder(k)' = Holder(k)
    BY DEF EndOperation, Holder, Holds
  <1>8. CASE c \in Healthy
    <2>1. Inside(c) \subseteq Keys
      BY <1>1, TopFrame DEF Inside, GoodFrame, Frame
    <2>2. PICK locks \in SUBSET Keys : locks = Inside(c)'
      BY <1>6, <2>1
    <2>3. \A d \in Healthy \ {c} : Inside(d)' = Inside(d)
      BY <1>6, LockAssumption
    <2> QED BY <1>6, <1>7, <1>8, <2>2, <2>3, PromiseEnterLeave
  <1>9. CASE c \notin Healthy
    <2>1. \A d \in Healthy : Inside(d)' = Inside(d)
      BY <1>6, <1>9, LockAssumption
    <2> QED BY <1>7, <2>1, PromiseStutter
  <1> QED BY <1>8, <1>9

LEMMA SetKeyShows ==
  ASSUME IInv, NEW c \in Contexts, SetKey(c)
  PROVE  UNCHANGED Promise!vars
  <1>1. /\ frames[c] # <<>> /\ Top(c).pc = "acquire" /\ Top(c).todo # {}
        /\ FramesType /\ RedisType
    BY DEF SetKey, At, IInv, Types
  <1>2. PICK x : x = Top(c)
    OBVIOUS
  <1>3. PICK f : f = [x EXCEPT !.pc = "enter", !.wait = 0]
    OBVIOUS
  <1>4. f \in Frame /\ FrameOk(f) /\ f.pc = "enter"
    BY <1>1, <1>2, <1>3, TopFrame DEF Frame, FrameOk
  <1>5. SetTop(c, f)
    BY <1>2, <1>3 DEF SetKey
  <1>6. \A d \in Healthy : Inside(d)' = Inside(d)
    BY <1>1, <1>4, <1>5, TopShows, LockAssumption
  <1>7. PICK k \in Keys : k = NextKey(c)
    BY <1>1, NextKeyLeast
  <1>8. /\ held' = held /\ held[c][k].count = 0 /\ redis[k] = Free
        /\ redis' = [redis EXCEPT ![k] = [owner |-> c, left |-> x.ttl]]
    BY <1>2, <1>7 DEF SetKey, NewEntry
  <1>9. /\ redis'[k].owner = c /\ redis[k].owner = None
        /\ \A j \in Keys \ {k} : redis'[j] = redis[j]
    BY <1>1, <1>8 DEF RedisType, Free
  <1>10. /\ \A d \in Contexts : Holds(d)' = Holds(d)
         /\ k \notin Holds(c)
    BY <1>8 DEF Holds
  <1>11. Holder(k) = None /\ Holder(k)' = None
    BY <1>9, <1>10, LockAssumption DEF Holder
  <1>12. \A j \in Keys \ {k} : Holder(j)' = Holder(j)
    BY <1>9, <1>10 DEF Holder
  <1> QED BY <1>6, <1>11, <1>12, PromiseStutter

LEMMA ReenterShows ==
  ASSUME IInv, NEW c \in Contexts, Reenter(c)
  PROVE  UNCHANGED Promise!vars
  <1>1. /\ frames[c] # <<>> /\ Top(c).pc = "acquire" /\ Top(c).todo # {}
        /\ FramesType /\ HeldType /\ RedisType /\ Nested(c) /\ Acquired(c)
    BY DEF Reenter, At, IInv, Types, Sound
  <1>2. PICK k \in Keys : k = NextKey(c)
    BY <1>1, NextKeyLeast
  <1>3. /\ FramesType' /\ OthersFrames(c)
        /\ frames'[c] # <<>> /\ Len(frames'[c]) = Len(frames[c])
        /\ \A n \in 1..Len(frames[c]) - 1 : frames'[c][n] = frames[c][n]
        /\ Top(c)'.pc = "acquire"
    BY <1>1, AcquiredFrame
  <1>4. Inside(c)' = Inside(c)
    BY <1>1, <1>3, InsideTop
  <1>5. \A d \in Healthy : Inside(d)' = Inside(d)
    BY <1>3, <1>4, OthersShow, LockAssumption
  <1>6. PICK old \in GoodLock : old = held[c][k] /\ old.count \in Nat /\ old.count > 0
    BY <1>1, <1>2 DEF Reenter, HeldType, GoodLock, HeldLock
  <1>7. PICK n \in Nat : n = old.count + 1
    BY <1>6
  <1>8. PICK lock : lock = HoldAgain(old, Top(c).ttl)
    OBVIOUS
  <1>9. lock.count = n
    BY <1>6, <1>7, <1>8 DEF HoldAgain, GoodLock, HeldLock
  <1>10. held' = [held EXCEPT ![c][k] = lock]
    BY <1>2, <1>6, <1>8 DEF Reenter
  <1>11. held[c] \in [Keys -> GoodLock]
    BY <1>1 DEF HeldType
  <1>12. /\ held'[c][k].count > 0 /\ held[c][k].count > 0
         /\ \A j \in Keys \ {k} : held'[c][j] = held[c][j]
         /\ \A d \in Contexts \ {c} : held'[d] = held[d]
    BY <1>1, <1>6, <1>7, <1>9, <1>10, <1>11 DEF HeldType
  <1>13. Holds(c)' = Holds(c)
    BY <1>12 DEF Holds
  <1>14. \A d \in Contexts : Holds(d)' = Holds(d)
    BY <1>12, <1>13, OthersHold
  <1>15. \A j \in Keys : redis'[j].owner = redis[j].owner
    BY <1>1, <1>2 DEF Reenter, Refreshed, RedisType, Entry
  <1> QED BY <1>5, <1>14, <1>15, HoldersStay, PromiseStutter

\* The key that was set goes into the table: if it is still the context's own,
\* this is the moment it is acquired.
LEMMA NewRecordShows ==
  ASSUME IInv, NEW c \in Contexts, At(c, "enter"), UNCHANGED redis,
         held' = [held EXCEPT ![c][NextKey(c)] = NewLock(Top(c).ttl)],
         \A d \in Healthy : Inside(d)' = Inside(d)
  PROVE  Promise!Next \/ UNCHANGED Promise!vars
  <1>1. /\ frames[c] # <<>> /\ Top(c).todo # {} /\ FramesType /\ HeldType /\ OrderOk(c)
    BY TopFrame DEF At, IInv, Types, Sound, FrameOk
  <1>2. PICK k \in Keys : k = NextKey(c) /\ k \in Top(c).todo
    BY <1>1, NextKeyLeast
  <1>3. PICK lock : lock = NewLock(Top(c).ttl)
    OBVIOUS
  <1>4. lock.count = 1
    BY <1>3 DEF NewLock
  <1>5. held' = [held EXCEPT ![c][k] = lock]
    BY <1>2, <1>3
  <1>6. held[c] \in [Keys -> GoodLock]
    BY <1>1 DEF HeldType
  <1>7. /\ held'[c][k].count > 0
        /\ \A j \in Keys \ {k} : held'[c][j] = held[c][j]
        /\ \A d \in Contexts \ {c} : held'[d] = held[d]
    BY <1>1, <1>4, <1>5, <1>6 DEF HeldType
  <1>8. Holds(c)' = Holds(c) \cup {k}
    BY <1>7 DEF Holds
  <1>9. \A d \in Contexts \ {c} : Holds(d)' = Holds(d)
    BY <1>7, OthersHold
  <1>10. \A j \in Keys \ {k} : Holder(j)' = Holder(j)
    BY <1>8, <1>9 DEF Holder
  <1>11. CASE redis[k].owner = c /\ k \notin Holds(c)
    <2>1. Holder(k) = None /\ Holder(k)' = c
      BY <1>8, <1>11 DEF Holder
    <2>2. \A h \in Keys : Holder(h) = c => h < k
      BY <1>1, <1>2, <1>11, HolderIs DEF OrderOk
    <2> QED BY <1>10, <2>1, <2>2, PromiseAcquire
  <1>12. CASE ~ (redis[k].owner = c /\ k \notin Holds(c))
    <2>1. Holder(k)' = Holder(k)
      BY <1>8, <1>9, <1>12 DEF Holder
    <2> QED BY <1>10, <2>1, PromiseStutter
  <1> QED BY <1>11, <1>12

LEMMA EnterTableShows ==
  ASSUME IInv, NEW c \in Contexts, EnterTable(c)
  PROVE  Promise!Next \/ UNCHANGED Promise!vars
  <1>1. /\ frames[c] # <<>> /\ At(c, "enter") /\ Top(c).pc = "enter" /\ Top(c).todo # {}
        /\ FramesType /\ Nested(c) /\ Acquired(c) /\ redis' = redis
        /\ held' = [held EXCEPT ![c][NextKey(c)] = NewLock(Top(c).ttl)]
    BY TopFrame DEF EnterTable, At, IInv, Types, Sound, FrameOk
  <1>2. /\ FramesType' /\ OthersFrames(c)
        /\ frames'[c] # <<>> /\ Len(frames'[c]) = Len(frames[c])
        /\ \A n \in 1..Len(frames[c]) - 1 : frames'[c][n] = frames[c][n]
        /\ Top(c)'.pc = "acquire"
    BY <1>1, AcquiredFrame
  <1>3. Inside(c)' = Inside(c)
    BY <1>1, <1>2, InsideTop
  <1>4. \A d \in Healthy : Inside(d)' = Inside(d)
    BY <1>2, <1>3, OthersShow, LockAssumption
  <1> QED BY <1>1, <1>4, NewRecordShows

\* A key an unhealthy context may lose in Redis or in its table.
LEMMA LossShows ==
  ASSUME NEW c \in Contexts, c \notin Healthy, NEW k \in Keys,
         \A j \in Keys \ {k} : redis'[j] = redis[j],
         \/ redis'[k] = redis[k]
         \/ redis[k].owner = c /\ redis'[k].owner \in {c, None},
         Holds(c) \ {k} \subseteq Holds(c)', Holds(c)' \subseteq Holds(c),
         \A d \in Contexts \ {c} : Holds(d)' = Holds(d),
         \A d \in Healthy : Inside(d)' = Inside(d)
  PROVE  Promise!Next \/ UNCHANGED Promise!vars
  <1>1. c # None
    BY LockAssumption
  <1>2. \A j \in Keys \ {k} : Holder(j)' = Holder(j)
    <2> SUFFICES ASSUME NEW j \in Keys \ {k} PROVE Holder(j)' = Holder(j)
      OBVIOUS
    <2>1. redis'[j] = redis[j] /\ \A d \in Contexts : j \in Holds(d)' <=> j \in Holds(d)
      OBVIOUS
    <2> QED BY <2>1 DEF Holder
  <1>3. CASE Holder(k) = c
    <2>1. Holder(k)' = c \/ Holder(k)' = None
      <3>1. redis[k].owner = c
        BY <1>3, HolderIs
      <3>2. redis'[k].owner \in {c, None}
        BY <3>1
      <3> QED BY <1>1, <3>2, LockAssumption DEF Holder
    <2> QED BY <1>2, <1>3, <2>1, PromiseStutter, PromiseRelease
  <1>4. CASE Holder(k) # c
    <2>1. Holder(k)' = Holder(k)
      <3>1. CASE redis[k].owner = c
        <4>1. k \notin Holds(c) /\ k \notin Holds(c)'
          BY <1>4, <3>1, HolderIs
        <4>2. redis'[k].owner \in {c, None}
          BY <3>1
        <4> QED BY <1>1, <3>1, <4>1, <4>2, LockAssumption DEF Holder
      <3>2. CASE redis[k].owner # c
        <4>1. redis'[k] = redis[k]
          BY <3>2
        <4> QED BY <3>2, <4>1 DEF Holder
      <3> QED BY <3>1, <3>2
    <2> QED BY <1>2, <2>1, PromiseStutter
  <1> QED BY <1>3, <1>4

LEMMA CallFailsShows ==
  ASSUME IInv, NEW c \in Contexts, CallFails(c)
  PROVE  Promise!Next \/ UNCHANGED Promise!vars
  <1>1. c \notin Healthy /\ FramesType /\ HeldType /\ RedisType
    BY DEF CallFails, IInv, Types
  <1>2. OthersFrames(c)
    <2>1. PICK new : frames' = [frames EXCEPT ![c] = new]
      BY FailureEffect DEF SetTop
    <2> QED BY <1>1, <2>1 DEF OthersFrames, FramesType
  <1>3. \A d \in Healthy : Inside(d)' = Inside(d)
    BY <1>1, <1>2, OthersShow, LockAssumption
  <1>4. CASE EnterFails(c)
    <2>1. /\ At(c, "enter") /\ redis' = redis
          /\ \/ held' = held
             \/ held' = [held EXCEPT ![c][NextKey(c)] = NewLock(Top(c).ttl)]
      BY <1>4 DEF EnterFails
    <2>2. CASE held' = held
      <3>1. \A k \in Keys : Holder(k)' = Holder(k)
        BY <2>1, <2>2 DEF Holder, Holds
      <3> QED BY <1>3, <3>1, PromiseStutter
    <2>3. CASE held' = [held EXCEPT ![c][NextKey(c)] = NewLock(Top(c).ttl)]
      BY <1>3, <2>1, <2>3, NewRecordShows
    <2> QED BY <2>1, <2>2, <2>3
  <1>5. CASE ~EnterFails(c)
    <2>1. PICK k \in Keys : KeyEffect(c, k) /\ RecordEffect(c, k)
      BY FailureEffect
    <2>2. PICK e \in Entry : /\ redis' = [redis EXCEPT ![k] = e]
                             /\ \/ e = redis[k]
                                \/ redis[k].owner = c /\ e.owner \in {c, None}
      BY <2>1 DEF KeyEffect
    <2>3. PICK lock \in GoodLock : /\ held' = [held EXCEPT ![c][k] = lock]
                                   /\ lock.count > 0 => held[c][k].count > 0
      BY <1>5, <2>1 DEF RecordEffect
    <2>4. /\ \A j \in Keys \ {k} : redis'[j] = redis[j]
          /\ \/ redis'[k] = redis[k]
             \/ redis[k].owner = c /\ redis'[k].owner \in {c, None}
      BY <1>1, <2>2 DEF RedisType
    <2>5. held[c] \in [Keys -> GoodLock]
      BY <1>1 DEF HeldType
    <2>6. /\ held'[c][k] = lock
          /\ \A j \in Keys \ {k} : held'[c][j] = held[c][j]
          /\ \A d \in Contexts \ {c} : held'[d] = held[d]
      BY <1>1, <2>3, <2>5 DEF HeldType
    <2>7. Holds(c) \ {k} \subseteq Holds(c)' /\ Holds(c)' \subseteq Holds(c)
      BY <2>3, <2>6 DEF Holds
    <2>8. \A d \in Contexts \ {c} : Holds(d)' = Holds(d)
      BY <2>6, OthersHold
    <2> QED BY <1>1, <1>3, <2>4, <2>7, <2>8, LossShows
  <1> QED BY <1>4, <1>5

LEMMA ReleaseShows ==
  ASSUME IInv, NEW c \in Contexts, Release(c)
  PROVE  Promise!Next \/ UNCHANGED Promise!vars
  <1>1. /\ frames[c] # <<>> /\ At(c, "release") /\ Top(c).pc = "release"
        /\ FramesType /\ HeldType /\ RedisType
    BY DEF Release, At, IInv, Types
  <1>2. PICK x : x = Top(c)
    OBVIOUS
  <1>3. PICK k \in x.got :
          /\ IF held[c][k].count > 1
             THEN /\ held' = [held EXCEPT ![c][k].count = @ - 1]
                  /\ UNCHANGED redis
             ELSE /\ held' = [held EXCEPT ![c][k] = NotHeld]
                  /\ redis' = Deleted(c, k)
          /\ SetTop(c, [x EXCEPT !.got = @ \ {k}])
    BY <1>2 DEF Release
  <1>4. x \in Frame /\ FrameOk(x) /\ k \in Keys
    BY <1>1, <1>2, <1>3, TopFrame DEF Frame
  <1>5. PICK f : f = [x EXCEPT !.got = @ \ {k}]
    OBVIOUS
  <1>6. f \in Frame /\ FrameOk(f) /\ f.pc = "release"
    BY <1>1, <1>2, <1>4, <1>5 DEF Frame, FrameOk
  <1>7. \A d \in Healthy : Inside(d)' = Inside(d)
    BY <1>1, <1>3, <1>5, <1>6, TopShows, LockAssumption
  <1>8. held[c] \in [Keys -> GoodLock]
    BY <1>1 DEF HeldType
  <1>9. CASE held[c][k].count > 1
    <2>1. PICK old \in GoodLock : old = held[c][k] /\ old.count \in Nat
      BY <1>4, <1>8 DEF GoodLock, HeldLock
    <2>2. PICK m \in Nat : m = old.count - 1 /\ m > 0
      BY <1>9, <2>1
    <2>3. PICK lock : lock = [old EXCEPT !.count = m]
      OBVIOUS
    <2>4. lock.count = m
      BY <2>1, <2>3 DEF GoodLock, HeldLock
    <2>5. held' = [held EXCEPT ![c][k] = lock]
      BY <1>3, <1>9, <2>1, <2>2, <2>3
    <2>6. /\ held'[c][k].count > 0 /\ held[c][k].count > 0
          /\ \A j \in Keys \ {k} : held'[c][j] = held[c][j]
          /\ \A d \in Contexts \ {c} : held'[d] = held[d]
      BY <1>1, <1>4, <1>8, <2>1, <2>2, <2>4, <2>5 DEF HeldType
    <2>7. Holds(c)' = Holds(c)
      BY <2>6 DEF Holds
    <2>8. \A d \in Contexts : Holds(d)' = Holds(d)
      BY <2>6, <2>7, OthersHold
    <2>9. \A j \in Keys : redis'[j].owner = redis[j].owner
      BY <1>3, <1>9
    <2> QED BY <1>7, <2>8, <2>9, HoldersStay, PromiseStutter
  <1>10. CASE ~ (held[c][k].count > 1)
    <2>1. held' = [held EXCEPT ![c][k] = NotHeld] /\ redis' = Deleted(c, k)
      BY <1>3, <1>10
    <2>2. /\ held'[c][k].count = 0
          /\ \A j \in Keys \ {k} : held'[c][j] = held[c][j]
          /\ \A d \in Contexts \ {c} : held'[d] = held[d]
      BY <1>1, <1>4, <1>8, <2>1 DEF HeldType, NotHeld
    <2>3. Holds(c)' = Holds(c) \ {k}
      BY <2>2 DEF Holds
    <2>4. \A d \in Contexts \ {c} : Holds(d)' = Holds(d)
      BY <2>2, OthersHold
    <2>5. /\ \A j \in Keys \ {k} : redis'[j] = redis[j]
          /\ redis[k].owner = c => redis'[k].owner = None
          /\ redis[k].owner # c => redis'[k] = redis[k]
      BY <1>1, <1>4, <2>1 DEF Deleted, RedisType, Free
    <2>6. \A j \in Keys \ {k} : Holder(j)' = Holder(j)
      BY <2>3, <2>4, <2>5 DEF Holder
    <2>7. CASE Holder(k) = c
      <3>1. redis[k].owner = c
        BY <1>4, <2>7, HolderIs
      <3>2. Holder(k)' = None
        BY <2>5, <3>1, LockAssumption DEF Holder
      <3>3. c \in Healthy => k \notin Inside(c)
        BY <1>1, <1>2, <1>3, <1>10, LastIsOutermost
      <3> QED BY <1>4, <1>7, <2>6, <2>7, <3>2, <3>3, PromiseRelease
    <2>8. CASE Holder(k) # c
      <3>1. CASE redis[k].owner = c
        <4>1. k \notin Holds(c)
          BY <1>4, <2>8, <3>1, HolderIs
        <4>2. Holder(k) = None
          BY <3>1, <4>1 DEF Holder
        <4>3. Holder(k)' = None
          BY <2>5, <3>1, LockAssumption DEF Holder
        <4> QED BY <1>7, <2>6, <4>2, <4>3, PromiseStutter
      <3>2. CASE redis[k].owner # c
        <4>1. redis'[k] = redis[k]
          BY <2>5, <3>2
        <4>2. Holder(k)' = Holder(k)
          BY <2>4, <3>2, <4>1 DEF Holder
        <4> QED BY <1>7, <2>6, <4>2, PromiseStutter
      <3> QED BY <3>1, <3>2
    <2> QED BY <2>7, <2>8
  <1> QED BY <1>9, <1>10

LEMMA RenewShows ==
  ASSUME IInv, NEW c \in Contexts, NEW k \in Keys, Renew(c, k)
  PROVE  UNCHANGED Promise!vars
  <1>1. HeldType /\ RedisType /\ frames' = frames
    BY DEF Renew, IInv, Types
  <1>2. \A d \in Healthy : Inside(d)' = Inside(d)
    BY <1>1 DEF Inside
  <1>3. PICK old \in GoodLock : old = held[c][k]
    BY <1>1 DEF HeldType
  <1>4. PICK lock : lock = [old EXCEPT !.due = old.every]
    OBVIOUS
  <1>5. lock.count = old.count
    BY <1>3, <1>4 DEF GoodLock, HeldLock
  <1>6. held' = [held EXCEPT ![c][k] = lock]
    BY <1>3, <1>4 DEF Renew
  <1>7. held[c] \in [Keys -> GoodLock]
    BY <1>1 DEF HeldType
  <1>8. /\ \A j \in Keys : held'[c][j].count = held[c][j].count
        /\ \A d \in Contexts \ {c} : held'[d] = held[d]
    BY <1>1, <1>3, <1>5, <1>6, <1>7 DEF HeldType
  <1>9. Holds(c)' = Holds(c)
    BY <1>8 DEF Holds
  <1>10. \A d \in Contexts : Holds(d)' = Holds(d)
    BY <1>8, <1>9, OthersHold
  <1>11. \A j \in Keys : redis'[j].owner = redis[j].owner
    BY <1>1 DEF Renew, Refreshed, RedisType, Entry
  <1> QED BY <1>2, <1>10, <1>11, HoldersStay, PromiseStutter

LEMMA TickShows ==
  ASSUME IInv, IInv', Tick
  PROVE  Promise!Next
  <1>1. FramesType /\ HeldType /\ RedisType
    BY DEF IInv, Types
  <1>2. ASSUME NEW d \in Contexts PROVE Inside(d)' = Inside(d) /\ Holds(d)' = Holds(d)
    <2>1. PICK s \in Seq(GoodFrame) : s = frames[d]
      BY <1>1 DEF FramesType
    <2>2. PICK t : t = frames'[d]
      OBVIOUS
    <2>3. PICK m \in Nat : m = Len(s) /\ DOMAIN s = 1..m
      BY LenProperties
    <2>4. DOMAIN t = 1..m /\ \A n \in 1..m : t[n] = Older(s[n])
      BY <1>1, <2>1, <2>2, <2>3, TickFrames
    <2>5. \A n \in 1..m : s[n] \in GoodFrame
      BY <2>3, ElementOfSeq
    <2>6. \A n \in 1..m : t[n].pc = s[n].pc /\ t[n].got = s[n].got
      BY <2>4, <2>5, OlderFrame
    <2>7. RunKeys(t) = RunKeys(s)
      <3>1. ASSUME NEW k PROVE k \in RunKeys(t) <=> k \in RunKeys(s)
        BY <2>3, <2>4, <2>6 DEF RunKeys
      <3> QED BY <3>1, Zenon
    <2>8. Holds(d)' = Holds(d)
      BY <1>1, TickHeld DEF Holds
    <2> QED BY <2>1, <2>2, <2>7, <2>8, InsideRunKeys
  <1>3. \A d \in Healthy : Inside(d)' = Inside(d)
    BY <1>2, LockAssumption
  <1>4. ASSUME NEW k \in Keys
        PROVE  \/ Holder(k)' = Holder(k)
               \/ Holder(k)' = None /\ Holder(k) \notin Healthy
    <2>1. redis'[k].owner = redis[k].owner \/ redis'[k].owner = None
      <3>1. redis[k].left \in Nat
        BY <1>1 DEF RedisType, Entry
      <3>2. CASE redis[k].left > 1
        BY <1>1, <3>2, TickRedis
      <3>3. CASE redis[k].left <= 1
        BY <3>3 DEF Tick, Free
      <3> QED BY <3>1, <3>2, <3>3
    <2>2. CASE redis'[k].owner = redis[k].owner
      BY <1>2, <2>2 DEF Holder
    <2>3. CASE redis'[k].owner = None
      <3>1. Holder(k)' = None
        BY <2>3, LockAssumption DEF Holder
      <3>2. ASSUME Holder(k) \in Healthy PROVE FALSE
        <4>1. PICK d \in Healthy : d = Holder(k)
          BY <3>2
        <4>2. d \in Contexts /\ d # None /\ k \in Holds(d)'
          BY <1>2, <4>1, HolderIs, LockAssumption
        <4>3. LeaseOk(d)'
          BY <4>2 DEF IInv, Sound
        <4> QED BY <2>3, <4>2, <4>3 DEF LeaseOk
      <3> QED BY <3>1, <3>2
    <2> QED BY <2>1, <2>2, <2>3
  <1>5. PICK lost \in SUBSET Keys : lost = {k \in Keys : Holder(k)' # Holder(k)}
    OBVIOUS
  <1>6. /\ \A k \in lost : Holder(k)' = None /\ Holder(k) \notin Healthy
        /\ \A k \in Keys \ lost : Holder(k)' = Holder(k)
    BY <1>4, <1>5
  <1> QED BY <1>3, <1>6, PromiseLapse

LEMMA StartsAsPromised ==
  ASSUME Init
  PROVE  Promise!Init
  <1>1. \A k \in Keys : Holder(k) = None
    BY LockAssumption DEF Init, Holder, Free
  <1>2. \A d \in Healthy : frames[d] = <<>>
    BY LockAssumption DEF Init
  <1>3. \A d \in Healthy : Inside(d) = {}
    BY <1>2, EmptySeq DEF Inside
  <1> QED BY <1>1, <1>3 DEF Promise!Init

LEMMA StepsAsPromised ==
  ASSUME IInv, IInv', [Next]_vars
  PROVE  Promise!Next \/ UNCHANGED Promise!vars
  <1>1. CASE Tick
    BY <1>1, TickShows
  <1>2. ASSUME NEW c \in Contexts, Step(c)
        PROVE  Promise!Next \/ UNCHANGED Promise!vars
    <2>1. CASE Reenter(c) \/ SetKey(c) \/ EnterTable(c)
      BY <2>1, ReenterShows, SetKeyShows, EnterTableShows
    <2>2. CASE GiveUp(c) \/ StartOperation(c) \/ EndOperation(c)
      BY <2>2, GiveUpShows, StartShows, EndShows
    <2>3. CASE Release(c) \/ Return(c)
      BY <2>3, ReleaseShows, ReturnShows
    <2> QED BY <1>2, <2>1, <2>2, <2>3 DEF Step
  <1>3. ASSUME NEW c \in Contexts, CallFails(c)
        PROVE  Promise!Next \/ UNCHANGED Promise!vars
    BY <1>3, CallFailsShows
  <1>4. ASSUME NEW c \in Contexts, NEW keys \in Requests[c], NEW ttl \in Ttls,
               Call(c, keys, ttl)
        PROVE  Promise!Next \/ UNCHANGED Promise!vars
    BY <1>4, CallShows
  <1>5. ASSUME NEW c \in Contexts, NEW k \in Keys, Renew(c, k)
        PROVE  Promise!Next \/ UNCHANGED Promise!vars
    BY <1>5, RenewShows
  <1>6. CASE UNCHANGED vars
    <2>1. \A k \in Keys : Holder(k)' = Holder(k)
      BY <1>6 DEF vars, Holder, Holds
    <2>2. \A d \in Healthy : Inside(d)' = Inside(d)
      BY <1>6 DEF vars, Inside
    <2> QED BY <2>1, <2>2, PromiseStutter
  <1> QED BY <1>1, <1>2, <1>3, <1>4, <1>5, <1>6 DEF Next

\* The service implements its promise: to the code that runs under its locks,
\* every behaviour of it is one of LockPromise.
THEOREM Refinement == Spec => KeepsPromise
  <1>1. Init => Promise!Init
    BY StartsAsPromised
  <1>2. IInv /\ IInv' /\ [Next]_vars => [Promise!Next]_(Promise!vars)
    BY StepsAsPromised
  <1> QED BY <1>1, <1>2, IInvHolds, PTL DEF Spec, KeepsPromise, Promise!Spec
-----------------------------------------------------------------------------
(* No key is left behind in Redis, and nobody waits in a circle. *)

\* The answer to c's SET of key k is on its way.
Entering(c, k) == At(c, "enter") /\ k = NextKey(c)

Owned(c) == \A k \in Keys : redis[k].owner = c => k \in Holds(c) \/ Entering(c, k)

\* A key a healthy context has in Redis is in its table, or about to be.
OwnedIsHeld == \A c \in Healthy : Owned(c)

\* A step of d makes nobody else the owner of a key.
OwnersOf(d) ==
  /\ OthersFrames(d)
  /\ \A c \in Contexts \ {d} : held'[c] = held[c]
  /\ \A k \in Keys : redis'[k].owner \in {redis[k].owner, d, None}

LEMMA OthersOwn ==
  ASSUME OwnedIsHeld, NEW d \in Contexts, OwnersOf(d), d \in Healthy => Owned(d)'
  PROVE  OwnedIsHeld'
  <1> SUFFICES ASSUME NEW c \in Healthy, c # d, NEW k \in Keys, redis'[k].owner = c
               PROVE  (k \in Holds(c) \/ Entering(c, k))'
    BY DEF OwnedIsHeld, Owned
  <1>1. frames'[c] = frames[c] /\ held'[c] = held[c] /\ c # None /\ redis[k].owner = c
    BY LockAssumption DEF OwnersOf, OthersFrames
  <1>2. k \in Holds(c) \/ Entering(c, k)
    BY <1>1 DEF OwnedIsHeld, Owned
  <1> QED BY <1>1, <1>2 DEF Holds, Entering, At, Top, NextKey

\* A step of a context that is not waiting for the answer to SET.
LEMMA SettledOwns ==
  ASSUME NEW c \in Healthy, Owned(c), ~At(c, "enter"),
         \A k \in Keys : redis'[k].owner = c => redis[k].owner = c,
         \A k \in Keys : redis'[k].owner = c /\ k \in Holds(c) => k \in Holds(c)'
  PROVE  Owned(c)'
  BY DEF Owned, Entering

\* The stack and the table of one context are all a step changes.
LEMMA OneContext ==
  ASSUME IInv, NEW c \in Contexts,
         frames' = frames \/ \E new : frames' = [frames EXCEPT ![c] = new],
         held' = held \/ \E new : held' = [held EXCEPT ![c] = new],
         \A k \in Keys : redis'[k].owner \in {redis[k].owner, c, None}
  PROVE  OwnersOf(c)
  BY DEF OwnersOf, OthersFrames, IInv, Types, FramesType, HeldType

LEMMA SetKeyOwns ==
  ASSUME IInv, NEW c \in Contexts, SetKey(c)
  PROVE  OwnersOf(c) /\ (Owned(c) => Owned(c)')
  <1>1. /\ frames[c] # <<>> /\ Top(c).pc = "acquire" /\ Top(c).todo # {}
        /\ FramesType /\ RedisType /\ Nested(c)
    BY DEF SetKey, At, IInv, Types, Sound
  <1>2. PICK x : x = Top(c)
    OBVIOUS
  <1>3. PICK f : f = [x EXCEPT !.pc = "enter", !.wait = 0]
    OBVIOUS
  <1>4. f \in Frame /\ FrameOk(f) /\ f.pc = "enter" /\ f.todo = x.todo
    BY <1>1, <1>2, <1>3, TopFrame DEF Frame, FrameOk
  <1>5. SetTop(c, f)
    BY <1>2, <1>3 DEF SetKey
  <1>6. frames'[c] # <<>> /\ Top(c)' = f
    BY <1>1, <1>4, <1>5, ChangeTop
  <1>7. PICK k \in Keys : k = NextKey(c)
    BY <1>1, NextKeyLeast
  <1>8. /\ held' = held
        /\ redis' = [redis EXCEPT ![k] = [owner |-> c, left |-> x.ttl]]
    BY <1>2, <1>7 DEF SetKey, NewEntry
  <1>9. \A j \in Keys : redis'[j].owner = IF j = k THEN c ELSE redis[j].owner
    BY <1>1, <1>8 DEF RedisType
  <1>10. OwnersOf(c)
    <2>1. \E new : frames' = [frames EXCEPT ![c] = new]
      BY <1>5 DEF SetTop
    <2> QED BY <1>8, <1>9, <2>1, OneContext
  <1>11. Entering(c, k)'
    BY <1>2, <1>4, <1>6, <1>7 DEF Entering, At, NextKey
  <1>12. ~At(c, "enter")
    BY <1>1 DEF At
  <1>13. Owned(c) => Owned(c)'
    BY <1>8, <1>9, <1>11, <1>12 DEF Owned, Holds, Entering
  <1> QED BY <1>10, <1>13

LEMMA EnterTableOwns ==
  ASSUME IInv, NEW c \in Contexts, EnterTable(c)
  PROVE  OwnersOf(c) /\ (Owned(c) => Owned(c)')
  <1>1. /\ frames[c] # <<>> /\ At(c, "enter") /\ Top(c).todo # {}
        /\ FramesType /\ HeldType /\ redis' = redis
    BY TopFrame DEF EnterTable, At, IInv, Types, FrameOk
  <1>2. PICK k \in Keys : k = NextKey(c)
    BY <1>1, NextKeyLeast
  <1>3. PICK lock : lock = NewLock(Top(c).ttl)
    OBVIOUS
  <1>4. held' = [held EXCEPT ![c][k] = lock] /\ lock.count = 1
    BY <1>2, <1>3 DEF EnterTable, NewLock
  <1>5. /\ held'[c][k] = lock
        /\ \A j \in Keys \ {k} : held'[c][j] = held[c][j]
    BY <1>1, <1>2, <1>4 DEF HeldType
  <1>6. OwnersOf(c)
    <2>1. \E new : frames' = [frames EXCEPT ![c] = new]
      BY DEF EnterTable, Acquired, SetTop
    <2>2. \E new : held' = [held EXCEPT ![c] = new]
      BY <1>4
    <2> QED BY <1>1, <2>1, <2>2, OneContext
  <1>7. Owned(c) => Owned(c)'
    BY <1>1, <1>2, <1>4, <1>5 DEF Owned, Holds, Entering
  <1> QED BY <1>6, <1>7

LEMMA ReenterOwns ==
  ASSUME IInv, NEW c \in Contexts, Reenter(c)
  PROVE  OwnersOf(c) /\ (c \in Healthy /\ Owned(c) => Owned(c)')
  <1>1. /\ frames[c] # <<>> /\ ~At(c, "enter") /\ Top(c).todo # {}
        /\ FramesType /\ HeldType /\ RedisType
    BY DEF Reenter, At, IInv, Types
  <1>2. PICK k \in Keys : k = NextKey(c)
    BY <1>1, NextKeyLeast
  <1>3. PICK old \in GoodLock : old = held[c][k] /\ old.count \in Nat /\ old.count > 0
    BY <1>1, <1>2 DEF HeldType, Reenter, GoodLock, HeldLock
  <1>4. PICK lock : lock = HoldAgain(old, Top(c).ttl)
    OBVIOUS
  <1>5. lock.count > 0
    BY <1>3, <1>4 DEF HoldAgain, GoodLock, HeldLock
  <1>6. held' = [held EXCEPT ![c][k] = lock]
    BY <1>2, <1>3, <1>4 DEF Reenter
  <1>7. /\ held'[c][k] = lock
        /\ \A j \in Keys \ {k} : held'[c][j] = held[c][j]
    BY <1>1, <1>2, <1>6 DEF HeldType
  <1>8. \A j \in Keys : redis'[j].owner = redis[j].owner
    BY <1>1, <1>2 DEF Reenter, Refreshed, RedisType, Entry
  <1>9. OwnersOf(c)
    <2>1. \E new : frames' = [frames EXCEPT ![c] = new]
      BY DEF Reenter, Acquired, SetTop
    <2>2. \E new : held' = [held EXCEPT ![c] = new]
      BY <1>6
    <2> QED BY <1>8, <2>1, <2>2, OneContext
  <1>10. \A j \in Keys : j \in Holds(c) => j \in Holds(c)'
    BY <1>5, <1>7 DEF Holds
  <1> QED BY <1>1, <1>8, <1>9, <1>10, SettledOwns

LEMMA ReleaseOwns ==
  ASSUME IInv, NEW c \in Contexts, Release(c)
  PROVE  OwnersOf(c) /\ (c \in Healthy /\ Owned(c) => Owned(c)')
  <1>1. /\ frames[c] # <<>> /\ ~At(c, "enter") /\ FramesType /\ HeldType /\ RedisType
    BY DEF Release, At, IInv, Types
  <1>2. PICK k \in Top(c).got :
          /\ IF held[c][k].count > 1
             THEN /\ held' = [held EXCEPT ![c][k].count = @ - 1]
                  /\ UNCHANGED redis
             ELSE /\ held' = [held EXCEPT ![c][k] = NotHeld]
                  /\ redis' = Deleted(c, k)
          /\ SetTop(c, [Top(c) EXCEPT !.got = @ \ {k}])
    BY DEF Release
  <1>3. k \in Keys
    BY <1>1, TopFrame DEF Frame
  <1>4. PICK lock : held' = [held EXCEPT ![c][k] = lock]
    BY <1>2
  <1>5. \A j \in Keys \ {k} : held'[c][j] = held[c][j]
    BY <1>1, <1>3, <1>4 DEF HeldType
  <1>6. /\ \A j \in Keys : redis'[j].owner \in {redis[j].owner, None}
        /\ ~(held[c][k].count > 1) => redis'[k].owner # c
    <2>1. CASE held[c][k].count > 1
      BY <1>2, <2>1
    <2>2. CASE ~(held[c][k].count > 1)
      <3>1. redis' = Deleted(c, k) /\ c # None
        BY <1>2, <2>2, LockAssumption
      <3>2. CASE redis[k].owner = c
        <4>1. /\ redis'[k].owner = None
              /\ \A j \in Keys \ {k} : redis'[j] = redis[j]
          BY <1>1, <1>3, <3>1, <3>2 DEF Deleted, RedisType, Free
        <4> QED BY <3>1, <4>1
      <3>3. CASE redis[k].owner # c
        BY <3>1, <3>3 DEF Deleted
      <3> QED BY <3>2, <3>3
    <2> QED BY <2>1, <2>2
  <1>7. held[c][k].count > 1 => held'[c][k].count > 0
    <2> SUFFICES ASSUME held[c][k].count > 1 PROVE held'[c][k].count > 0
      OBVIOUS
    <2>1. PICK old \in GoodLock : old = held[c][k] /\ old.count \in Nat
      BY <1>1, <1>3 DEF HeldType, GoodLock, HeldLock
    <2>2. PICK new : new = [old EXCEPT !.count = old.count - 1]
      OBVIOUS
    <2>3. new.count > 0
      BY <2>1, <2>2 DEF GoodLock, HeldLock
    <2>4. held' = [held EXCEPT ![c][k] = new]
      BY <1>2, <2>1, <2>2
    <2>5. held'[c][k] = new
      BY <1>1, <1>3, <2>4 DEF HeldType
    <2> QED BY <2>3, <2>5
  <1>8. OwnersOf(c)
    <2>1. \E new : frames' = [frames EXCEPT ![c] = new]
      BY <1>2 DEF SetTop
    <2>2. \E new : held' = [held EXCEPT ![c] = new]
      BY <1>4
    <2> QED BY <1>6, <2>1, <2>2, OneContext
  <1>9. ASSUME NEW j \in Keys, redis'[j].owner = c, j \in Holds(c)
        PROVE  j \in Holds(c)'
    <2>1. CASE j = k
      BY <1>3, <1>6, <1>7, <1>9, <2>1 DEF Holds
    <2>2. CASE j # k
      BY <1>5, <1>9, <2>2 DEF Holds
    <2> QED BY <2>1, <2>2
  <1>10. \A j \in Keys : redis'[j].owner = c => redis[j].owner = c
    BY <1>6, LockAssumption
  <1> QED BY <1>1, <1>8, <1>9, <1>10, SettledOwns

LEMMA RenewOwns ==
  ASSUME IInv, NEW c \in Contexts, NEW k \in Keys, Renew(c, k)
  PROVE  OwnersOf(c) /\ (Owned(c) => Owned(c)')
  <1>1. HeldType /\ RedisType /\ frames' = frames
    BY DEF Renew, IInv, Types
  <1>2. PICK old \in GoodLock : old = held[c][k]
    BY <1>1 DEF HeldType
  <1>3. PICK lock : lock = [old EXCEPT !.due = old.every]
    OBVIOUS
  <1>4. held' = [held EXCEPT ![c][k] = lock] /\ lock.count = old.count
    BY <1>2, <1>3 DEF Renew, GoodLock, HeldLock
  <1>5. \A j \in Keys : held'[c][j].count = held[c][j].count
    BY <1>1, <1>2, <1>4 DEF HeldType
  <1>6. \A j \in Keys : redis'[j].owner = redis[j].owner
    BY <1>1 DEF Renew, Refreshed, RedisType, Entry
  <1>7. OwnersOf(c)
    <2>1. \E new : held' = [held EXCEPT ![c] = new]
      BY <1>4
    <2> QED BY <1>1, <1>6, <2>1, OneContext
  <1>8. Owned(c) => Owned(c)'
    BY <1>1, <1>5, <1>6 DEF Owned, Holds, Entering, At, Top, NextKey
  <1> QED BY <1>7, <1>8

LEMMA TickOwns ==
  ASSUME IInv, Tick, OwnedIsHeld
  PROVE  OwnedIsHeld'
  <1> SUFFICES ASSUME NEW c \in Healthy, NEW k \in Keys, redis'[k].owner = c
               PROVE  (k \in Holds(c) \/ Entering(c, k))'
    BY DEF OwnedIsHeld, Owned
  <1>1. FramesType /\ HeldType /\ c \in Contexts /\ c # None
    BY LockAssumption DEF IInv, Types
  <1>2. redis[k].owner = c
    BY <1>1 DEF Tick, Free
  <1>3. CASE k \in Holds(c)
    <2>1. held'[c][k].count = held[c][k].count
      BY <1>1, TickHeld
    <2> QED BY <1>3, <2>1 DEF Holds
  <1>4. CASE Entering(c, k)
    <2>1. frames[c] # <<>> /\ Top(c).pc = "enter" /\ k = NextKey(c)
      BY <1>4 DEF Entering, At
    <2>2. Top(c)' = Older(Top(c)) /\ Top(c) \in GoodFrame /\ frames'[c] # <<>>
      BY <1>1, <2>1, TickTop, TickFrames
    <2>3. Top(c)'.pc = "enter" /\ Top(c)'.todo = Top(c).todo
      BY <2>1, <2>2, OlderFrame
    <2>4. NextKey(c)' = NextKey(c)
      BY <2>3 DEF NextKey
    <2> QED BY <2>1, <2>2, <2>3, <2>4 DEF Entering, At
  <1> QED BY <1>2, <1>3, <1>4 DEF OwnedIsHeld, Owned

\* The other steps of a call: neither Redis nor a table changes.
LEMMA StageOwns ==
  ASSUME IInv, NEW c \in Contexts,
         \/ GiveUp(c) \/ StartOperation(c) \/ EndOperation(c) \/ Return(c)
         \/ \E keys \in Requests[c], ttl \in Ttls : Call(c, keys, ttl)
  PROVE  OwnersOf(c) /\ (c \in Healthy /\ Owned(c) => Owned(c)')
  <1>1. redis' = redis /\ held' = held
    BY DEF GiveUp, StartOperation, EndOperation, Return, Call
  <1>2. \E new : frames' = [frames EXCEPT ![c] = new]
    <2>1. CASE Return(c)
      BY <2>1 DEF Return
    <2>2. CASE GiveUp(c) \/ StartOperation(c) \/ EndOperation(c)
      BY <2>2 DEF GiveUp, Throw, StartOperation, EndOperation, SetTop
    <2>3. CASE \E keys \in Requests[c], ttl \in Ttls : Call(c, keys, ttl)
      BY <2>3 DEF Call
    <2> QED BY <2>1, <2>2, <2>3
  <1>3. ~At(c, "enter")
    BY DEF GiveUp, StartOperation, EndOperation, Return, Call, At
  <1>4. OwnersOf(c)
    BY <1>1, <1>2, OneContext
  <1>5. \A k \in Keys : k \in Holds(c) => k \in Holds(c)'
    BY <1>1 DEF Holds
  <1> QED BY <1>1, <1>3, <1>4, <1>5, SettledOwns

LEMMA CallFailsOwns ==
  ASSUME IInv, NEW c \in Contexts, CallFails(c)
  PROVE  OwnersOf(c) /\ c \notin Healthy
  <1>1. c \notin Healthy /\ RedisType
    BY DEF CallFails, IInv, Types
  <1>2. \E new : frames' = [frames EXCEPT ![c] = new]
    BY FailureEffect DEF SetTop
  <1>3. PICK k \in Keys : KeyEffect(c, k) /\ RecordEffect(c, k)
    BY FailureEffect
  <1>4. \E new : held' = [held EXCEPT ![c] = new]
    BY <1>3 DEF RecordEffect
  <1>5. \A j \in Keys : redis'[j].owner \in {redis[j].owner, c, None}
    BY <1>1, <1>3 DEF KeyEffect, RedisType
  <1> QED BY <1>1, <1>2, <1>4, <1>5, OneContext

LEMMA NextOwns ==
  ASSUME IInv, OwnedIsHeld, [Next]_vars
  PROVE  OwnedIsHeld'
  <1>1. CASE Tick
    BY <1>1, TickOwns
  <1>2. ASSUME NEW c \in Contexts, OwnersOf(c),
               c \in Healthy /\ Owned(c) => Owned(c)'
        PROVE  OwnedIsHeld'
    BY <1>2, OthersOwn DEF OwnedIsHeld
  <1>3. ASSUME NEW c \in Contexts, Step(c) PROVE OwnedIsHeld'
    <2>1. CASE Reenter(c) \/ SetKey(c) \/ EnterTable(c) \/ Release(c)
      BY <1>2, <2>1, ReenterOwns, SetKeyOwns, EnterTableOwns, ReleaseOwns
    <2>2. CASE GiveUp(c) \/ StartOperation(c) \/ EndOperation(c) \/ Return(c)
      BY <1>2, <2>2, StageOwns
    <2> QED BY <1>3, <2>1, <2>2 DEF Step
  <1>4. ASSUME NEW c \in Contexts, CallFails(c) PROVE OwnedIsHeld'
    BY <1>2, <1>4, CallFailsOwns
  <1>5. ASSUME NEW c \in Contexts, NEW keys \in Requests[c], NEW ttl \in Ttls,
               Call(c, keys, ttl)
        PROVE  OwnedIsHeld'
    BY <1>2, <1>5, StageOwns
  <1>6. ASSUME NEW c \in Contexts, NEW k \in Keys, Renew(c, k) PROVE OwnedIsHeld'
    BY <1>2, <1>6, RenewOwns
  <1>7. CASE UNCHANGED vars
    BY <1>7 DEF vars, OwnedIsHeld, Owned, Holds, Entering, At, Top, NextKey
  <1> QED BY <1>1, <1>3, <1>4, <1>5, <1>6, <1>7 DEF Next

\* A healthy context has no key in Redis that it does not know of: whatever it has
\* there it holds and will release, or it is just being told that it has it.
THEOREM OwnedIsHeldHolds == Spec => []OwnedIsHeld
  <1>1. Init => OwnedIsHeld
    BY LockAssumption DEF Init, OwnedIsHeld, Owned, Free
  <1>2. IInv /\ OwnedIsHeld /\ [Next]_vars => OwnedIsHeld'
    BY NextOwns
  <1> QED BY <1>1, <1>2, IInvHolds, PTL DEF Spec

\* No call, no key.
NothingLeftBehind ==
  \A c \in Healthy : frames[c] = <<>> => \A k \in Keys : redis[k].owner # c

\* When the last call of a healthy context has returned or given up, nothing of it
\* is left in Redis: no interleaving of nested calls, timers and others' failures
\* leaves a key to block the others until its time to live is over.
THEOREM NothingLeftBehindHolds == Spec => []NothingLeftBehind
  <1>1. IInv /\ OwnedIsHeld => NothingLeftBehind
    <2> SUFFICES ASSUME IInv, OwnedIsHeld, NEW c \in Healthy, frames[c] = <<>>,
                        NEW k \in Keys, redis[k].owner = c
                 PROVE  FALSE
      BY DEF NothingLeftBehind
    <2>1. held[c][k].count > 0 /\ CountOk(c)
      BY LockAssumption DEF OwnedIsHeld, Owned, Entering, At, Holds, IInv, Sound
    <2>2. Having(c, k) = {}
      BY EmptySeq DEF Having
    <2>3. Cardinality(Having(c, k)) = 0
      BY <2>2, FS_EmptySet
    <2> QED BY <2>1, <2>3 DEF CountOk
  <1> QED BY <1>1, IInvHolds, OwnedIsHeldHolds, PTL

\* Among finitely many contexts that await a key, one awaits the last.
LEMMA LastAwaited ==
  ASSUME NEW D, IsFiniteSet(D), D # {}, NEW key, \A d \in D : key[d] \in Nat
  PROVE  \E c \in D : \A d \in D : key[d] <= key[c]
  <1> DEFINE Later(c) == {d \in D : key[c] < key[d]}
             B == {Later(c) : c \in D}
  <1>1. IsWellFoundedOn(StrictSubsetOrdering(D), SUBSET D)
    <2>1. FiniteSubsetsOf(D) = SUBSET D
      BY FS_FiniteSubsetsOfFinite
    <2> QED BY <2>1, FS_StrictSubsetOrderingWellFounded
  <1>2. B \subseteq SUBSET D /\ B # {}
    OBVIOUS
  <1>3. PICK T \in B : \A U \in B : ~(<<U, T>> \in StrictSubsetOrdering(D))
    <2> HIDE DEF B
    <2> QED BY <1>1, <1>2, WFMin
  <1>4. PICK c \in D : T = Later(c)
    OBVIOUS
  <1>5. ASSUME NEW d \in D, ~(key[d] <= key[c])
        PROVE  FALSE
    <2>1. key[c] \in Nat /\ key[d] \in Nat /\ key[c] < key[d]
      BY <1>5
    <2>2. d \in Later(c) /\ d \notin Later(d)
      BY <2>1
    <2>3. Later(d) \subseteq Later(c)
      BY <2>1
    <2>4. <<Later(d), Later(c)>> \in StrictSubsetOrdering(D)
      BY <2>2, <2>3 DEF StrictSubsetOrdering
    <2> QED BY <1>3, <1>4, <2>4
  <1> QED BY <1>5

\* Of any healthy contexts, one is not waiting for a key that another of them has.
NoDeadlock ==
  \A D \in SUBSET Healthy : IsFiniteSet(D) /\ D # {} =>
    \E c \in D : \A k \in Keys :
      Awaits(c, k) /\ k \notin Holds(c) => redis[k].owner \notin D

\* validateLockOrdering does what it is there for: healthy contexts, however many
\* and however deeply their calls are nested, never wait for each other in a circle,
\* so none of them needs its timeout to get out of one.
THEOREM NoDeadlockHolds == Spec => []NoDeadlock
  <1>1. ASSUME IInv, OwnedIsHeld, WaitsInOrder PROVE NoDeadlock
    <2> SUFFICES ASSUME NEW D \in SUBSET Healthy, IsFiniteSet(D), D # {},
                        \A c \in D : \E k \in Keys :
                          Awaits(c, k) /\ k \notin Holds(c) /\ redis[k].owner \in D
                 PROVE  FALSE
      BY DEF NoDeadlock
    <2>1. PICK key : key = [c \in D |-> NextKey(c)]
      OBVIOUS
    <2>2. ASSUME NEW c \in D
          PROVE  /\ key[c] \in Keys /\ Awaits(c, key[c]) /\ key[c] \notin Holds(c)
                 /\ redis[key[c]].owner \in D
      <3>1. PICK k \in Keys : Awaits(c, k) /\ k \notin Holds(c) /\ redis[k].owner \in D
        OBVIOUS
      <3>2. k = key[c]
        BY <2>1, <3>1 DEF Awaits
      <3> QED BY <3>1, <3>2
    <2>3. PICK c \in D : \A d \in D : key[d] <= key[c]
      <3>1. \A d \in D : key[d] \in Nat
        BY <2>2, LockAssumption
      <3> QED BY <3>1, LastAwaited
    <2>4. PICK d \in D : redis[key[c]].owner = d
      BY <2>2
    <2>5. key[c] \in Holds(d)
      <3>1. ~At(d, "enter")
        BY <2>2 DEF Awaits, At
      <3> QED BY <1>1, <2>2, <2>4, <3>1 DEF OwnedIsHeld, Owned, Entering
    <2>6. key[c] < key[d]
      BY <1>1, <2>2, <2>5, LockAssumption DEF WaitsInOrder
    <2>7. key[c] \in Nat /\ key[d] \in Nat /\ key[d] <= key[c]
      BY <2>2, <2>3, LockAssumption
    <2> QED BY <2>6, <2>7
  <1>2. IInv /\ OwnedIsHeld /\ WaitsInOrder => NoDeadlock
    BY <1>1
  <1> QED BY <1>2, IInvHolds, OwnedIsHeldHolds, WaitsInOrderHolds, PTL

=============================================================================
