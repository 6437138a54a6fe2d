------------------------ MODULE CircuitBreakerProofs ------------------------
(***************************************************************************)
(* Proofs about a circuit, for any number of calls and every configuration.*)
(***************************************************************************)
EXTENDS CircuitBreaker, FiniteSetTheorems, TLAPS

\* FieldsAgree and the type, of any circuit record.
Sound(c) ==
  /\ c \in CircuitRuntime
  /\ c.override = "FORCE_OPEN" => c.state = "OPEN"
  /\ c.state = "HALF_OPEN" => c.override = "AUTO"
  /\ c.state = "CLOSED" <=> c.openedAge = NotOpened
  /\ c.state = "CLOSED" => Len(c.failures) < FailureThreshold
  /\ c.state # "HALF_OPEN" => c.successes = 0 /\ c.allowed = 1 /\ c.inFlight = 0
  /\ c.state = "HALF_OPEN" =>
       /\ c.successes < HalfOpenSuccessThreshold
       /\ c.allowed = Smaller(HalfOpenMaxCalls, 1 + c.successes)
       /\ c.inFlight <= c.allowed

\* The inductive invariant.
IInv == TypeOK /\ FieldsAgree /\ SlotsAreHeld

\* IInv in terms of Sound.
LEMMA SoundCircuit == TypeOK /\ FieldsAgree <=>
  Sound(circuit) /\ calls \in [Call -> {"idle", "plain", "probe"}]
BY DEF Sound, TypeOK, FieldsAgree

-----------------------------------------------------------------------------
\* A trip leaves a sound circuit, whatever the counters were.
LEMMA TripIsSound ==
  ASSUME NEW c \in CircuitRuntime, c.state # "OPEN"
  PROVE  /\ Sound(Transition(c, "OPEN"))
         /\ Transition(c, "OPEN").state = "OPEN"
         /\ Transition(c, "OPEN").override = c.override
<1> DEFINE t == Transition(c, "OPEN")
<1>1. t = [ state |-> "OPEN", override |-> c.override, failures |-> c.failures,
            successes |-> 0, allowed |-> 1, inFlight |-> 0, openedAge |-> 0 ]
  BY DEF Transition, AtRest, CircuitRuntime
<1>2. t \in CircuitRuntime
  BY <1>1, ConfigAssumption DEF CircuitRuntime
<1>3. /\ t.state = "OPEN" /\ t.override = c.override /\ t.successes = 0
      /\ t.allowed = 1 /\ t.inFlight = 0 /\ t.openedAge = 0
  BY <1>1
<1> HIDE DEF t
<1>4. Sound(t)
  BY <1>2, <1>3 DEF Sound, NotOpened
<1>5. QED
  BY <1>3, <1>4 DEF t

\* So does a close, unless the circuit is forced open.
LEMMA CloseIsSound ==
  ASSUME NEW c \in CircuitRuntime, c.state # "CLOSED", c.override # "FORCE_OPEN"
  PROVE  /\ Sound(Transition(c, "CLOSED"))
         /\ Transition(c, "CLOSED").state = "CLOSED"
<1> DEFINE t == Transition(c, "CLOSED")
<1>1. t = [ state |-> "CLOSED", override |-> c.override, failures |-> <<>>,
            successes |-> 0, allowed |-> 1, inFlight |-> 0,
            openedAge |-> NotOpened ]
  BY DEF Transition, AtRest, CircuitRuntime
<1>2. t \in CircuitRuntime
  <2>1. <<>> \in Seq(Ages) /\ 1 \in 1..HalfOpenMaxCalls /\ 0 \in Nat
    BY ConfigAssumption
  <2>2. c.override \in {"AUTO", "FORCE_OPEN", "FORCE_CLOSED"}
    BY DEF CircuitRuntime
  <2>3. NotOpened \in {NotOpened} \cup 0..OpenTimeout
    OBVIOUS
  <2>4. "CLOSED" \in {"CLOSED", "OPEN", "HALF_OPEN"}
    OBVIOUS
  <2> HIDE DEF t
  <2>5. QED
    BY <1>1, <2>1, <2>2, <2>3, <2>4 DEF CircuitRuntime
<1>3. /\ t.state = "CLOSED" /\ t.override = c.override /\ t.successes = 0
      /\ t.allowed = 1 /\ t.inFlight = 0 /\ t.openedAge = NotOpened
      /\ Len(t.failures) = 0
  BY <1>1
<1> HIDE DEF t
<1>4. Sound(t)
  BY <1>2, <1>3, ConfigAssumption DEF Sound
<1>5. QED
  BY <1>3, <1>4 DEF t

\* A half-open period starts with its counters at rest.
LEMMA HalfOpenIsSound ==
  ASSUME NEW c, Sound(c), c.override = "AUTO", c.state \in {"OPEN", "HALF_OPEN"}
  PROVE  /\ Sound(Transition(c, "HALF_OPEN"))
         /\ Transition(c, "HALF_OPEN").state = "HALF_OPEN"
         /\ Transition(c, "HALF_OPEN").inFlight = c.inFlight
<1>1. CASE c.state = "HALF_OPEN"
  BY <1>1 DEF Transition
<1>2. CASE c.state = "OPEN"
  <2> DEFINE t == Transition(c, "HALF_OPEN")
  <2>0. c \in CircuitRuntime /\ c.inFlight = 0
    BY <1>2 DEF Sound
  <2>1. t = [ state |-> "HALF_OPEN", override |-> c.override,
              failures |-> c.failures, successes |-> 0, allowed |-> 1,
              inFlight |-> 0, openedAge |-> c.openedAge ]
    BY <1>2, <2>0 DEF Transition, AtRest, CircuitRuntime
  <2>2. t \in CircuitRuntime
    BY <2>0, <2>1, ConfigAssumption DEF CircuitRuntime
  <2>3. /\ t.state = "HALF_OPEN" /\ t.override = c.override /\ t.successes = 0
        /\ t.allowed = 1 /\ t.inFlight = 0 /\ t.openedAge = c.openedAge
    BY <2>1
  <2> HIDE DEF t
  <2>4. Smaller(HalfOpenMaxCalls, 1 + 0) = 1
    BY ConfigAssumption DEF Smaller
  <2>5. c.openedAge # NotOpened
    BY <1>2 DEF Sound
  <2>6. Sound(t)
    BY <2>2, <2>3, <2>4, <2>5, ConfigAssumption DEF Sound
  <2>7. QED
    BY <2>0, <2>3, <2>6 DEF t
<1>3. QED
  BY <1>1, <1>2

\* trimFailures shortens the list of failures and touches nothing else.
LEMMA TrimShortens ==
  ASSUME NEW c \in CircuitRuntime
  PROVE  \E f \in Seq(Ages) : /\ Trim(c) = [c EXCEPT !.failures = f]
                              /\ Len(f) <= Len(c.failures)
<1> DEFINE stale == {i \in DOMAIN c.failures : c.failures[i] > FailureWindow}
<1>1. c.failures \in Seq(Ages) /\ Len(c.failures) \in Nat
      /\ DOMAIN c.failures = 1..Len(c.failures)
  BY DEF CircuitRuntime
<1>2. Cardinality(stale) \in 0..Len(c.failures)
  <2>1. /\ IsFiniteSet(1..Len(c.failures))
        /\ Cardinality(1..Len(c.failures)) = Len(c.failures)
    BY <1>1, FS_Interval
  <2>2. stale \in SUBSET (1..Len(c.failures))
    BY <1>1
  <2>3. IsFiniteSet(stale) /\ Cardinality(stale) <= Len(c.failures)
    BY <2>1, <2>2, FS_Subset
  <2>4. QED
    BY <1>1, <2>3, FS_CardinalityType
<1>3. PICK old \in 0..Len(c.failures) : old = Cardinality(stale)
  BY <1>2
<1> DEFINE f == SubSeq(c.failures, old + 1, Len(c.failures))
<1>4. f \in Seq(Ages) /\ Len(f) <= Len(c.failures)
  BY <1>1
<1>5. Trim(c) = [c EXCEPT !.failures = f]
  BY <1>3 DEF Trim
<1>6. QED
  BY <1>4, <1>5

\* ... so a sound circuit stays sound.
LEMMA TrimIsSound ==
  ASSUME NEW c, Sound(c)
  PROVE  /\ Sound(Trim(c))
         /\ Trim(c).state = c.state /\ Trim(c).override = c.override
         /\ Trim(c).successes = c.successes /\ Trim(c).allowed = c.allowed
         /\ Trim(c).inFlight = c.inFlight /\ Trim(c).openedAge = c.openedAge
<1>0. c \in CircuitRuntime
  BY DEF Sound
<1>1. PICK f \in Seq(Ages) : /\ Trim(c) = [c EXCEPT !.failures = f]
                             /\ Len(f) <= Len(c.failures)
  BY <1>0, TrimShortens
<1> DEFINE t == Trim(c)
<1>2. t \in CircuitRuntime
  BY <1>0, <1>1 DEF CircuitRuntime
<1>3. /\ t.state = c.state /\ t.override = c.override
      /\ t.successes = c.successes /\ t.allowed = c.allowed
      /\ t.inFlight = c.inFlight /\ t.openedAge = c.openedAge
      /\ t.failures = f
  BY <1>0, <1>1 DEF CircuitRuntime
<1>4. Len(f) \in Nat /\ Len(c.failures) \in Nat
  BY <1>0 DEF CircuitRuntime
<1> HIDE DEF t
<1>5. Sound(t)
  BY <1>1, <1>2, <1>3, <1>4, ConfigAssumption DEF Sound
<1>6. QED
  BY <1>3, <1>5 DEF t

\* A probe's success counts, and widens the allowance up to its limit.
LEMMA ProbeCounts ==
  ASSUME NEW c \in CircuitRuntime
  PROVE  LET won == [c EXCEPT !.successes = @ + 1, !.allowed = Widen(@)] IN
           /\ won \in CircuitRuntime
           /\ won.state = c.state /\ won.override = c.override
           /\ won.successes = c.successes + 1
           /\ won.allowed = Widen(c.allowed)
           /\ won.inFlight = c.inFlight /\ won.openedAge = c.openedAge
<1>1. c.successes + 1 \in Nat
  BY DEF CircuitRuntime
<1>2. Widen(c.allowed) \in 1..HalfOpenMaxCalls
  BY ConfigAssumption DEF CircuitRuntime, Widen, Smaller
<1>3. QED
  BY <1>1, <1>2 DEF CircuitRuntime

\* A success takes no slot and leaves a sound circuit sound. An open circuit
\* does not notice it.
LEMMA SuccessIsSound ==
  ASSUME NEW c, Sound(c)
  PROVE  /\ Sound(OnSuccess(c))
         /\ OnSuccess(c).inFlight \in {0, c.inFlight}
         /\ c.state = "OPEN" => /\ OnSuccess(c).state = "OPEN"
                                /\ OnSuccess(c).openedAge = c.openedAge
<1>1. CASE c.state # "HALF_OPEN"
  BY <1>1, TrimIsSound DEF OnSuccess
<1>2. CASE c.state = "HALF_OPEN"
  <2> DEFINE won == [Trim(c) EXCEPT !.successes = @ + 1, !.allowed = Widen(@)]
  <2>1. /\ Sound(Trim(c)) /\ Trim(c) \in CircuitRuntime
        /\ Trim(c).state = "HALF_OPEN" /\ Trim(c).override = "AUTO"
        /\ Trim(c).successes = c.successes /\ Trim(c).allowed = c.allowed
        /\ Trim(c).inFlight = c.inFlight
    BY <1>2, TrimIsSound DEF Sound
  <2>2. /\ c.successes \in Nat /\ c.allowed \in 1..HalfOpenMaxCalls
        /\ c.inFlight \in Nat /\ c.inFlight <= c.allowed
        /\ c.allowed = Smaller(HalfOpenMaxCalls, 1 + c.successes)
    BY <1>2 DEF Sound, CircuitRuntime
  <2>3. /\ Widen(c.allowed) = Smaller(HalfOpenMaxCalls, 1 + (c.successes + 1))
        /\ Widen(c.allowed) \in 1..HalfOpenMaxCalls
        /\ c.allowed <= Widen(c.allowed)
    BY <2>2, ConfigAssumption DEF Widen, Smaller
  <2>4. /\ won.state = "HALF_OPEN" /\ won.override = "AUTO"
        /\ won.successes = c.successes + 1 /\ won.allowed = Widen(c.allowed)
        /\ won.inFlight = c.inFlight /\ won.openedAge = Trim(c).openedAge
    BY <2>1, ProbeCounts
  <2>5. won \in CircuitRuntime
    BY <2>1, ProbeCounts
  <2>6. OnSuccess(c) = IF won.successes >= HalfOpenSuccessThreshold
                       THEN Transition(won, "CLOSED") ELSE won
    BY <1>2 DEF OnSuccess, CountSuccess
  <2>7. won.openedAge # NotOpened
    BY <2>1, <2>4 DEF Sound
  <2> HIDE DEF won
  <2>8. CASE won.successes >= HalfOpenSuccessThreshold
    <3>1. /\ Sound(Transition(won, "CLOSED"))
          /\ Transition(won, "CLOSED").state = "CLOSED"
      BY <2>4, <2>5, CloseIsSound
    <3>2. Transition(won, "CLOSED").inFlight = 0
      BY <3>1 DEF Sound
    <3>3. QED
      BY <1>2, <2>6, <2>8, <3>1, <3>2
  <2>9. CASE ~(won.successes >= HalfOpenSuccessThreshold)
    <3>1. won.successes < HalfOpenSuccessThreshold /\ won.inFlight <= won.allowed
      BY <2>2, <2>3, <2>4, <2>9, ConfigAssumption
    <3>2. Sound(won)
      BY <2>2, <2>3, <2>4, <2>5, <2>7, <3>1 DEF Sound
    <3>3. QED
      BY <1>2, <2>4, <2>6, <2>9, <3>2
  <2>10. QED
    BY <2>8, <2>9
<1>3. QED
  BY <1>1, <1>2

\* So does a failure.
LEMMA FailureIsSound ==
  ASSUME NEW c, Sound(c)
  PROVE  /\ Sound(OnFailure(c))
         /\ OnFailure(c).inFlight \in {0, c.inFlight}
         /\ c.state = "OPEN" => OnFailure(c) = c
<1>0. c \in CircuitRuntime /\ c.state \in {"CLOSED", "OPEN", "HALF_OPEN"}
  BY DEF Sound, CircuitRuntime
<1>1. CASE c.state = "OPEN"
  BY <1>1 DEF OnFailure
<1>2. CASE c.state = "HALF_OPEN"
  <2>1. OnFailure(c) = Transition(c, "OPEN")
    BY <1>2 DEF OnFailure
  <2>2. Sound(OnFailure(c)) /\ OnFailure(c).state = "OPEN"
    BY <1>0, <1>2, <2>1, TripIsSound
  <2>3. OnFailure(c).inFlight = 0
    BY <2>2 DEF Sound
  <2>4. QED
    BY <1>2, <2>2, <2>3
<1>3. CASE c.state = "CLOSED"
  <2> DEFINE q == [c EXCEPT !.failures = Append(@, 0)]
  <2> DEFINE pushed == Trim(q)
  <2>1. q \in CircuitRuntime
    <3>1. 0 \in Ages
      BY ConfigAssumption DEF Ages
    <3>2. Append(c.failures, 0) \in Seq(Ages)
      BY <1>0, <3>1 DEF CircuitRuntime
    <3>3. QED
      BY <1>0, <3>2 DEF CircuitRuntime
  <2>2. PICK f \in Seq(Ages) : pushed = [q EXCEPT !.failures = f]
    BY <2>1, TrimShortens
  <2>3. pushed \in CircuitRuntime
    BY <2>1, <2>2 DEF CircuitRuntime
  <2>4. /\ pushed.state = c.state /\ pushed.override = c.override
        /\ pushed.successes = c.successes /\ pushed.allowed = c.allowed
        /\ pushed.inFlight = c.inFlight /\ pushed.openedAge = c.openedAge
    BY <1>0, <2>1, <2>2 DEF CircuitRuntime
  <2>5. OnFailure(c) = IF Len(pushed.failures) >= FailureThreshold
                       THEN Transition(pushed, "OPEN") ELSE pushed
    BY <1>3 DEF OnFailure
  <2>6. Len(pushed.failures) \in Nat
    BY <2>3 DEF CircuitRuntime
  <2> HIDE DEF pushed
  <2>7. CASE Len(pushed.failures) >= FailureThreshold
    <3>1. Sound(OnFailure(c)) /\ OnFailure(c).state = "OPEN"
      BY <1>3, <2>3, <2>4, <2>5, <2>7, TripIsSound
    <3>2. OnFailure(c).inFlight = 0
      BY <3>1 DEF Sound
    <3>3. QED
      BY <1>3, <3>1, <3>2
  <2>8. CASE ~(Len(pushed.failures) >= FailureThreshold)
    <3>1. Len(pushed.failures) < FailureThreshold
      BY <2>6, <2>8, ConfigAssumption
    <3>2. Sound(pushed)
      BY <1>3, <2>3, <2>4, <3>1 DEF Sound
    <3>3. QED
      BY <1>3, <2>4, <2>5, <2>8, <3>2
  <2>9. QED
    BY <2>7, <2>8
<1>4. QED
  BY <1>0, <1>1, <1>2, <1>3

\* Whoever settles during a half-open period gives a taken slot back.
LEMMA ReleaseIsSound ==
  ASSUME NEW c, Sound(c)
  PROVE  /\ Sound(Release(c))
         /\ Release(c).state = c.state /\ Release(c).openedAge = c.openedAge
         /\ Release(c).inFlight \in Nat /\ c.inFlight \in Nat
         /\ Release(c).inFlight = 0 \/ Release(c).inFlight = c.inFlight - 1
<1>1. c \in CircuitRuntime /\ c.inFlight \in Nat
  BY DEF Sound, CircuitRuntime
<1>2. CASE c.state = "HALF_OPEN" /\ c.inFlight > 0
  <2> DEFINE r == [c EXCEPT !.inFlight = @ - 1]
  <2>1. r \in CircuitRuntime
    BY <1>1, <1>2 DEF CircuitRuntime
  <2>2. /\ r.state = c.state /\ r.override = c.override
        /\ r.failures = c.failures /\ r.successes = c.successes
        /\ r.allowed = c.allowed /\ r.openedAge = c.openedAge
        /\ r.inFlight = c.inFlight - 1
    BY <1>1 DEF CircuitRuntime
  <2>3. c.allowed \in Nat
    BY <1>1, ConfigAssumption DEF CircuitRuntime
  <2>4. Release(c) = r
    BY <1>2 DEF Release
  <2> HIDE DEF r
  <2>5. Sound(r)
    BY <1>1, <1>2, <2>1, <2>2, <2>3 DEF Sound
  <2>6. QED
    BY <1>1, <1>2, <2>2, <2>4, <2>5
<1>3. CASE ~(c.state = "HALF_OPEN" /\ c.inFlight > 0)
  <2>1. Release(c) = c
    BY <1>3 DEF Release
  <2>2. c.inFlight = 0
    BY <1>1, <1>3 DEF Sound
  <2>3. QED
    BY <1>1, <2>1, <2>2
<1>4. QED
  BY <1>2, <1>3

-----------------------------------------------------------------------------
\* The probes are finitely many.
LEMMA ProbesFinite ==
  /\ IsFiniteSet(Probes)
  /\ Cardinality(Probes) \in Nat
<1>1. Probes \in SUBSET Call
  BY DEF Probes
<1>2. IsFiniteSet(Probes)
  BY <1>1, CallAssumption, FS_Subset
<1>3. QED
  BY <1>2, FS_CardinalityType

\* ... after a step, too.
LEMMA ProbesFiniteAfter ==
  /\ IsFiniteSet(Probes')
  /\ Cardinality(Probes') \in Nat
<1>1. Probes' \in SUBSET Call
  BY DEF Probes
<1>2. IsFiniteSet(Probes')
  BY <1>1, CallAssumption, FS_Subset
<1>3. QED
  BY <1>2, FS_CardinalityType

\* Cardinality(Probes)', spelled as the cardinality of Probes'.
LEMMA SlotsAfter == SlotsAreHeld' <=> circuit'.inFlight <= Cardinality(Probes')
BY DEF SlotsAreHeld

\* A relabelling keeps the calls' types, and the idle ones idle.
LEMMA RelabelTypes ==
  ASSUME NEW cs \in [Call -> {"idle", "plain", "probe"}], NEW c
  PROVE  /\ Relabel(cs, c) \in [Call -> {"idle", "plain", "probe"}]
         /\ \A x \in Call : Relabel(cs, c)[x] = "idle" <=> cs[x] = "idle"
BY DEF Relabel

\* Outside a half-open period no slot is taken.
LEMMA NoSlotsAtRest ==
  ASSUME Sound(circuit'), circuit'.state # "HALF_OPEN"
  PROVE  SlotsAreHeld'
<1>1. circuit'.inFlight = 0
  BY DEF Sound
<1>2. QED
  BY <1>1, ProbesFiniteAfter, SlotsAfter

\* Init establishes the invariant.
LEMMA InitIInv == Init => IInv
<1> SUFFICES ASSUME Init PROVE IInv
  OBVIOUS
<1>1. /\ circuit.state = "CLOSED" /\ circuit.override = "AUTO"
      /\ Len(circuit.failures) = 0 /\ circuit.successes = 0
      /\ circuit.allowed = 1 /\ circuit.inFlight = 0
      /\ circuit.openedAge = NotOpened
  BY DEF Init
<1>2. circuit \in CircuitRuntime
  <2>1. <<>> \in Seq(Ages) /\ 1 \in 1..HalfOpenMaxCalls /\ 0 \in Nat
    BY ConfigAssumption
  <2>2. NotOpened \in {NotOpened} \cup 0..OpenTimeout
    OBVIOUS
  <2>3. QED
    BY <2>1, <2>2 DEF Init, CircuitRuntime
<1>3. Sound(circuit)
  BY <1>1, <1>2, ConfigAssumption DEF Sound
<1>4. calls \in [Call -> {"idle", "plain", "probe"}]
  BY DEF Init
<1>5. SlotsAreHeld
  BY <1>1, ProbesFinite DEF SlotsAreHeld
<1>6. QED
  BY <1>3, <1>4, <1>5, SoundCircuit DEF IInv

\* Freely admitted calls change neither the circuit nor the probes.
LEMMA AdmitFreelyStep ==
  ASSUME IInv, NEW call \in Call, AdmitFreely(call)
  PROVE  IInv'
<1>1. circuit' = circuit /\ calls' = [calls EXCEPT ![call] = "plain"]
  BY DEF AdmitFreely
<1>2. calls[call] = "idle" /\ calls \in [Call -> {"idle", "plain", "probe"}]
  BY DEF AdmitFreely, IInv, TypeOK
<1>3. TypeOK' /\ FieldsAgree'
  BY <1>1, <1>2 DEF IInv, TypeOK, FieldsAgree
<1>4. Probes' = Probes
  BY <1>1, <1>2 DEF Probes
<1>5. SlotsAreHeld'
  BY <1>1, <1>4, SlotsAfter DEF IInv, SlotsAreHeld
<1>6. QED
  BY <1>3, <1>5 DEF IInv

\* A probe takes one slot, and is one more probe.
LEMMA AdmitProbeStep ==
  ASSUME IInv, NEW call \in Call, AdmitProbe(call)
  PROVE  IInv'
<1>1. PICK c : c = Transition(circuit, "HALF_OPEN")
  OBVIOUS
<1>2. /\ Sound(c) /\ c.state = "HALF_OPEN" /\ c.inFlight = circuit.inFlight
  BY <1>1, SoundCircuit, HalfOpenIsSound DEF AdmitProbe, IInv
<1>3. /\ c.inFlight < c.allowed
      /\ circuit' = [c EXCEPT !.inFlight = c.inFlight + 1]
      /\ calls' = [calls EXCEPT ![call] = "probe"] /\ calls[call] = "idle"
  BY <1>1 DEF AdmitProbe, MayProbe
<1>4. c \in CircuitRuntime /\ c.inFlight \in Nat /\ c.allowed \in Nat
  BY <1>2, ConfigAssumption DEF Sound, CircuitRuntime
<1>5. /\ circuit' \in CircuitRuntime
      /\ circuit'.state = c.state /\ circuit'.override = c.override
      /\ circuit'.failures = c.failures /\ circuit'.successes = c.successes
      /\ circuit'.allowed = c.allowed /\ circuit'.openedAge = c.openedAge
      /\ circuit'.inFlight = c.inFlight + 1
  BY <1>3, <1>4 DEF CircuitRuntime
<1>6. Sound(circuit')
  BY <1>2, <1>3, <1>4, <1>5 DEF Sound
<1>7. calls' \in [Call -> {"idle", "plain", "probe"}]
  BY <1>3 DEF IInv, TypeOK
<1>8. Probes' = Probes \cup {call} /\ call \notin Probes
  BY <1>3 DEF Probes, IInv, TypeOK
<1>9. Cardinality(Probes') = Cardinality(Probes) + 1
  BY <1>8, ProbesFinite, FS_AddElement
<1>10. SlotsAreHeld'
  BY <1>2, <1>4, <1>5, <1>9, ProbesFinite, SlotsAfter DEF IInv, SlotsAreHeld
<1>11. (TypeOK /\ FieldsAgree)'
  BY <1>6, <1>7 DEF Sound, TypeOK, FieldsAgree
<1>12. QED
  BY <1>10, <1>11 DEF IInv

\* A call that settles gives one slot back, and is at most one probe less.
LEMMA SettleStep ==
  ASSUME IInv, NEW call \in Call, calls[call] # "idle",
         NEW c, Sound(c), c.inFlight \in {0, circuit.inFlight},
         circuit' = Release(c),
         calls' = Relabel([calls EXCEPT ![call] = "idle"], circuit')
  PROVE  IInv'
<1>1. Sound(circuit')
  BY ReleaseIsSound
<1>2. calls \in [Call -> {"idle", "plain", "probe"}]
  BY DEF IInv, TypeOK
<1>3. calls' \in [Call -> {"idle", "plain", "probe"}]
  BY <1>2, RelabelTypes
<1>4. (TypeOK /\ FieldsAgree)'
  BY <1>1, <1>3 DEF Sound, TypeOK, FieldsAgree
<1>5. SlotsAreHeld'
  <2>1. CASE circuit'.state # "HALF_OPEN"
    BY <1>1, <2>1, NoSlotsAtRest
  <2>2. CASE circuit'.state = "HALF_OPEN"
    <3>1. calls' = [calls EXCEPT ![call] = "idle"]
      BY <2>2 DEF Relabel
    <3>2. Probes' = Probes \ {call}
      BY <1>2, <3>1 DEF Probes
    <3>3. Cardinality(Probes') >= Cardinality(Probes) - 1
      BY <3>2, ProbesFinite, FS_RemoveElement
    <3>4. /\ circuit'.inFlight \in Nat /\ c.inFlight \in Nat
          /\ circuit'.inFlight = 0 \/ circuit'.inFlight = c.inFlight - 1
      BY ReleaseIsSound
    <3>5. circuit.inFlight <= Cardinality(Probes)
      BY DEF IInv, SlotsAreHeld
    <3>6. circuit'.inFlight <= Cardinality(Probes')
      BY <3>3, <3>4, <3>5, ProbesFinite, ProbesFiniteAfter
    <3>7. QED
      BY <3>6, SlotsAfter
  <2>3. QED
    BY <2>1, <2>2
<1>6. QED
  BY <1>4, <1>5 DEF IInv

\* A success settles its call ...
LEMMA SucceedStep ==
  ASSUME IInv, NEW call \in Call, Succeed(call)
  PROVE  IInv'
<1>1. PICK c : c = OnSuccess(circuit)
  OBVIOUS
<1>2. Sound(c) /\ c.inFlight \in {0, circuit.inFlight}
  BY <1>1, SoundCircuit, SuccessIsSound DEF IInv
<1>3. QED
  BY <1>1, <1>2, SettleStep DEF Succeed

\* ... and so does a failure.
LEMMA FailStep ==
  ASSUME IInv, NEW call \in Call, Fail(call)
  PROVE  IInv'
<1>1. PICK c : c = OnFailure(circuit)
  OBVIOUS
<1>2. Sound(c) /\ c.inFlight \in {0, circuit.inFlight}
  BY <1>1, SoundCircuit, FailureIsSound DEF IInv
<1>3. QED
  BY <1>1, <1>2, SettleStep DEF Fail

\* An override moves the circuit to the state it stands for, or leaves it.
LEMMA SetOverrideStep ==
  ASSUME IInv, NEW mode \in {"AUTO", "FORCE_OPEN", "FORCE_CLOSED"}, SetOverride(mode)
  PROVE  IInv'
<1>1. PICK c : c = [circuit EXCEPT !.override = mode]
  OBVIOUS
<1>2. /\ circuit' = CASE mode = "FORCE_CLOSED" -> Transition(c, "CLOSED")
                      [] mode = "FORCE_OPEN" -> Transition(c, "OPEN")
                      [] mode = "AUTO" -> c
      /\ calls' = Relabel(calls, circuit')
  BY <1>1 DEF SetOverride
<1>3. Sound(circuit) /\ calls \in [Call -> {"idle", "plain", "probe"}]
  BY SoundCircuit DEF IInv
<1>4. /\ c \in CircuitRuntime /\ c.override = mode
      /\ c.state = circuit.state /\ c.failures = circuit.failures
      /\ c.successes = circuit.successes /\ c.allowed = circuit.allowed
      /\ c.inFlight = circuit.inFlight /\ c.openedAge = circuit.openedAge
  BY <1>1, <1>3 DEF Sound, CircuitRuntime
<1>5. calls' \in [Call -> {"idle", "plain", "probe"}]
  BY <1>2, <1>3, RelabelTypes
<1>6. CASE mode = "FORCE_CLOSED"
  <2>1. circuit' = Transition(c, "CLOSED")
    BY <1>2, <1>6
  <2>2. CASE c.state = "CLOSED"
    <3>1. circuit' = c
      BY <2>1, <2>2 DEF Transition
    <3>2. Sound(circuit') /\ circuit'.state # "HALF_OPEN"
      BY <1>3, <1>4, <1>6, <2>2, <3>1 DEF Sound
    <3>3. QED
      BY <1>5, <3>2, NoSlotsAtRest DEF Sound, IInv, TypeOK, FieldsAgree
  <2>3. CASE c.state # "CLOSED"
    <3>1. Sound(circuit') /\ circuit'.state # "HALF_OPEN"
      BY <1>4, <1>6, <2>1, <2>3, CloseIsSound
    <3>2. QED
      BY <1>5, <3>1, NoSlotsAtRest DEF Sound, IInv, TypeOK, FieldsAgree
  <2>4. QED
    BY <2>2, <2>3
<1>7. CASE mode = "FORCE_OPEN"
  <2>1. circuit' = Transition(c, "OPEN")
    BY <1>2, <1>7
  <2>2. CASE c.state = "OPEN"
    <3>1. circuit' = c
      BY <2>1, <2>2 DEF Transition
    <3>2. Sound(circuit') /\ circuit'.state # "HALF_OPEN"
      BY <1>3, <1>4, <1>7, <2>2, <3>1 DEF Sound
    <3>3. QED
      BY <1>5, <3>2, NoSlotsAtRest DEF Sound, IInv, TypeOK, FieldsAgree
  <2>3. CASE c.state # "OPEN"
    <3>1. Sound(circuit') /\ circuit'.state # "HALF_OPEN"
      BY <1>4, <1>7, <2>1, <2>3, TripIsSound
    <3>2. QED
      BY <1>5, <3>1, NoSlotsAtRest DEF Sound, IInv, TypeOK, FieldsAgree
  <2>4. QED
    BY <2>2, <2>3
<1>8. CASE mode = "AUTO"
  <2>1. circuit' = c
    BY <1>2, <1>8
  <2>2. Sound(circuit')
    BY <1>3, <1>4, <1>8, <2>1 DEF Sound
  <2>3. SlotsAreHeld'
    <3>1. CASE c.state = "HALF_OPEN"
      <4>1. calls' = calls
        BY <1>2, <2>1, <3>1 DEF Relabel
      <4>2. Probes' = Probes
        BY <4>1 DEF Probes
      <4>3. QED
        BY <1>4, <2>1, <4>2, SlotsAfter DEF IInv, SlotsAreHeld
    <3>2. CASE c.state # "HALF_OPEN"
      BY <2>1, <2>2, <3>2, NoSlotsAtRest
    <3>3. QED
      BY <3>1, <3>2
  <2>4. QED
    BY <1>5, <2>2, <2>3 DEF Sound, IInv, TypeOK, FieldsAgree
<1>9. QED
  BY <1>6, <1>7, <1>8

\* A reset starts afresh, calls in flight or not.
LEMMA ResetStep ==
  ASSUME IInv, Reset
  PROVE  IInv'
<1>1. /\ circuit'.state = "CLOSED" /\ circuit'.override = "AUTO"
      /\ Len(circuit'.failures) = 0 /\ circuit'.successes = 0
      /\ circuit'.allowed = 1 /\ circuit'.inFlight = 0
      /\ circuit'.openedAge = NotOpened
  BY DEF Reset
<1>2. circuit' \in CircuitRuntime
  <2>1. <<>> \in Seq(Ages) /\ 1 \in 1..HalfOpenMaxCalls /\ 0 \in Nat
    BY ConfigAssumption
  <2>2. NotOpened \in {NotOpened} \cup 0..OpenTimeout
    OBVIOUS
  <2>3. QED
    BY <2>1, <2>2 DEF Reset, CircuitRuntime
<1>3. Sound(circuit')
  BY <1>1, <1>2, ConfigAssumption DEF Sound
<1>4. calls' \in [Call -> {"idle", "plain", "probe"}]
  BY RelabelTypes DEF Reset, IInv, TypeOK
<1>5. QED
  BY <1>1, <1>3, <1>4, NoSlotsAtRest DEF Sound, IInv, TypeOK, FieldsAgree

\* Time ages the failures and the opening, and forgets none of them.
LEMMA TickStep ==
  ASSUME IInv, Tick
  PROVE  IInv'
<1>1. Sound(circuit) /\ circuit \in CircuitRuntime
  BY SoundCircuit DEF IInv, Sound
<1>2. PICK f : f = [i \in DOMAIN circuit.failures |->
                     Smaller(circuit.failures[i] + 1, FailureWindow + 1)]
  OBVIOUS
<1>3. f \in Seq(Ages) /\ Len(f) = Len(circuit.failures)
  <2>1. /\ circuit.failures \in Seq(Ages) /\ Len(circuit.failures) \in Nat
        /\ DOMAIN circuit.failures = 1..Len(circuit.failures)
    BY <1>1 DEF CircuitRuntime
  <2>2. \A i \in 1..Len(circuit.failures) :
          Smaller(circuit.failures[i] + 1, FailureWindow + 1) \in Ages
    BY <2>1, ConfigAssumption DEF Ages, Smaller
  <2>3. f \in [1..Len(circuit.failures) -> Ages]
    BY <1>2, <2>1, <2>2
  <2>4. QED
    BY <2>1, <2>3
<1>4. PICK a : a = IF circuit.openedAge = NotOpened THEN circuit.openedAge
                   ELSE Smaller(circuit.openedAge + 1, OpenTimeout)
  OBVIOUS
<1>5. /\ a \in {NotOpened} \cup 0..OpenTimeout
      /\ a = NotOpened <=> circuit.openedAge = NotOpened
  BY <1>1, <1>4, ConfigAssumption DEF CircuitRuntime, Smaller, NotOpened
<1>6. circuit' = [circuit EXCEPT !.failures = f, !.openedAge = a] /\ calls' = calls
  BY <1>2, <1>4 DEF Tick
<1>7. /\ circuit' \in CircuitRuntime
      /\ circuit'.state = circuit.state /\ circuit'.override = circuit.override
      /\ circuit'.successes = circuit.successes
      /\ circuit'.allowed = circuit.allowed
      /\ circuit'.inFlight = circuit.inFlight
      /\ circuit'.failures = f /\ circuit'.openedAge = a
  BY <1>1, <1>3, <1>5, <1>6 DEF CircuitRuntime
<1>8. Sound(circuit')
  BY <1>1, <1>3, <1>5, <1>7 DEF Sound
<1>9. SlotsAreHeld'
  <2>1. Probes' = Probes
    BY <1>6 DEF Probes
  <2>2. QED
    BY <1>7, <2>1, SlotsAfter DEF IInv, SlotsAreHeld
<1>10. QED
  BY <1>6, <1>8, <1>9 DEF Sound, IInv, TypeOK, FieldsAgree

\* A stuttering step keeps everything.
LEMMA StutterStep ==
  ASSUME IInv, UNCHANGED vars
  PROVE  IInv'
<1>1. circuit' = circuit /\ calls' = calls
  BY DEF vars
<1>2. Probes' = Probes
  BY <1>1 DEF Probes
<1>3. QED
  BY <1>1, <1>2, SlotsAfter DEF IInv, TypeOK, FieldsAgree, SlotsAreHeld

\* The invariant is inductive.
LEMMA NextIInv == IInv /\ [Next]_vars => IInv'
BY AdmitFreelyStep, AdmitProbeStep, SucceedStep, FailStep, SetOverrideStep,
   ResetStep, TickStep, StutterStep DEF Next, Admit, Operate

-----------------------------------------------------------------------------
\* Only the step that settles a call makes it idle, and an open circuit does
\* not notice it.
LEMMA LateStep ==
  ASSUME IInv, [Next]_vars, NEW call \in Call,
         calls[call] # "idle", calls'[call] = "idle", circuit.state = "OPEN"
  PROVE  circuit'.state = "OPEN" /\ circuit'.openedAge = circuit.openedAge
<1>1. calls \in [Call -> {"idle", "plain", "probe"}] /\ Sound(circuit)
  BY SoundCircuit DEF IInv
<1>2. ASSUME NEW x \in Call, Succeed(x)
      PROVE  circuit'.state = "OPEN" /\ circuit'.openedAge = circuit.openedAge
  <2>1. PICK c : c = OnSuccess(circuit)
    OBVIOUS
  <2>2. Sound(c) /\ c.state = "OPEN" /\ c.openedAge = circuit.openedAge
    BY <1>1, <2>1, SuccessIsSound
  <2>3. QED
    BY <1>2, <2>1, <2>2, ReleaseIsSound DEF Succeed
<1>3. ASSUME NEW x \in Call, Fail(x)
      PROVE  circuit'.state = "OPEN" /\ circuit'.openedAge = circuit.openedAge
  <2>1. OnFailure(circuit) = circuit
    BY <1>1, FailureIsSound
  <2>2. QED
    BY <1>1, <1>3, <2>1, ReleaseIsSound DEF Fail
<1>4. ASSUME NEW x \in Call, Admit(x)
      PROVE  FALSE
  <2>1. PICK l \in {"plain", "probe"} : calls' = [calls EXCEPT ![x] = l]
    BY <1>4 DEF Admit, AdmitFreely, AdmitProbe
  <2>2. calls'[call] = l \/ calls'[call] = calls[call]
    BY <1>1, <2>1
  <2>3. QED
    BY <2>2
<1>5. CASE Operate
  <2>1. calls' = Relabel(calls, circuit')
    BY <1>5 DEF Operate, Reset, SetOverride
  <2>2. QED
    BY <1>1, <2>1, RelabelTypes
<1>6. CASE Tick \/ UNCHANGED vars
  BY <1>6 DEF Tick, vars
<1>7. QED
  BY <1>2, <1>3, <1>4, <1>5, <1>6 DEF Next

-----------------------------------------------------------------------------
\* The circuit's record and the calls keep their types.
THEOREM TypeCorrect == Spec => []TypeOK
<1>1. IInv => TypeOK
  BY DEF IInv
<1>2. QED
  BY InitIInv, NextIInv, <1>1, PTL DEF Spec

\* The fields of the record never contradict each other, however late results,
\* overrides and resets interleave.
THEOREM FieldsConsistent == Spec => []FieldsAgree
<1>1. IInv => FieldsAgree
  BY DEF IInv
<1>2. QED
  BY InitIInv, NextIInv, <1>1, PTL DEF Spec

\* No half-open slot leaks.
THEOREM NoSlotLeaks == Spec => []SlotsAreHeld
<1>1. IInv => SlotsAreHeld
  BY DEF IInv
<1>2. QED
  BY InitIInv, NextIInv, <1>1, PTL DEF Spec

\* An open circuit does not notice the results of calls admitted before.
THEOREM LateResultsIgnored == Spec => LateResultsLeaveOpenAlone
<1>1. IInv /\ [Next]_vars =>
        [\A call \in Call :
           calls[call] # "idle" /\ calls'[call] = "idle" /\ circuit.state = "OPEN" =>
             /\ circuit'.state = "OPEN"
             /\ circuit'.openedAge = circuit.openedAge]_vars
  BY LateStep
<1>2. QED
  BY InitIInv, NextIInv, <1>1, PTL DEF Spec, LateResultsLeaveOpenAlone
-----------------------------------------------------------------------------
(* What the recovery of a circuit (Recovers) rests on, beside the fairness. *)

\* A circuit that nobody overrides and that awaits no probe admits the next call,
\* or will when its timeout is over.
NotWedged ==
  circuit.override = "AUTO" /\ Probes = {} =>
    \/ circuit.state = "CLOSED"
    \/ circuit.state = "OPEN" /\ circuit.openedAge < OpenTimeout
    \/ MayProbe(Transition(circuit, "HALF_OPEN"))

\* The half-open slots never run out for good: however probes, late calls, overrides
\* and resets interleaved, when the last probe has settled there is room for another.
THEOREM NeverWedged == Spec => []NotWedged
<1>1. ASSUME IInv PROVE NotWedged
  <2> SUFFICES ASSUME circuit.override = "AUTO", Probes = {},
                      circuit.state # "CLOSED",
                      ~(circuit.state = "OPEN" /\ circuit.openedAge < OpenTimeout)
               PROVE  MayProbe(Transition(circuit, "HALF_OPEN"))
    BY DEF NotWedged
  <2>1. Sound(circuit) /\ circuit.state \in {"OPEN", "HALF_OPEN"}
    BY <1>1, SoundCircuit DEF IInv, Sound, CircuitRuntime
  <2>2. circuit.inFlight = 0
    <3>1. circuit.inFlight <= 0
      BY <1>1, FS_EmptySet DEF IInv, SlotsAreHeld
    <3>2. circuit.inFlight \in Nat
      BY <2>1 DEF Sound, CircuitRuntime
    <3>3. QED
      BY <3>1, <3>2
  <2>3. PICK c : c = Transition(circuit, "HALF_OPEN")
    OBVIOUS
  <2>4. Sound(c) /\ c.inFlight = 0
    BY <2>1, <2>2, <2>3, HalfOpenIsSound
  <2>5. c.allowed \in Nat /\ c.allowed > 0
    BY <2>4, ConfigAssumption DEF Sound, CircuitRuntime
  <2>6. QED
    BY <2>3, <2>4, <2>5 DEF MayProbe
<1>2. IInv => NotWedged
  BY <1>1
<1>3. QED
  BY InitIInv, NextIInv, <1>2, PTL DEF Spec

\* A success counts towards the end of the half-open period.
LEMMA SuccessAdvances ==
  ASSUME NEW c, Sound(c), c.state = "HALF_OPEN"
  PROVE  LET d == Release(OnSuccess(c)) IN
           \/ d.state = "CLOSED"
           \/ d.state = "HALF_OPEN" /\ d.successes = c.successes + 1
<1> DEFINE won == [Trim(c) EXCEPT !.successes = @ + 1, !.allowed = Widen(@)]
<1>1. /\ Trim(c) \in CircuitRuntime /\ Trim(c).state = "HALF_OPEN"
      /\ Trim(c).override = "AUTO" /\ Trim(c).successes = c.successes
  BY TrimIsSound DEF Sound
<1>2. /\ won \in CircuitRuntime /\ won.state = "HALF_OPEN"
      /\ won.override = "AUTO" /\ won.successes = c.successes + 1
  BY <1>1, ProbeCounts
<1>3. OnSuccess(c) = IF won.successes >= HalfOpenSuccessThreshold
                     THEN Transition(won, "CLOSED") ELSE won
  BY DEF OnSuccess, CountSuccess
<1> HIDE DEF won
<1>4. \/ OnSuccess(c).state = "CLOSED"
      \/ OnSuccess(c) = won
  BY <1>2, <1>3, CloseIsSound
<1>5. Release(OnSuccess(c)).state = OnSuccess(c).state
  BY SuccessIsSound, ReleaseIsSound
<1>6. Release(won).successes = won.successes
  BY <1>2 DEF Release, CircuitRuntime
<1>7. QED
  BY <1>2, <1>4, <1>5, <1>6

\* Every success during a half-open period advances it, and only a failure or an
\* operator sets it back.
ProbesAdvance ==
  [][circuit.state = "HALF_OPEN" =>
       /\ \A call \in Call : Succeed(call) =>
            \/ circuit'.state = "CLOSED"
            \/ /\ circuit'.state = "HALF_OPEN"
               /\ circuit'.successes = circuit.successes + 1
       /\ \/ Operate
          \/ \E call \in Call : Fail(call)
          \/ circuit'.state = "CLOSED"
          \/ /\ circuit'.state = "HALF_OPEN"
             /\ circuit'.successes >= circuit.successes]_vars

\* The successes of a half-open period are its progress measure: with NeverWedged,
\* and a threshold they reach, this is why a circuit that is left alone closes.
THEOREM SuccessesAdvance == Spec => ProbesAdvance
<1>1. ASSUME IInv, [Next]_vars, circuit.state = "HALF_OPEN"
      PROVE  /\ \A call \in Call : Succeed(call) =>
                  \/ circuit'.state = "CLOSED"
                  \/ /\ circuit'.state = "HALF_OPEN"
                     /\ circuit'.successes = circuit.successes + 1
             /\ \/ Operate
                \/ \E call \in Call : Fail(call)
                \/ circuit'.state = "CLOSED"
                \/ /\ circuit'.state = "HALF_OPEN"
                   /\ circuit'.successes >= circuit.successes
  <2>1. Sound(circuit) /\ circuit \in CircuitRuntime /\ circuit.successes \in Nat
    BY <1>1, SoundCircuit DEF IInv, Sound, CircuitRuntime
  <2>2. ASSUME NEW call \in Call, Succeed(call)
        PROVE  \/ circuit'.state = "CLOSED"
               \/ /\ circuit'.state = "HALF_OPEN"
                  /\ circuit'.successes = circuit.successes + 1
    BY <1>1, <2>1, <2>2, SuccessAdvances DEF Succeed
  <2>3. ASSUME NEW call \in Call, Admit(call)
        PROVE  circuit'.state = "HALF_OPEN" /\ circuit'.successes = circuit.successes
    <3>1. Transition(circuit, "HALF_OPEN") = circuit
      BY <1>1 DEF Transition
    <3>2. circuit' = circuit \/ circuit' = [circuit EXCEPT !.inFlight = @ + 1]
      BY <2>3, <3>1 DEF Admit, AdmitFreely, AdmitProbe
    <3>3. QED
      BY <1>1, <2>1, <3>2 DEF CircuitRuntime
  <2>4. ASSUME Tick
        PROVE  circuit'.state = "HALF_OPEN" /\ circuit'.successes = circuit.successes
    BY <1>1, <2>1, <2>4 DEF Tick, CircuitRuntime
  <2>5. CASE UNCHANGED vars
    BY <1>1, <2>1, <2>2, <2>5 DEF vars
  <2>6. CASE \E call \in Call : Succeed(call)
    BY <2>1, <2>2, <2>6
  <2>7. CASE Tick \/ \E call \in Call : Admit(call)
    BY <2>1, <2>2, <2>3, <2>4, <2>7
  <2>8. QED
    BY <1>1, <2>2, <2>5, <2>6, <2>7 DEF Next
<1>2. IInv /\ [Next]_vars =>
        [circuit.state = "HALF_OPEN" =>
           /\ \A call \in Call : Succeed(call) =>
                \/ circuit'.state = "CLOSED"
                \/ /\ circuit'.state = "HALF_OPEN"
                   /\ circuit'.successes = circuit.successes + 1
           /\ \/ Operate
              \/ \E call \in Call : Fail(call)
              \/ circuit'.state = "CLOSED"
              \/ /\ circuit'.state = "HALF_OPEN"
                 /\ circuit'.successes >= circuit.successes]_vars
  BY <1>1
<1>3. QED
  BY InitIInv, NextIInv, <1>2, PTL DEF Spec, ProbesAdvance
=============================================================================
