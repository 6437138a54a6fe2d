--------------------------- MODULE CircuitBreaker ---------------------------
(***************************************************************************)
(* One circuit of the backend's CircuitBreakerService                      *)
(* (Backend/src/circuit-breaker/circuit-breaker.service.ts) and the calls  *)
(* that go through execute().                                              *)
(*                                                                         *)
(* execute() is synchronous up to `await action()' and again after it, so  *)
(* a call is two atomic steps: Admit, and Succeed or Fail. Anything may    *)
(* happen to the circuit in between; the step that settles a call looks at *)
(* the state the circuit is in THEN, not at the one that admitted it.      *)
(*                                                                         *)
(* Time is relative: the circuit holds ages, which Tick increments up to   *)
(* the largest one that matters. Request statistics are left out.          *)
(***************************************************************************)
EXTENDS Integers, Sequences, FiniteSets

CONSTANTS
  Call,                      \* the calls that may be in flight
  FailureThreshold,          \* CircuitConfig, constant per circuit: every
  FailureWindow,             \* caller configures its circuit in register()
  OpenTimeout,
  HalfOpenMaxCalls,
  HalfOpenSuccessThreshold

ASSUME CallAssumption == IsFiniteSet(Call)
\* mergeConfig clamps every setting to at least one.
ASSUME ConfigAssumption ==
  /\ FailureThreshold \in Nat \ {0}
  /\ FailureWindow \in Nat \ {0}
  /\ OpenTimeout \in Nat \ {0}
  /\ HalfOpenMaxCalls \in Nat \ {0}
  /\ HalfOpenSuccessThreshold \in Nat \ {0}

VARIABLES
  circuit,  \* the CircuitRuntime
  calls     \* where each call is: "idle", or awaiting its action, either as
            \* a "probe" of the present half-open period or as a "plain" call

vars == <<circuit, calls>>

\* openedAt is null.
NotOpened == -1

Ages == 0..FailureWindow + 1

CircuitRuntime ==
  [ state     : {"CLOSED", "OPEN", "HALF_OPEN"},
    override  : {"AUTO", "FORCE_OPEN", "FORCE_CLOSED"},
    failures  : Seq(Ages),            \* failureTimestamps, oldest first
    successes : Nat,                  \* consecutiveHalfOpenSuccesses
    allowed   : 1..HalfOpenMaxCalls,  \* halfOpenAllowedCalls
    inFlight  : Nat,                  \* halfOpenInFlight
    openedAge : {NotOpened} \cup 0..OpenTimeout ]

Smaller(a, b) == IF a < b THEN a ELSE b

Running == {c \in Call : calls[c] # "idle"}
Probes == {c \in Call : calls[c] = "probe"}

-----------------------------------------------------------------------------
\* What the service's private methods do to a circuit c.

\* The half-open counters after a transition.
AtRest_Bug(c) == [c EXCEPT !.successes = 0, !.allowed = 1]
AtRest(c) == [c EXCEPT !.successes = 0, !.allowed = 1, !.inFlight = 0]

\* transitionState
Transition(c, next) ==
  IF c.state = next THEN c
  ELSE [AtRest(c) EXCEPT
         !.state = next,
         !.failures = IF next = "CLOSED" THEN <<>> ELSE @,
         !.openedAge = CASE next = "OPEN" -> 0
                         [] next = "CLOSED" -> NotOpened
                         [] next = "HALF_OPEN" -> @]

\* trimFailures: timestamps are pushed in order, so the filter keeps a suffix.
Trim(c) ==
  LET old == Cardinality({i \in DOMAIN c.failures : c.failures[i] > FailureWindow})
  IN  [c EXCEPT !.failures = SubSeq(@, old + 1, Len(@))]

\* The half-open allowance after a success.
Widen_Bug(n) == n + 1
Widen(n) == Smaller(HalfOpenMaxCalls, n + 1)

\* onSuccess
CountSuccess(c) ==
  LET won == [Trim(c) EXCEPT !.successes = @ + 1, !.allowed = Widen(@)]
  IN  IF won.successes >= HalfOpenSuccessThreshold
      THEN Transition(won, "CLOSED") ELSE won

OnSuccess_Bug(c) == CountSuccess(c)
OnSuccess(c) == IF c.state = "HALF_OPEN" THEN CountSuccess(c) ELSE Trim(c)

\* onFailure
OnFailure(c) ==
  CASE c.state = "HALF_OPEN" -> Transition(c, "OPEN")
    [] c.state = "OPEN" -> c
    [] c.state = "CLOSED" ->
         LET pushed == Trim([c EXCEPT !.failures = Append(@, 0)])
         IN  IF Len(pushed.failures) >= FailureThreshold
             THEN Transition(pushed, "OPEN") ELSE pushed

\* The `finally' of execute: whoever settles while the circuit is half-open
\* gives a slot back, the caller that took none included.
Release_Bug(c) == c
Release(c) ==
  IF c.state = "HALF_OPEN" /\ c.inFlight > 0
  THEN [c EXCEPT !.inFlight = @ - 1] ELSE c

\* Once the half-open period ends its probes are ordinary late calls.
Relabel(cs, c) ==
  IF c.state = "HALF_OPEN" THEN cs
  ELSE [x \in Call |-> IF cs[x] = "probe" THEN "plain" ELSE cs[x]]

-----------------------------------------------------------------------------
\* getOrCreateCircuit
Init ==
  /\ circuit = [ state |-> "CLOSED", override |-> "AUTO", failures |-> <<>>,
                 successes |-> 0, allowed |-> 1, inFlight |-> 0,
                 openedAge |-> NotOpened ]
  /\ calls = [c \in Call |-> "idle"]

\* execute, while the circuit is closed or forced closed: no questions asked.
AdmitFreely(call) ==
  /\ calls[call] = "idle"
  /\ \/ circuit.override = "FORCE_CLOSED"
     \/ circuit.override = "AUTO" /\ circuit.state = "CLOSED"
  /\ calls' = [calls EXCEPT ![call] = "plain"]
  /\ UNCHANGED circuit

\* Is a half-open slot free?
MayProbe_Bug(c) == c.inFlight <= c.allowed
MayProbe(c) == c.inFlight < c.allowed

\* execute, while it is half-open or may become so. A rejected call changes
\* nothing but the statistics.
AdmitProbe(call) ==
  /\ calls[call] = "idle"
  /\ circuit.override = "AUTO"
  /\ \/ circuit.state = "OPEN" /\ circuit.openedAge >= OpenTimeout
     \/ circuit.state = "HALF_OPEN"
  /\ LET c == Transition(circuit, "HALF_OPEN") IN
       /\ MayProbe(c)
       /\ circuit' = [c EXCEPT !.inFlight = @ + 1]
  /\ calls' = [calls EXCEPT ![call] = "probe"]

\* The awaited action resolves: onSuccess, then the finally block.
Succeed(call) ==
  /\ calls[call] # "idle"
  /\ circuit' = Release(OnSuccess(circuit))
  /\ calls' = Relabel([calls EXCEPT ![call] = "idle"], circuit')

\* The awaited action rejects: onFailure, then the finally block.
Fail(call) ==
  /\ calls[call] # "idle"
  /\ circuit' = Release(OnFailure(circuit))
  /\ calls' = Relabel([calls EXCEPT ![call] = "idle"], circuit')

\* setOverride
SetOverride(mode) ==
  /\ LET c == [circuit EXCEPT !.override = mode] IN
       circuit' = CASE mode = "FORCE_CLOSED" -> Transition(c, "CLOSED")
                    [] mode = "FORCE_OPEN" -> Transition(c, "OPEN")
                    [] mode = "AUTO" -> c
  /\ calls' = Relabel(calls, circuit')

\* reset: the calls still in flight go on.
Reset ==
  /\ circuit' = [ state |-> "CLOSED", override |-> "AUTO", failures |-> <<>>,
                  successes |-> 0, allowed |-> 1, inFlight |-> 0,
                  openedAge |-> NotOpened ]
  /\ calls' = Relabel(calls, circuit')

\* Time passes.
Tick ==
  /\ circuit' = [circuit EXCEPT
       !.failures = [i \in DOMAIN @ |-> Smaller(@[i] + 1, FailureWindow + 1)],
       !.openedAge = IF @ = NotOpened THEN @ ELSE Smaller(@ + 1, OpenTimeout)]
  /\ UNCHANGED calls

Operate == Reset \/ \E mode \in {"AUTO", "FORCE_OPEN", "FORCE_CLOSED"} : SetOverride(mode)

Admit(call) == AdmitFreely(call) \/ AdmitProbe(call)

Next ==
  \/ \E call \in Call : Admit(call) \/ Succeed(call) \/ Fail(call)
  \/ Operate
  \/ Tick

\* An awaited action settles (the webhook circuit's fetch carries a timeout),
\* clients keep calling, and time passes.
Fairness ==
  /\ \A call \in Call : WF_vars(Succeed(call) \/ Fail(call))
  /\ WF_vars(\E call \in Call : Admit(call))
  /\ WF_vars(Tick)

Spec == Init /\ [][Next]_vars /\ Fairness

-----------------------------------------------------------------------------
\* The types of the CircuitRuntime and of the calls.
TypeOK ==
  /\ circuit \in CircuitRuntime
  /\ calls \in [Call -> {"idle", "plain", "probe"}]

\* What the fields say of each other, however late completions, overrides,
\* resets and probes interleave: a forced mode fixes the state it stands for
\* (a circuit forced closed may trip, but is never half-open), a closed
\* circuit is below its failure threshold, and the half-open counters are at
\* rest outside a half-open period and agree with each other inside it.
FieldsAgree ==
  LET c == circuit IN
    /\ c.override = "FORCE_OPEN" => c.state = "OPEN"
    /\ c.state = "HALF_OPEN" => c.override = "AUTO"
    /\ c.state = "CLOSED" <=> c.openedAge = NotOpened
    /\ c.state = "CLOSED" => Len(c.failures) < FailureThreshold
    /\ c.state # "HALF_OPEN" => c.successes = 0 /\ c.allowed = 1 /\ c.inFlight = 0
    /\ c.state = "HALF_OPEN" =>
         /\ c.successes < HalfOpenSuccessThreshold
         /\ c.allowed = Smaller(HalfOpenMaxCalls, 1 + c.successes)
         /\ c.inFlight <= c.allowed

\* No slot is lost: every half-open slot that is taken is taken by a probe of
\* this half-open period that is still awaiting its action, so a circuit whose
\* probes have all settled has room for another one. (The converse does not
\* hold: a call from before the period gives a slot back when it settles, so
\* more probes than `allowed' may be running.)
SlotsAreHeld == circuit.inFlight <= Cardinality(Probes)

\* The result of a late call, good or bad, does not close an open circuit, nor
\* does it restart its timeout.
LateResultsLeaveOpenAlone ==
  [][\A call \in Call :
       calls[call] # "idle" /\ calls'[call] = "idle" /\ circuit.state = "OPEN" =>
         /\ circuit'.state = "OPEN"
         /\ circuit'.openedAge = circuit.openedAge]_vars

\* The circuit recovers by itself: if the dependency stops failing and nobody
\* operates the circuit any more, it ends up closed for good, unless it was
\* left under an override. No interleaving of probes and late calls wedges it.
Recovers ==
  \/ []<><<\E call \in Call : Fail(call)>>_vars
  \/ []<><<Operate>>_vars
  \/ <>[](circuit.override # "AUTO")
  \/ <>[](circuit.state = "CLOSED")
=============================================================================
