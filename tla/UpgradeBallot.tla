---------------------------- MODULE UpgradeBallot ----------------------------
(***************************************************************************)
(* What upgrade governance promises (UPGRADEABILITY.md, sections 2.1-2.3): *)
(* an upgrade is enacted only while its ballot is open, with a quorum of   *)
(* distinct votes, and not before its timelock. How votes are counted, who *)
(* may cast one and how storage is laid out is left to the implementation. *)
(***************************************************************************)
EXTENDS Integers, FiniteSets

CONSTANTS Voter, Ballot

VARIABLES outcome, votes, quorum, notBefore, clock

vars == <<outcome, votes, quorum, notBefore, clock>>

Init ==
  /\ outcome = [b \in Ballot |-> "absent"]
  /\ votes = [b \in Ballot |-> {}]
  /\ quorum = [b \in Ballot |-> 0]
  /\ notBefore = [b \in Ballot |-> 0]
  /\ clock = 0

\* A ballot opens with no votes, a quorum of at least one and a timelock that
\* is not already in the past.
Open(b) ==
  /\ outcome[b] = "absent"
  /\ outcome' = [outcome EXCEPT ![b] = "open"]
  /\ quorum'[b] \in Nat \ {0}
  /\ quorum' = [quorum EXCEPT ![b] = quorum'[b]]
  /\ notBefore'[b] \in Nat
  /\ notBefore'[b] >= clock
  /\ notBefore' = [notBefore EXCEPT ![b] = notBefore'[b]]
  /\ UNCHANGED <<votes, clock>>

\* A voter votes, once; no vote is taken beyond the quorum.
Vote(b, v) ==
  /\ outcome[b] = "open"
  /\ v \notin votes[b]
  /\ Cardinality(votes[b]) < quorum[b]
  /\ votes' = [votes EXCEPT ![b] = @ \cup {v}]
  /\ UNCHANGED <<outcome, quorum, notBefore, clock>>

Enact(b) ==
  /\ outcome[b] = "open"
  /\ Cardinality(votes[b]) >= quorum[b]
  /\ clock >= notBefore[b]
  /\ outcome' = [outcome EXCEPT ![b] = "enacted"]
  /\ UNCHANGED <<votes, quorum, notBefore, clock>>

Kill(b) ==
  /\ outcome[b] = "open"
  /\ outcome' = [outcome EXCEPT ![b] = "dead"]
  /\ UNCHANGED <<votes, quorum, notBefore, clock>>

Advance ==
  /\ clock' \in Nat
  /\ clock' > clock
  /\ UNCHANGED <<outcome, votes, quorum, notBefore>>

Next ==
  \/ \E b \in Ballot : Open(b) \/ Enact(b) \/ Kill(b)
  \/ \E b \in Ballot, v \in Voter : Vote(b, v)
  \/ Advance

Spec == Init /\ [][Next]_vars
=============================================================================
