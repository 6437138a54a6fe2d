-------------------------- MODULE GovernanceProofs --------------------------
(***************************************************************************)
(* Proofs about upgrade governance, for every set of accounts, every       *)
(* approver list and every bound.                                          *)
(***************************************************************************)
EXTENDS Governance, FiniteSetTheorems, TLAPS

\* No proposal exists before init ran, so roles never change under one.
QuietBeforeInit == ~initialized => propCnt = 0

\* The inductive invariant. ThresholdDecides talks of the approvals on record,
\* approve_proposal of the count it stored: ApprovalEvidence ties the two.
IInv == TypeOK /\ QuietBeforeInit /\ ApprovalEvidence /\ ThresholdDecides

-----------------------------------------------------------------------------
\* The approvals on record for a proposal are finitely many.
LEMMA ApprovalsFinite ==
  ASSUME NEW id
  PROVE  /\ IsFiniteSet(ApprovalsOf(id))
         /\ Cardinality(ApprovalsOf(id)) \in Nat
<1>1. ApprovalsOf(id) \in SUBSET Address
  BY DEF ApprovalsOf
<1>2. IsFiniteSet(ApprovalsOf(id))
  BY <1>1, AddressAssumption, FS_Subset
<1>3. QED
  BY <1>2, FS_CardinalityType

-----------------------------------------------------------------------------
\* Init establishes the invariant.
LEMMA InitIInv == Init => IInv
<1> SUFFICES ASSUME Init PROVE IInv
  OBVIOUS
<1>1. DOMAIN props = {} /\ DOMAIN roles = {}
  BY DEF Init, EmptyMap
<1>2. props \in [1..propCnt -> Proposal]
  <2>1. 1..0 = {}
    OBVIOUS
  <2>2. props = [x \in 1..0 |-> props[x]]
    BY <2>1 DEF Init, EmptyMap
  <2>3. QED
    BY <1>1, <2>1, <2>2 DEF Init
<1>3. TypeOK
  <2>1. propCnt \in 0..MaxProposals /\ now \in 0..MaxTime
    BY BoundsAssumption DEF Init
  <2>2. initialized \in BOOLEAN /\ approvals \subseteq (1..propCnt) \X Address
    BY DEF Init
  <2>3. QED
    BY <1>1, <1>2, <2>1, <2>2 DEF TypeOK
<1>4. QED
  BY <1>1, <1>3 DEF Init, IInv, QuietBeforeInit, ApprovalEvidence, ThresholdDecides

\* init writes well-typed roles, and there are no proposals yet to disturb.
LEMMA InitializeStep ==
  ASSUME IInv, NEW admin \in Address, NEW executor \in Address,
         NEW approvers \in ApproverLists, Initialize(admin, approvers, executor)
  PROVE  IInv'
<1>1. Elements(approvers) \subseteq Address
  BY ListsAssumption DEF Elements
<1>2. TypeOK'
  BY <1>1 DEF IInv, TypeOK, Initialize, InitialRoles, Admin, Approver, Executor
<1>3. DOMAIN props = {} /\ props' = props
  BY DEF IInv, TypeOK, QuietBeforeInit, Initialize
<1>4. QED
  BY <1>2, <1>3
     DEF IInv, QuietBeforeInit, ApprovalEvidence, ThresholdDecides, Initialize

\* A new proposal has no approvals on record and a threshold its list can hold.
LEMMA ProposeStep ==
  ASSUME IInv, NEW proposer \in Address, NEW approvers \in ApproverLists,
         NEW delay \in 0..MaxDelay, NEW threshold \in 0..Len(approvers) + 1,
         ProposeUpgrade(proposer, threshold, approvers, delay)
  PROVE  IInv'
<1> DEFINE n == propCnt + 1
<1> DEFINE p == [ proposer           |-> proposer,
                  approval_threshold |-> threshold,
                  approvers          |-> approvers,
                  approvals_count    |-> 0,
                  status             |-> "Pending",
                  execution_time     |-> now + delay,
                  executed           |-> FALSE ]
<1>0. approvers \in Seq(Address) /\ Len(approvers) \in Nat
  BY ListsAssumption
<1>1. propCnt \in Nat /\ props' = MapSet(props, n, p) /\ propCnt' = n
  BY BoundsAssumption DEF IInv, TypeOK, ProposeUpgrade, NextId
<1>4. p \in Proposal
  BY <1>0, BoundsAssumption DEF IInv, TypeOK, Proposal, Status, ProposeUpgrade
<1>p. /\ p.approval_threshold = threshold
      /\ p.approvers = approvers
      /\ p.approvals_count = 0
      /\ p.status = "Pending"
      /\ p.executed = FALSE
  OBVIOUS
<1> HIDE DEF p
<1>m. /\ DOMAIN props' = DOMAIN props \cup {n}
      /\ props'[n] = p
      /\ \A i \in DOMAIN props : i # n => props'[i] = props[i]
  <2> HIDE DEF n
  <2>1. /\ DOMAIN MapSet(props, n, p) = DOMAIN props \cup {n}
        /\ MapSet(props, n, p)[n] = p
        /\ \A x \in DOMAIN props : x # n => MapSet(props, n, p)[x] = props[x]
    BY DEF MapSet
  <2>2. QED
    BY <1>1, <2>1
<1>2. DOMAIN props' = 1..n /\ DOMAIN props = 1..propCnt
  <2>1. DOMAIN props = 1..propCnt
    BY DEF IInv, TypeOK
  <2>2. (1..propCnt) \cup {n} = 1..n
    BY <1>1
  <2>3. QED
    BY <1>m, <2>1, <2>2
<1>3. props'[n] = p /\ \A i \in 1..propCnt : props'[i] = props[i]
  BY <1>1, <1>2, <1>m
<1>5. ApprovalsOf(n) = {}
  BY <1>1 DEF ApprovalsOf, IInv, TypeOK
<1>6. Cardinality(ApprovalsOf(n)) = 0
  BY <1>5, FS_EmptySet
<1>7. approvals' = approvals /\ roles' = roles /\ now' = now
  BY DEF ProposeUpgrade
<1>8. \A i : ApprovalsOf(i)' = ApprovalsOf(i)
  BY <1>7 DEF ApprovalsOf
<1>9. TypeOK'
  <2>1. props' \in [1..n -> Proposal]
    <3>1. props' = [i \in 1..n |-> props'[i]]
      BY <1>1, <1>2 DEF MapSet
    <3>2. \A i \in 1..n : props'[i] \in Proposal
      <4>1. \A i \in 1..propCnt : props'[i] \in Proposal
        BY <1>3 DEF IInv, TypeOK
      <4>2. QED
        BY <1>1, <1>3, <1>4, <4>1
    <3>3. QED
      BY <3>1, <3>2
  <2>2. n \in 0..MaxProposals /\ initialized' = initialized
    BY <1>1, BoundsAssumption DEF IInv, TypeOK, ProposeUpgrade
  <2>3. approvals \subseteq (1..n) \X Address
    BY <1>1 DEF IInv, TypeOK
  <2>4. QED
    BY <1>1, <1>7, <2>1, <2>2, <2>3 DEF IInv, TypeOK
<1>10. ApprovalEvidence'
  <2> SUFFICES ASSUME NEW i \in 1..n
               PROVE  /\ props'[i].approvals_count = Cardinality(ApprovalsOf(i)')
                      /\ \A b \in ApprovalsOf(i)' :
                           /\ b \in Elements(props'[i].approvers)
                           /\ HasRole(b, Approver)'
    BY <1>2 DEF ApprovalEvidence
  <2>1. CASE i = n
    BY <1>3, <1>5, <1>6, <1>8, <1>p, <2>1
  <2>2. CASE i \in 1..propCnt
    <3>1. \A b : HasRole(b, Approver)' <=> HasRole(b, Approver)
      BY <1>7 DEF HasRole, MapGet
    <3>2. QED
      BY <1>2, <1>3, <1>8, <2>2, <3>1 DEF IInv, ApprovalEvidence
  <2>3. QED
    BY <1>1, <2>1, <2>2
<1>11. ThresholdDecides'
  <2>1. threshold \in 1..Len(approvers)
    BY <1>0 DEF ProposeUpgrade
  <2> SUFFICES ASSUME NEW i \in 1..n
               PROVE  LET q == props'[i] k == Cardinality(ApprovalsOf(i)') IN
                        /\ q.approval_threshold \in 1..Len(q.approvers)
                        /\ q.status = "Pending" => k < q.approval_threshold
                        /\ q.status \in {"Approved", "Executed"}
                             => k >= q.approval_threshold
                        /\ q.executed <=> q.status = "Executed"
    BY <1>2 DEF ThresholdDecides
  <2>2. CASE i = n
    BY <1>0, <1>3, <1>6, <1>8, <1>p, <2>1, <2>2
  <2>3. CASE i \in 1..propCnt
    BY <1>2, <1>3, <1>8, <2>3 DEF IInv, ThresholdDecides
  <2>4. QED
    BY <1>1, <2>2, <2>3
<1>12. QED
  BY <1>9, <1>10, <1>11 DEF IInv, QuietBeforeInit, ProposeUpgrade

\* An approval adds one to the stored count and one address to the record.
LEMMA ApproveStep ==
  ASSUME IInv, NEW id \in 1..MaxProposals, NEW a \in Address,
         ApproveProposal(id, a)
  PROVE  IInv'
<1> DEFINE count == props[id].approvals_count + 1
<1>1. id \in 1..propCnt /\ DOMAIN props = 1..propCnt /\ props[id] \in Proposal
  BY DEF IInv, TypeOK, ApproveProposal
<1>2. props' = [props EXCEPT ![id].approvals_count = count,
                             ![id].status = IF ReachesThreshold(id, count)
                                            THEN "Approved" ELSE @]
  BY DEF ApproveProposal
<1>3. /\ DOMAIN props' = 1..propCnt
      /\ \A i \in 1..propCnt : i # id => props'[i] = props[i]
      /\ props'[id] = [props[id] EXCEPT !.approvals_count = count,
                                        !.status = IF ReachesThreshold(id, count)
                                                   THEN "Approved" ELSE @]
  BY <1>1, <1>2
<1>4. /\ props'[id].approvals_count = count
      /\ props'[id].status = IF ReachesThreshold(id, count)
                             THEN "Approved" ELSE "Pending"
      /\ props'[id].approval_threshold = props[id].approval_threshold
      /\ props'[id].approvers = props[id].approvers
      /\ props'[id].executed = props[id].executed
      /\ props'[id] \in Proposal
  <2>1. props[id].status = "Pending" /\ count \in Nat
    BY <1>1 DEF Proposal, ApproveProposal, MayApprove
  <2> HIDE DEF count
  <2>2. QED
    BY <1>1, <1>3, <2>1 DEF Proposal, Status
<1>5. ApprovalsOf(id)' = ApprovalsOf(id) \cup {a} /\ a \notin ApprovalsOf(id)
  BY DEF ApproveProposal, MayApprove, ApprovalsOf
<1>6. Cardinality(ApprovalsOf(id)') = count
  BY <1>1, <1>5, ApprovalsFinite, FS_AddElement DEF IInv, ApprovalEvidence
<1>7. \A i : i # id => ApprovalsOf(i)' = ApprovalsOf(i)
  BY DEF ApproveProposal, ApprovalsOf
<1>8. TypeOK'
  <2>1. props' \in [1..propCnt -> Proposal]
    BY <1>1, <1>2, <1>3, <1>4 DEF IInv, TypeOK
  <2>2. QED
    BY <1>1, <2>1 DEF IInv, TypeOK, ApproveProposal
<1>9. ApprovalEvidence'
  <2> SUFFICES ASSUME NEW i \in 1..propCnt
               PROVE  /\ props'[i].approvals_count = Cardinality(ApprovalsOf(i)')
                      /\ \A b \in ApprovalsOf(i)' :
                           /\ b \in Elements(props'[i].approvers)
                           /\ HasRole(b, Approver)'
    BY <1>3 DEF ApprovalEvidence
  <2>1. \A b \in Address : HasRole(b, Approver)' <=> HasRole(b, Approver)
    BY DEF ApproveProposal, HasRole, MapGet
  <2>2. CASE i = id
    <3>1. a \in Elements(props[id].approvers) /\ HasRole(a, Approver)
      BY DEF ApproveProposal, MayApprove
    <3>2. \A b \in ApprovalsOf(id) :
            b \in Address /\ b \in Elements(props[id].approvers) /\ HasRole(b, Approver)
      BY <1>1 DEF IInv, ApprovalEvidence, ApprovalsOf
    <3>3. QED
      BY <1>4, <1>5, <1>6, <2>1, <2>2, <3>1, <3>2
  <2>3. CASE i # id
    BY <1>1, <1>3, <1>7, <2>1, <2>3 DEF IInv, ApprovalEvidence, ApprovalsOf
  <2>4. QED
    BY <2>2, <2>3
<1>10. ThresholdDecides'
  <2> SUFFICES ASSUME NEW i \in 1..propCnt
               PROVE  LET p == props'[i] n == Cardinality(ApprovalsOf(i)') IN
                        /\ p.approval_threshold \in 1..Len(p.approvers)
                        /\ p.status = "Pending" => n < p.approval_threshold
                        /\ p.status \in {"Approved", "Executed"}
                             => n >= p.approval_threshold
                        /\ p.executed <=> p.status = "Executed"
    BY <1>3 DEF ThresholdDecides
  <2>1. CASE i = id
    <3>1. /\ props[id].approval_threshold \in 1..Len(props[id].approvers)
          /\ ~props[id].executed
      BY <1>1 DEF IInv, ThresholdDecides, ApproveProposal, MayApprove
    <3>2. count \in Nat /\ props[id].approval_threshold \in Nat
      BY <1>1 DEF Proposal
    <3>3. QED
      BY <1>4, <1>6, <2>1, <3>1, <3>2 DEF ReachesThreshold
  <2>2. CASE i # id
    BY <1>1, <1>3, <1>7, <2>2 DEF IInv, ThresholdDecides
  <2>3. QED
    BY <2>1, <2>2
<1>11. QED
  BY <1>8, <1>9, <1>10, <1>1 DEF IInv, QuietBeforeInit, ApproveProposal

\* A call that only moves one proposal to another status, keeping its flag in
\* step, preserves the invariant.
LEMMA StatusStep ==
  ASSUME IInv, NEW id \in DOMAIN props, NEW s \in Status, NEW e \in BOOLEAN,
         props' = [props EXCEPT ![id].executed = e, ![id].status = s],
         UNCHANGED <<initialized, roles, propCnt, approvals, now>>,
         s # "Pending",
         s \in {"Approved", "Executed"} => props[id].status = "Approved",
         e <=> s = "Executed"
  PROVE  IInv'
<1>1. id \in 1..propCnt /\ DOMAIN props = 1..propCnt /\ props[id] \in Proposal
  BY DEF IInv, TypeOK
<1>2. /\ DOMAIN props' = 1..propCnt
      /\ \A i \in 1..propCnt : i # id => props'[i] = props[i]
      /\ props'[id] = [props[id] EXCEPT !.executed = e, !.status = s]
  BY <1>1
<1>3. /\ props'[id].approvals_count = props[id].approvals_count
      /\ props'[id].approval_threshold = props[id].approval_threshold
      /\ props'[id].approvers = props[id].approvers
      /\ props'[id].executed = e
      /\ props'[id].status = s
      /\ props'[id] \in Proposal
  BY <1>1, <1>2 DEF Proposal
<1>4. \A i : ApprovalsOf(i)' = ApprovalsOf(i)
  BY DEF ApprovalsOf
<1>5. \A b : HasRole(b, Approver)' <=> HasRole(b, Approver)
  BY DEF HasRole, MapGet
<1>6. TypeOK'
  <2>1. props' \in [1..propCnt -> Proposal]
    BY <1>1, <1>2, <1>3 DEF IInv, TypeOK
  <2>2. QED
    BY <2>1 DEF IInv, TypeOK
<1>7. ApprovalEvidence'
  BY <1>1, <1>2, <1>3, <1>4, <1>5 DEF IInv, ApprovalEvidence
<1>8. ThresholdDecides'
  BY <1>1, <1>2, <1>3, <1>4 DEF IInv, ThresholdDecides
<1>9. QED
  BY <1>6, <1>7, <1>8 DEF IInv, QuietBeforeInit

\* Rejecting or cancelling leaves the executed flag as it was, down.
LEMMA FlagKept ==
  ASSUME IInv, NEW id \in DOMAIN props, NEW s, ~props[id].executed
  PROVE  [props EXCEPT ![id].status = s]
           = [props EXCEPT ![id].executed = FALSE, ![id].status = s]
<1>1. props[id] \in Proposal /\ props = [i \in DOMAIN props |-> props[i]]
  BY DEF IInv, TypeOK
<1>2. props[id].executed = FALSE
  BY <1>1 DEF Proposal
<1>3. [props[id] EXCEPT !.status = s]
        = [props[id] EXCEPT !.executed = FALSE, !.status = s]
  BY <1>1, <1>2 DEF Proposal
<1>4. QED
  BY <1>1, <1>3

-----------------------------------------------------------------------------
\* Every step of the contract keeps the invariant.
LEMMA NextIInv == IInv /\ [Next]_vars => IInv'
<1> SUFFICES ASSUME IInv, [Next]_vars PROVE IInv'
  OBVIOUS
<1>1. CASE \E admin, executor \in Address, approvers \in ApproverLists :
             Initialize(admin, approvers, executor)
  BY <1>1, InitializeStep
<1>2. CASE \E proposer \in Address, approvers \in ApproverLists, delay \in 0..MaxDelay :
             \E threshold \in 0..Len(approvers) + 1 :
               ProposeUpgrade(proposer, threshold, approvers, delay)
  BY <1>2, ProposeStep
<1>3. ASSUME NEW id \in 1..MaxProposals, NEW caller \in Address,
             ApproveProposal(id, caller)
      PROVE  IInv'
  BY <1>3, ApproveStep
<1>4. ASSUME NEW id \in 1..MaxProposals, NEW caller \in Address,
             ExecuteProposal(id, caller)
      PROVE  IInv'
  BY <1>4, StatusStep DEF ExecuteProposal, Status
<1>5. ASSUME NEW id \in 1..MaxProposals, NEW caller \in Address,
             RejectProposal(id, caller)
      PROVE  IInv'
  <2>1. props' = [props EXCEPT ![id].executed = FALSE, ![id].status = "Rejected"]
    BY <1>5, FlagKept DEF RejectProposal, IInv, ThresholdDecides
  <2>2. QED
    BY <1>5, <2>1, StatusStep DEF RejectProposal, Status
<1>6. ASSUME NEW id \in 1..MaxProposals, NEW caller \in Address,
             CancelProposal(id, caller)
      PROVE  IInv'
  <2>1. props' = [props EXCEPT ![id].executed = FALSE, ![id].status = "Cancelled"]
    BY <1>6, FlagKept DEF CancelProposal, MayCancel
  <2>2. QED
    BY <1>6, <2>1, StatusStep DEF CancelProposal, Status
<1>7. CASE Tick
  <2>1. TypeOK'
    BY <1>7, BoundsAssumption DEF IInv, TypeOK, Tick
  <2>2. \A i : ApprovalsOf(i)' = ApprovalsOf(i)
    BY <1>7 DEF Tick, ApprovalsOf
  <2>3. QED
    BY <1>7, <2>1, <2>2
       DEF Tick, IInv, QuietBeforeInit, ApprovalEvidence, ThresholdDecides,
           HasRole, MapGet
<1>8. CASE UNCHANGED vars
  <2>1. \A i : ApprovalsOf(i)' = ApprovalsOf(i)
    BY <1>8 DEF vars, ApprovalsOf
  <2>2. QED
    BY <1>8, <2>1
       DEF vars, IInv, TypeOK, QuietBeforeInit, ApprovalEvidence,
           ThresholdDecides, HasRole, MapGet
<1>9. QED
  BY <1>1, <1>2, <1>3, <1>4, <1>5, <1>6, <1>7, <1>8 DEF Next

\* The stored values always have their types, and proposals are numbered
\* without a gap (propose_upgrade's counter and its map agree).
THEOREM TypeCorrect == Spec => []TypeOK
<1>1. Spec => []IInv
  BY InitIInv, NextIInv, PTL DEF Spec
<1>2. IInv => TypeOK
  BY DEF IInv
<1>3. QED
  BY <1>1, <1>2, PTL

\* approve_proposal's count is the number of distinct recorded approvers, all
\* of them listed and holding the role.
THEOREM EvidenceHolds == Spec => []ApprovalEvidence
<1>1. Spec => []IInv
  BY InitIInv, NextIInv, PTL DEF Spec
<1>2. IInv => ApprovalEvidence
  BY DEF IInv
<1>3. QED
  BY <1>1, <1>2, PTL

\* M of N: no proposal is approved or executed without a threshold of distinct
\* recorded approvals, and none that has them stays pending.
THEOREM ThresholdHolds == Spec => []ThresholdDecides
<1>1. Spec => []IInv
  BY InitIInv, NextIInv, PTL DEF Spec
<1>2. IInv => ThresholdDecides
  BY DEF IInv
<1>3. QED
  BY <1>1, <1>2, PTL

-----------------------------------------------------------------------------
\* An upgrade with a threshold of two is executed on more than its proposer's word.
TwoActors ==
  \A id \in DOMAIN props :
    props[id].status = "Executed" /\ props[id].approval_threshold >= 2 =>
      \E a \in ApprovalsOf(id) : a # props[id].proposer

\* "No single actor can execute an upgrade" is true of every proposal whose threshold
\* is above one: a threshold of one is the only way round it.
THEOREM NoSingleActorAboveOne == Spec => []TwoActors
<1>1. ASSUME IInv, NEW id \in DOMAIN props, props[id].status = "Executed",
             props[id].approval_threshold >= 2,
             \A a \in ApprovalsOf(id) : a = props[id].proposer
      PROVE  FALSE
  <2>1. Cardinality(ApprovalsOf(id)) >= props[id].approval_threshold
    BY <1>1 DEF IInv, ThresholdDecides
  <2>2. ApprovalsOf(id) \in SUBSET {props[id].proposer}
    BY <1>1
  <2>3. Cardinality(ApprovalsOf(id)) <= Cardinality({props[id].proposer})
    BY <2>2, FS_Singleton, FS_Subset
  <2>4. Cardinality({props[id].proposer}) = 1
    BY FS_Singleton
  <2>5. props[id].approval_threshold \in Nat
    BY <1>1 DEF IInv, TypeOK, Proposal
  <2>6. QED
    BY <1>1, <2>1, <2>3, <2>4, <2>5, ApprovalsFinite
<1>2. IInv => TwoActors
  BY <1>1 DEF TwoActors
<1>3. QED
  BY InitIInv, NextIInv, <1>2, PTL DEF Spec

\* Those on a proposal's list who may approve it, each of them once.
Eligible(id) == {a \in Elements(props[id].approvers) : HasRole(a, Approver)}

\* A proposal that asks for more approvals than it has eligible approvers.
OutOfReach ==
  \A id \in DOMAIN props :
    Cardinality(Eligible(id)) < props[id].approval_threshold =>
      props[id].status \in {"Pending", "Rejected", "Cancelled"}

\* propose_upgrade compares the threshold with the LENGTH of the list and looks at
\* nobody's role, so it accepts lists with repetitions and with addresses that may not
\* approve. Such a proposal never passes: repetitions do not lower the bar.
THEOREM RepetitionsDoNotHelp == Spec => []OutOfReach
<1>1. ASSUME IInv, NEW id \in DOMAIN props,
             Cardinality(Eligible(id)) < props[id].approval_threshold
      PROVE  props[id].status \in {"Pending", "Rejected", "Cancelled"}
  <2>1. /\ props[id].status \in Status /\ props[id].approval_threshold \in Nat
        /\ props[id].approvers \in Seq(Address)
    BY <1>1 DEF IInv, TypeOK, Proposal
  <2>2. IsFiniteSet(Eligible(id))
    <3>1. Eligible(id) \in SUBSET Address
      BY <2>1 DEF Eligible, Elements
    <3>2. QED
      BY <3>1, AddressAssumption, FS_Subset
  <2>3. ApprovalsOf(id) \in SUBSET Eligible(id)
    BY <1>1 DEF IInv, ApprovalEvidence, Eligible
  <2>4. /\ Cardinality(ApprovalsOf(id)) <= Cardinality(Eligible(id))
        /\ Cardinality(Eligible(id)) \in Nat
    BY <2>2, <2>3, FS_Subset, FS_CardinalityType
  <2>5. Cardinality(ApprovalsOf(id)) < props[id].approval_threshold
    BY <1>1, <2>1, <2>4, ApprovalsFinite
  <2>6. QED
    BY <1>1, <2>1, <2>5, ApprovalsFinite DEF IInv, ThresholdDecides, Status
<1>2. IInv => OutOfReach
  BY <1>1 DEF OutOfReach
<1>3. QED
  BY InitIInv, NextIInv, <1>2, PTL DEF Spec

-----------------------------------------------------------------------------
\* A veto is final and an execution is never undone.
THEOREM DecisionsFinal == Spec => DecisionsAreFinal
<1>1. ASSUME IInv, [Next]_vars
      PROVE  [\A id \in DOMAIN props :
                /\ props[id].status \in {"Rejected", "Cancelled"}
                     => props'[id].status \in {"Rejected", "Cancelled"}
                /\ props[id].status = "Executed" => props'[id] = props[id]]_vars
  <2> SUFFICES ASSUME Next, NEW i \in DOMAIN props
               PROVE  /\ props[i].status \in {"Rejected", "Cancelled"}
                           => props'[i].status \in {"Rejected", "Cancelled"}
                      /\ props[i].status = "Executed" => props'[i] = props[i]
    BY <1>1
  <2>1. /\ DOMAIN props = 1..propCnt
        /\ props[i] \in Proposal
        /\ props[i].executed <=> props[i].status = "Executed"
    BY <1>1 DEF IInv, TypeOK, ThresholdDecides
  <2>2. ASSUME NEW proposer, NEW threshold, NEW approvers, NEW delay,
               ProposeUpgrade(proposer, threshold, approvers, delay)
        PROVE  props'[i] = props[i]
    BY <1>1, <2>1, <2>2, BoundsAssumption DEF ProposeUpgrade, NextId, MapSet, IInv, TypeOK
  <2>3. ASSUME NEW id, NEW caller, ApproveProposal(id, caller), props[i].status # "Pending"
        PROVE  props'[i] = props[i]
    BY <2>3 DEF ApproveProposal, MayApprove
  <2>4. ASSUME NEW id, NEW caller, ExecuteProposal(id, caller), props[i].status # "Approved"
        PROVE  props'[i] = props[i]
    BY <2>4 DEF ExecuteProposal
  <2>5. ASSUME NEW id, NEW caller, RejectProposal(id, caller), props[i].status # "Pending"
        PROVE  props'[i] = props[i]
    BY <2>5 DEF RejectProposal
  <2>6. ASSUME NEW id, NEW caller, CancelProposal(id, caller)
        PROVE  \/ props'[i] = props[i]
               \/ /\ props[i].status # "Executed"
                  /\ props'[i].status = "Cancelled"
    BY <2>1, <2>6 DEF CancelProposal, MayCancel, Proposal
  <2>7. ASSUME (\E admin, executor \in Address, approvers \in ApproverLists :
                  Initialize(admin, approvers, executor)) \/ Tick
        PROVE  props' = props
    BY <2>7 DEF Initialize, Tick
  <2>8. QED
    BY <2>2, <2>3, <2>4, <2>5, <2>6, <2>7 DEF Next
<1>2. QED
  BY <1>1, InitIInv, NextIInv, PTL DEF Spec, DecisionsAreFinal

\* Terms are fixed when a proposal is stored, and approvals are never lost.
THEOREM TermsFixed == Spec => TermsAreFixed
<1> DEFINE Fixed ==
      /\ approvals \subseteq approvals'
      /\ \A id \in DOMAIN props :
           /\ id \in DOMAIN props'
           /\ props'[id].approval_threshold = props[id].approval_threshold
           /\ props'[id].approvers = props[id].approvers
           /\ props'[id].execution_time = props[id].execution_time
<1>1. ASSUME IInv, Next PROVE Fixed
  <2>1. DOMAIN props = 1..propCnt /\ \A i \in DOMAIN props : props[i] \in Proposal
    BY <1>1 DEF IInv, TypeOK
  <2>2. ASSUME NEW proposer, NEW threshold, NEW approvers, NEW delay,
               ProposeUpgrade(proposer, threshold, approvers, delay)
        PROVE  Fixed
    BY <1>1, <2>1, <2>2, BoundsAssumption DEF ProposeUpgrade, NextId, MapSet, IInv, TypeOK
  <2>3. ASSUME NEW id, NEW caller, ApproveProposal(id, caller)
        PROVE  Fixed
    BY <2>1, <2>3 DEF ApproveProposal, Proposal
  <2>4. ASSUME NEW id, NEW caller,
               \/ ExecuteProposal(id, caller)
               \/ RejectProposal(id, caller)
               \/ CancelProposal(id, caller)
        PROVE  Fixed
    <3>1. CASE ExecuteProposal(id, caller)
      BY <2>1, <3>1 DEF ExecuteProposal, Proposal
    <3>2. CASE RejectProposal(id, caller)
      BY <2>1, <3>2 DEF RejectProposal, Proposal
    <3>3. CASE CancelProposal(id, caller)
      BY <2>1, <3>3 DEF CancelProposal, Proposal
    <3>4. QED
      BY <2>4, <3>1, <3>2, <3>3
  <2>5. ASSUME (\E admin, executor \in Address, approvers \in ApproverLists :
                  Initialize(admin, approvers, executor)) \/ Tick
        PROVE  Fixed
    BY <2>5 DEF Initialize, Tick
  <2> HIDE DEF Fixed
  <2>6. QED
    BY <1>1, <2>2, <2>3, <2>4, <2>5 DEF Next
<1>2. IInv /\ [Next]_vars => [Fixed]_vars
  BY <1>1
<1>3. QED
  BY <1>2, InitIInv, NextIInv, PTL DEF Spec, TermsAreFixed

-----------------------------------------------------------------------------
\* The contract implements the abstract ballot: it starts where the ballot
\* starts ...
LEMMA PromiseInit == Init => Promise!Init
<1> SUFFICES ASSUME Init PROVE Promise!Init
  OBVIOUS
<1>1. DOMAIN props = {}
  BY DEF Init, EmptyMap
<1>2. \A i : Outcome(i) = "absent" /\ ApprovalsOf(i) = {}
  BY <1>1 DEF Init, Outcome, ApprovalsOf
<1>3. QED
  BY <1>1, <1>2 DEF Init, Promise!Init, Ballots

\* What a step shows of the contract is unchanged when every proposal keeps its
\* outcome, its terms and its approvals, and the clock stands still.
LEMMA PromiseStutter ==
  ASSUME DOMAIN props' = DOMAIN props, now' = now,
         \A i \in Ballots : Outcome(i)' = Outcome(i) /\ ApprovalsOf(i)' = ApprovalsOf(i),
         \A i \in DOMAIN props :
           /\ props'[i].approval_threshold = props[i].approval_threshold
           /\ props'[i].execution_time = props[i].execution_time
  PROVE  UNCHANGED Promise!vars
BY DEF Promise!vars

\* ... opens a ballot when it stores a proposal ...
LEMMA ProposeOpens ==
  ASSUME IInv, NEW proposer \in Address, NEW approvers \in ApproverLists,
         NEW delay \in 0..MaxDelay, NEW threshold \in 0..Len(approvers) + 1,
         ProposeUpgrade(proposer, threshold, approvers, delay)
  PROVE  Promise!Next
<1>. PICK n \in Int : n = propCnt + 1
  BY DEF IInv, TypeOK
<1>0. Len(approvers) \in Nat
  BY ListsAssumption
<1>1. /\ n \in Ballots
      /\ n \notin DOMAIN props
      /\ DOMAIN props' = DOMAIN props \cup {n}
      /\ \A i \in DOMAIN props : props'[i] = props[i]
      /\ props'[n].status = "Pending"
      /\ props'[n].approval_threshold = threshold
      /\ props'[n].execution_time = now + delay
  BY BoundsAssumption DEF ProposeUpgrade, NextId, MapSet, Ballots, IInv, TypeOK
<1>2. now' = now /\ \A i : ApprovalsOf(i)' = ApprovalsOf(i)
  BY DEF ProposeUpgrade, ApprovalsOf
<1>3. threshold \in Nat \ {0} /\ now + delay \in Nat /\ now + delay >= now
  BY <1>0, BoundsAssumption DEF ProposeUpgrade, IInv, TypeOK
<1>4. Outcome(n) = "absent" /\ Outcome(n)' = "open"
  BY <1>1 DEF Outcome
<1>5. \A i \in Ballots : i # n => Outcome(i)' = Outcome(i)
  BY <1>1 DEF Outcome
<1>6. Promise!Open(n)
  <2> DEFINE quorum(i) == IF i \in DOMAIN props THEN props[i].approval_threshold ELSE 0
  <2> DEFINE notBefore(i) == IF i \in DOMAIN props THEN props[i].execution_time ELSE 0
  <2>1. /\ quorum(n)' \in Nat \ {0}
        /\ \A i \in Ballots : i # n => quorum(i)' = quorum(i)
    BY <1>1, <1>3
  <2>2. /\ notBefore(n)' \in Nat /\ notBefore(n)' >= now
        /\ \A i \in Ballots : i # n => notBefore(i)' = notBefore(i)
    BY <1>1, <1>3
  <2> HIDE DEF quorum, notBefore
  <2>3. QED
    BY <1>1, <1>2, <1>4, <1>5, <2>1, <2>2 DEF Promise!Open, quorum, notBefore
<1>7. QED
  BY <1>1, <1>6 DEF Promise!Next

\* The ballot counts votes with the same Cardinality.
LEMMA SameCardinality == \A S : Promise!Cardinality(S) = Cardinality(S)
BY DEF Promise!Cardinality, Cardinality

\* ... casts a vote that the quorum still lacks when it records an approval ...
LEMMA ApproveVotes ==
  ASSUME IInv, NEW id \in 1..MaxProposals, NEW a \in Address,
         ApproveProposal(id, a)
  PROVE  Promise!Next
<1>1. /\ id \in Ballots /\ id \in DOMAIN props
      /\ props[id].status = "Pending" /\ props[id] \in Proposal
  BY DEF ApproveProposal, MayApprove, Ballots, IInv, TypeOK
<1>2. /\ DOMAIN props' = DOMAIN props
      /\ \A i \in DOMAIN props :
           /\ props'[i].approval_threshold = props[i].approval_threshold
           /\ props'[i].execution_time = props[i].execution_time
           /\ i # id => props'[i] = props[i]
      /\ props'[id].status \in {"Pending", "Approved"}
  BY <1>1 DEF ApproveProposal, IInv, TypeOK, Proposal
<1>3. /\ ApprovalsOf(id)' = ApprovalsOf(id) \cup {a}
      /\ a \notin ApprovalsOf(id)
      /\ \A i : i # id => ApprovalsOf(i)' = ApprovalsOf(i)
      /\ now' = now
  BY DEF ApproveProposal, MayApprove, ApprovalsOf
<1>4. Cardinality(ApprovalsOf(id)) < props[id].approval_threshold
  BY <1>1 DEF IInv, ThresholdDecides
<1>5. Outcome(id) = "open" /\ \A i \in Ballots : Outcome(i)' = Outcome(i)
  BY <1>1, <1>2 DEF Outcome
<1>6. Promise!Vote(id, a)
  <2>1. \A i \in Ballots :
          (IF i \in DOMAIN props THEN props[i].approval_threshold ELSE 0)'
            = IF i \in DOMAIN props THEN props[i].approval_threshold ELSE 0
    BY <1>2
  <2>2. \A i \in Ballots :
          (IF i \in DOMAIN props THEN props[i].execution_time ELSE 0)'
            = IF i \in DOMAIN props THEN props[i].execution_time ELSE 0
    BY <1>2
  <2>3. [i \in Ballots |-> ApprovalsOf(i)]'
          = [[i \in Ballots |-> ApprovalsOf(i)] EXCEPT ![id] = @ \cup {a}]
    BY <1>1, <1>3
  <2>4. QED
    BY <1>1, <1>3, <1>4, <1>5, <2>1, <2>2, <2>3, SameCardinality
       DEF Promise!Vote
<1>7. QED
  BY <1>1, <1>6 DEF Promise!Next

\* ... enacts an open ballot that has its quorum and is past its timelock ...
LEMMA ExecuteEnacts ==
  ASSUME IInv, NEW id \in 1..MaxProposals, NEW a \in Address,
         ExecuteProposal(id, a)
  PROVE  Promise!Next
<1>1. /\ id \in Ballots /\ id \in DOMAIN props
      /\ props[id].status = "Approved" /\ props[id] \in Proposal
      /\ now >= props[id].execution_time
  BY DEF ExecuteProposal, TimelockExpired, Ballots, IInv, TypeOK
<1>2. /\ DOMAIN props' = DOMAIN props
      /\ \A i \in DOMAIN props :
           /\ props'[i].approval_threshold = props[i].approval_threshold
           /\ props'[i].execution_time = props[i].execution_time
           /\ i # id => props'[i] = props[i]
      /\ props'[id].status = "Executed"
  BY <1>1 DEF ExecuteProposal, IInv, TypeOK, Proposal
<1>3. now' = now /\ \A i : ApprovalsOf(i)' = ApprovalsOf(i)
  BY DEF ExecuteProposal, ApprovalsOf
<1>4. Cardinality(ApprovalsOf(id)) >= props[id].approval_threshold
  BY <1>1 DEF IInv, ThresholdDecides
<1>5. /\ Outcome(id) = "open" /\ Outcome(id)' = "enacted"
      /\ \A i \in Ballots : i # id => Outcome(i)' = Outcome(i)
  BY <1>1, <1>2 DEF Outcome
<1>6. Promise!Enact(id)
  <2>1. \A i \in Ballots :
          (IF i \in DOMAIN props THEN props[i].approval_threshold ELSE 0)'
            = IF i \in DOMAIN props THEN props[i].approval_threshold ELSE 0
    BY <1>2
  <2>2. \A i \in Ballots :
          (IF i \in DOMAIN props THEN props[i].execution_time ELSE 0)'
            = IF i \in DOMAIN props THEN props[i].execution_time ELSE 0
    BY <1>2
  <2>3. [i \in Ballots |-> Outcome(i)]'
          = [[i \in Ballots |-> Outcome(i)] EXCEPT ![id] = "enacted"]
    BY <1>1, <1>5
  <2>4. QED
    BY <1>1, <1>3, <1>4, <1>5, <2>1, <2>2, <2>3, SameCardinality
       DEF Promise!Enact
<1>7. QED
  BY <1>1, <1>6 DEF Promise!Next

\* ... and kills an open ballot, or leaves a dead one dead, on a veto.
LEMMA VetoKills ==
  ASSUME IInv, NEW id \in 1..MaxProposals, NEW a \in Address,
         RejectProposal(id, a) \/ CancelProposal(id, a)
  PROVE  Promise!Next \/ UNCHANGED Promise!vars
<1>1. /\ id \in Ballots /\ id \in DOMAIN props /\ props[id] \in Proposal
      /\ props[id].status # "Executed"
  BY DEF RejectProposal, CancelProposal, MayCancel, Ballots, IInv, TypeOK,
         ThresholdDecides
<1>2. /\ DOMAIN props' = DOMAIN props
      /\ \A i \in DOMAIN props :
           /\ props'[i].approval_threshold = props[i].approval_threshold
           /\ props'[i].execution_time = props[i].execution_time
           /\ i # id => props'[i] = props[i]
      /\ props'[id].status \in {"Rejected", "Cancelled"}
  BY <1>1 DEF RejectProposal, CancelProposal, IInv, TypeOK, Proposal
<1>3. now' = now /\ \A i : ApprovalsOf(i)' = ApprovalsOf(i)
  BY DEF RejectProposal, CancelProposal, ApprovalsOf
<1>4. /\ Outcome(id) \in {"open", "dead"} /\ Outcome(id)' = "dead"
      /\ \A i \in Ballots : i # id => Outcome(i)' = Outcome(i)
  BY <1>1, <1>2 DEF Outcome, Proposal, Status
<1>5. CASE Outcome(id) = "open"
  <2>1. Promise!Kill(id)
    BY <1>1, <1>2, <1>3, <1>4, <1>5 DEF Promise!Kill
  <2>2. QED
    BY <1>1, <2>1 DEF Promise!Next
<1>6. CASE Outcome(id) = "dead"
  BY <1>2, <1>3, <1>4, <1>6, PromiseStutter
<1>7. QED
  BY <1>4, <1>5, <1>6

\* Every step of the contract is a step of the ballot or none at all.
LEMMA PromiseStep == IInv /\ [Next]_vars => [Promise!Next]_(Promise!vars)
<1> SUFFICES ASSUME IInv, [Next]_vars
             PROVE  Promise!Next \/ UNCHANGED Promise!vars
  OBVIOUS
<1>1. ASSUME NEW admin \in Address, NEW executor \in Address,
             NEW approvers \in ApproverLists, Initialize(admin, approvers, executor)
      PROVE  UNCHANGED Promise!vars
  BY <1>1, PromiseStutter DEF Initialize, Outcome, ApprovalsOf
<1>2. CASE UNCHANGED vars
  BY <1>2, PromiseStutter DEF vars, Outcome, ApprovalsOf
<1>3. CASE Tick
  <2>1. now' \in Nat /\ now' > now
    BY <1>3, BoundsAssumption DEF Tick, IInv, TypeOK
  <2>2. \A i : Outcome(i)' = Outcome(i) /\ ApprovalsOf(i)' = ApprovalsOf(i)
    BY <1>3 DEF Tick, Outcome, ApprovalsOf
  <2>3. Promise!Advance
    BY <1>3, <2>1, <2>2 DEF Tick, Promise!Advance
  <2>4. QED
    BY <2>3 DEF Promise!Next
<1>4. QED
  BY <1>1, <1>2, <1>3, ProposeOpens, ApproveVotes, ExecuteEnacts, VetoKills DEF Next

\* Upgrade governance keeps its promise: whatever the calls and their order,
\* an upgrade is enacted only with a quorum of distinct votes, after its
\* timelock, and never after a veto.
THEOREM Refinement == Spec => KeepsPromise
BY InitIInv, NextIInv, PromiseInit, PromiseStep, PTL DEF Spec, KeepsPromise, Promise!Spec
=============================================================================
