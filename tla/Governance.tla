----------------------------- MODULE Governance -----------------------------
(***************************************************************************)
(* On-chain upgrade governance: GovernanceManager (shared/src/governance.rs)*)
(* as the trading contract exposes it (contracts/trading/src/lib.rs; the   *)
(* messaging contract has the same entry points).                          *)
(*                                                                         *)
(* Each action is one successful contract call. `now' is the ledger's      *)
(* timestamp, the same for every call of one ledger and never decreasing.  *)
(***************************************************************************)
EXTENDS Soroban, FiniteSets

CONSTANTS
  Address,        \* the accounts that may call the contract
  ApproverLists,  \* the Vec<Address> arguments considered: duplicates allowed
  MaxProposals,   \* bound on prop_cnt
  MaxDelay,       \* bound on timelock_delay
  MaxTime         \* bound on the ledger's timestamp

ASSUME AddressAssumption == IsFiniteSet(Address)
ASSUME ListsAssumption == ApproverLists \subseteq Seq(Address)
ASSUME BoundsAssumption ==
  /\ MaxProposals \in Nat
  /\ MaxDelay \in Nat
  /\ MaxTime \in Nat

VARIABLES
  initialized,  \* storage "init"
  roles,        \* storage "roles": Map<Address, GovernanceRole>
  props,        \* storage "props": Map<u64, UpgradeProposal>
  propCnt,      \* storage "prop_cnt"
  approvals,    \* storage "apprv": the keys of Map<(u64, Address), bool>
  now           \* env.ledger().timestamp()

vars == <<initialized, roles, props, propCnt, approvals, now>>

-----------------------------------------------------------------------------
\* GovernanceRole, ordered as the derived PartialOrd orders it: a smaller role
\* is a more powerful one.
Admin == 0
Approver == 1
Executor == 2

Status == {"Pending", "Approved", "Rejected", "Executed", "Cancelled"}

Proposal ==
  [ proposer           : Address,
    approval_threshold : Nat,
    approvers          : Seq(Address),
    approvals_count    : Nat,
    status             : Status,
    execution_time     : Nat,
    executed           : BOOLEAN ]

\* require_role: an address with no entry counts as an Executor, the weakest
\* role, so HasRole(a, Executor) holds of every address.
HasRole(a, required) == MapGet(roles, a, Executor) <= required

\* The roles init writes, in its order: admin, then approvers, then executor,
\* each overwriting what was there.
InitialRoles(admin, approvers, executor) ==
  [a \in {admin, executor} \cup Elements(approvers) |->
     IF a = executor THEN Executor
     ELSE IF a \in Elements(approvers) THEN Approver
     ELSE Admin]

\* The addresses recorded as having approved proposal id.
ApprovalsOf(id) == {a \in Address : <<id, a>> \in approvals}

-----------------------------------------------------------------------------
\* The checks and small steps of the calls. The definitions named *_Bug are
\* plausible mistakes in the one that follows them; nothing uses them but the
\* mutation runs.

\* The key under which propose_upgrade stores a proposal.
NextId_Bug0 == propCnt
NextId_Bug1 == 1
NextId == propCnt + 1

\* approve_proposal's checks on the proposal: still pending, the caller on its
\* list, and no approval of the caller on record.
MayApprove_Bug(id, approver) ==
  /\ props[id].status = "Pending"
  /\ approver \in Elements(props[id].approvers)
MayApprove(id, approver) ==
  /\ props[id].status = "Pending"
  /\ approver \in Elements(props[id].approvers)
  /\ <<id, approver>> \notin approvals

\* Is `count' approvals enough?
ReachesThreshold_Bug(id, count) == count > props[id].approval_threshold
ReachesThreshold(id, count) == count >= props[id].approval_threshold

TimelockExpired_Bug(id) == TRUE
TimelockExpired(id) == now >= props[id].execution_time

\* cancel_proposal looks at the executed flag, not at the status.
MayCancel_Bug(id) == TRUE
MayCancel(id) == ~props[id].executed

-----------------------------------------------------------------------------
Init ==
  /\ initialized = FALSE
  /\ roles = EmptyMap
  /\ props = EmptyMap
  /\ propCnt = 0
  /\ approvals = {}
  /\ now = 0

\* init: nobody is asked to authorise it; the first call wins.
Initialize(admin, approvers, executor) ==
  /\ ~initialized
  /\ initialized' = TRUE
  /\ roles' = InitialRoles(admin, approvers, executor)
  /\ UNCHANGED <<props, propCnt, approvals, now>>

\* propose_upgrade: the threshold is compared with the LENGTH of the list, so
\* a repeated address counts twice; the timelock runs from the proposal.
ProposeUpgrade(proposer, threshold, approvers, delay) ==
  /\ initialized
  /\ HasRole(proposer, Admin)
  /\ threshold # 0
  /\ threshold <= Len(approvers)
  /\ propCnt < MaxProposals
  /\ props' = MapSet(props, NextId,
       [ proposer           |-> proposer,
         approval_threshold |-> threshold,
         approvers          |-> approvers,
         approvals_count    |-> 0,
         status             |-> "Pending",
         execution_time     |-> now + delay,
         executed           |-> FALSE ])
  /\ propCnt' = propCnt + 1
  /\ UNCHANGED <<initialized, roles, approvals, now>>

\* approve_proposal: the approval that reaches the threshold also moves the
\* proposal to Approved, in the same call.
ApproveProposal(id, approver) ==
  /\ initialized
  /\ HasRole(approver, Approver)
  /\ id \in DOMAIN props
  /\ MayApprove(id, approver)
  /\ approvals' = approvals \cup {<<id, approver>>}
  /\ LET count == props[id].approvals_count + 1
     IN  props' = [props EXCEPT
           ![id].approvals_count = count,
           ![id].status = IF ReachesThreshold(id, count) THEN "Approved" ELSE @]
  /\ UNCHANGED <<initialized, roles, propCnt, now>>

\* execute_proposal: only the proposal's record changes; no code is swapped.
ExecuteProposal(id, executor) ==
  /\ initialized
  /\ HasRole(executor, Executor)
  /\ id \in DOMAIN props
  /\ props[id].status = "Approved"
  /\ TimelockExpired(id)
  /\ props' = [props EXCEPT ![id].executed = TRUE, ![id].status = "Executed"]
  /\ UNCHANGED <<initialized, roles, propCnt, approvals, now>>

\* reject_proposal: one veto by any holder of the approver role, listed in the
\* proposal or not.
RejectProposal(id, rejector) ==
  /\ initialized
  /\ HasRole(rejector, Approver)
  /\ id \in DOMAIN props
  /\ props[id].status = "Pending"
  /\ props' = [props EXCEPT ![id].status = "Rejected"]
  /\ UNCHANGED <<initialized, roles, propCnt, approvals, now>>

\* cancel_proposal: an admin kills any proposal that was not executed.
CancelProposal(id, admin) ==
  /\ initialized
  /\ HasRole(admin, Admin)
  /\ id \in DOMAIN props
  /\ MayCancel(id)
  /\ props' = [props EXCEPT ![id].status = "Cancelled"]
  /\ UNCHANGED <<initialized, roles, propCnt, approvals, now>>

\* A later ledger closes.
Tick ==
  /\ now < MaxTime
  /\ now' = now + 1
  /\ UNCHANGED <<initialized, roles, props, propCnt, approvals>>

Next ==
  \/ \E admin, executor \in Address, approvers \in ApproverLists :
       Initialize(admin, approvers, executor)
  \/ \E proposer \in Address, approvers \in ApproverLists, delay \in 0..MaxDelay :
       \E threshold \in 0..Len(approvers) + 1 :
         ProposeUpgrade(proposer, threshold, approvers, delay)
  \/ \E id \in 1..MaxProposals, caller \in Address :
       \/ ApproveProposal(id, caller)
       \/ ExecuteProposal(id, caller)
       \/ RejectProposal(id, caller)
       \/ CancelProposal(id, caller)
  \/ Tick

Spec == Init /\ [][Next]_vars

-----------------------------------------------------------------------------
\* The types of the stored values; the proposals are numbered 1..prop_cnt
\* without a gap, as propose_upgrade hands out the ids.
TypeOK ==
  /\ initialized \in BOOLEAN
  /\ DOMAIN roles \subseteq Address
  /\ \A a \in DOMAIN roles : roles[a] \in {Admin, Approver, Executor}
  /\ propCnt \in 0..MaxProposals
  /\ props \in [1..propCnt -> Proposal]
  /\ approvals \subseteq (1..propCnt) \X Address
  /\ now \in 0..MaxTime

\* The stored count is the number of DISTINCT addresses on record as having
\* approved, and each of them is both on the proposal's own list and a holder
\* of the approver role: approve_proposal's count and its approvals map, two
\* pieces of storage written separately, never drift apart.
ApprovalEvidence ==
  \A id \in DOMAIN props :
    /\ props[id].approvals_count = Cardinality(ApprovalsOf(id))
    /\ \A a \in ApprovalsOf(id) :
         /\ a \in Elements(props[id].approvers)
         /\ HasRole(a, Approver)

\* M of N: a proposal that was ever cleared for execution has the approvals of
\* a threshold of distinct addresses, and one still pending has fewer, so the
\* approval that reaches the threshold is never missed. The executed flag that
\* cancel_proposal trusts agrees with the status.
ThresholdDecides ==
  \A id \in DOMAIN props :
    LET p == props[id] n == Cardinality(ApprovalsOf(id)) IN
      /\ p.approval_threshold \in 1..Len(p.approvers)
      /\ p.status = "Pending" => n < p.approval_threshold
      /\ p.status \in {"Approved", "Executed"} => n >= p.approval_threshold
      /\ p.executed <=> p.status = "Executed"

\* A veto is final: no sequence of calls brings a rejected or cancelled
\* proposal back, and none undoes an execution (reject_proposal and
\* cancel_proposal racing approve_proposal and execute_proposal).
DecisionsAreFinal ==
  [][\A id \in DOMAIN props :
       /\ props[id].status \in {"Rejected", "Cancelled"}
            => props'[id].status \in {"Rejected", "Cancelled"}
       /\ props[id].status = "Executed" => props'[id] = props[id]]_vars

\* What the approvers signed is what is executed: the list, the threshold and
\* the timelock of a proposal never change after approvals were given for it,
\* and an approval once recorded is never lost.
TermsAreFixed ==
  [][/\ approvals \subseteq approvals'
     /\ \A id \in DOMAIN props :
          /\ id \in DOMAIN props'
          /\ props'[id].approval_threshold = props[id].approval_threshold
          /\ props'[id].approvers = props[id].approvers
          /\ props'[id].execution_time = props[id].execution_time]_vars

-----------------------------------------------------------------------------
\* UPGRADEABILITY.md: "No single actor can execute an upgrade". An executed
\* upgrade has the approval of somebody other than its proposer.
NoSingleActor ==
  \A id \in DOMAIN props :
    props[id].status = "Executed" =>
      \E a \in ApprovalsOf(id) : a # props[id].proposer

-----------------------------------------------------------------------------
\* The promise, without roles, lists, counters and the Approved status: a
\* ballot is enacted only with its quorum of votes and after its timelock.
Ballots == 1..MaxProposals

Outcome(id) ==
  IF id \notin DOMAIN props THEN "absent"
  ELSE IF props[id].status \in {"Pending", "Approved"} THEN "open"
  ELSE IF props[id].status = "Executed" THEN "enacted"
  ELSE "dead"

Promise == INSTANCE UpgradeBallot WITH
  Voter     <- Address,
  Ballot    <- Ballots,
  outcome   <- [id \in Ballots |-> Outcome(id)],
  votes     <- [id \in Ballots |-> ApprovalsOf(id)],
  quorum    <- [id \in Ballots |-> IF id \in DOMAIN props
                                   THEN props[id].approval_threshold ELSE 0],
  notBefore <- [id \in Ballots |-> IF id \in DOMAIN props
                                   THEN props[id].execution_time ELSE 0],
  clock     <- now

\* Every behaviour of the contract is one the abstract ballot allows.
KeepsPromise == Promise!Spec
=============================================================================
