-------------------------- MODULE MultisigTreasury --------------------------
(***************************************************************************)
(* The multi-signature treasury (Contracts/contracts/MultisigTreasury.sol):*)
(* owners submit and confirm transactions, anybody executes a confirmed    *)
(* one within the daily and weekly spending limits, any owner freezes.     *)
(*                                                                         *)
(* A call is atomic and leaves no trace when it reverts, so there is one   *)
(* action per successful call. executeTransaction writes everything before *)
(* it calls the recipient; calls the recipient makes back into the         *)
(* treasury are therefore the same as calls made right after it.           *)
(*                                                                         *)
(* spentOnDay and spentInWeek are the ExecuteTransaction events, summed    *)
(* by the calendar: the contract itself only keeps the two windows.        *)
(***************************************************************************)
EXTENDS Integers, Sequences, FiniteSets

CONSTANTS
  Owner,             \* fixed by the constructor, like
  Required,          \* the confirmations a large transaction needs
  Limits,            \* the [daily, weekly, threshold] settings tried
  Values,            \* the amounts tried
  Day, Week,         \* 1 days and 1 weeks in the source
  MaxTransactions,   \* bound on the number of transactions
  MaxBalance,        \* bound on the treasury's balance
  MaxTime            \* bound on block.timestamp

ASSUME OwnerAssumption ==
  /\ IsFiniteSet(Owner)
  /\ Required \in 1..Cardinality(Owner)
ASSUME TreasuryInputs ==
  /\ Limits \subseteq [daily : Nat, weekly : Nat, threshold : Nat]
  /\ Values \subseteq Nat
ASSUME TreasuryBounds ==
  /\ Day \in Nat \ {0}
  /\ Week \in Nat \ {0}
  /\ MaxTransactions \in Nat
  /\ MaxBalance \in Nat
  /\ MaxTime \in Nat

VARIABLES
  transactions,     \* index i of the source is i + 1 here
  isConfirmed,      \* the pairs <<i, owner>> the mapping holds true for
  limits,           \* dailyLimit, weeklyLimit and threshold; 0 is no limit
  frozen,
  day, week,        \* [start, spent]: dayWindowStart and daySpent, etc.
  balance,
  now,              \* block.timestamp
  spentOnDay,       \* event log
  spentInWeek       \* event log

vars == <<transactions, isConfirmed, limits, frozen, day, week, balance, now,
          spentOnDay, spentInWeek>>

\* Where a transaction goes: elsewhere, or to unfreezeInternal of the treasury.
Call == {"transfer", "unfreeze"}

Transaction ==
  [ call             : Call,
    value            : Nat,
    executed         : BOOLEAN,
    numConfirmations : 0..Cardinality(Owner) ]

Window == [start : Nat, spent : Nat]

Today == now \div Day
ThisWeek == now \div Week

Confirmers(i) == {o \in Owner : <<i, o>> \in isConfirmed}

-----------------------------------------------------------------------------
\* What confirmTransaction and revokeConfirmation ask of the caller's mark.
MayConfirm_Bug(i, o) == TRUE
MayConfirm(i, o) == <<i, o>> \notin isConfirmed

MayRevoke_Bug(i, o) == TRUE
MayRevoke(i, o) == <<i, o>> \in isConfirmed

\* The confirmations executeTransaction asks for.
Needed_Bug(t) == IF t.call = "unfreeze" \/ t.value > limits.daily THEN Required ELSE 1
Needed(t) == IF t.call = "unfreeze" \/ t.value > limits.threshold THEN Required ELSE 1

\* A window, reset when the present period is not the one it was started in.
Rolled_Bug(w, period) == [w EXCEPT !.start = period]
Rolled(w, period) == IF w.start # period THEN [start |-> period, spent |-> 0] ELSE w

\* A limit, when there is one, is not exceeded by spending v more.
Within_Bug(limit, w, v) == limit > 0 => w.spent <= limit
Within(limit, w, v) == limit > 0 => w.spent + v <= limit

-----------------------------------------------------------------------------
\* The constructor, at time zero.
Init ==
  /\ transactions = <<>>
  /\ isConfirmed = {}
  /\ limits \in Limits
  /\ frozen = FALSE
  /\ day = [start |-> 0, spent |-> 0]
  /\ week = [start |-> 0, spent |-> 0]
  /\ balance = 0
  /\ now = 0
  /\ spentOnDay = [d \in 0..MaxTime |-> 0]
  /\ spentInWeek = [w \in 0..MaxTime |-> 0]

\* submitTransaction: possible while frozen.
SubmitTransaction(call, value) ==
  /\ Len(transactions) < MaxTransactions
  /\ transactions' = Append(transactions,
       [call |-> call, value |-> value, executed |-> FALSE, numConfirmations |-> 0])
  /\ UNCHANGED <<isConfirmed, limits, frozen, day, week, balance, now,
                 spentOnDay, spentInWeek>>

\* confirmTransaction
ConfirmTransaction(i, owner) ==
  /\ ~frozen
  /\ i \in DOMAIN transactions
  /\ ~transactions[i].executed
  /\ MayConfirm(i, owner)
  /\ isConfirmed' = isConfirmed \cup {<<i, owner>>}
  /\ transactions' = [transactions EXCEPT ![i].numConfirmations = @ + 1]
  /\ UNCHANGED <<limits, frozen, day, week, balance, now, spentOnDay, spentInWeek>>

\* revokeConfirmation
RevokeConfirmation(i, owner) ==
  /\ ~frozen
  /\ i \in DOMAIN transactions
  /\ ~transactions[i].executed
  /\ MayRevoke(i, owner)
  /\ isConfirmed' = isConfirmed \ {<<i, owner>>}
  /\ transactions' = [transactions EXCEPT ![i].numConfirmations = @ - 1]
  /\ UNCHANGED <<limits, frozen, day, week, balance, now, spentOnDay, spentInWeek>>

\* executeTransaction, by anybody. unfreezeInternal takes no money, so a call
\* to it that carries any reverts.
ExecuteTransaction(i) ==
  /\ ~frozen
  /\ i \in DOMAIN transactions
  /\ LET t == transactions[i]
         d == Rolled(day, Today)
         w == Rolled(week, ThisWeek) IN
       /\ ~t.executed
       /\ t.numConfirmations >= Needed(t)
       /\ Within(limits.daily, d, t.value)
       /\ Within(limits.weekly, w, t.value)
       /\ t.value <= balance
       /\ t.call = "unfreeze" => t.value = 0
       /\ transactions' = [transactions EXCEPT ![i].executed = TRUE]
       /\ day' = [d EXCEPT !.spent = @ + t.value]
       /\ week' = [w EXCEPT !.spent = @ + t.value]
       /\ balance' = balance - t.value
       /\ spentOnDay' = [spentOnDay EXCEPT ![Today] = @ + t.value]
       /\ spentInWeek' = [spentInWeek EXCEPT ![ThisWeek] = @ + t.value]
       /\ frozen' = (frozen /\ t.call # "unfreeze")
  /\ UNCHANGED <<isConfirmed, limits, now>>

\* updateLimits: any one owner, frozen or not, at any time.
UpdateLimits(l) ==
  /\ limits' = l
  /\ UNCHANGED <<transactions, isConfirmed, frozen, day, week, balance, now,
                 spentOnDay, spentInWeek>>

\* emergencyFreeze
EmergencyFreeze ==
  /\ frozen' = TRUE
  /\ UNCHANGED <<transactions, isConfirmed, limits, day, week, balance, now,
                 spentOnDay, spentInWeek>>

\* receive
Receive ==
  /\ balance < MaxBalance
  /\ balance' = balance + 1
  /\ UNCHANGED <<transactions, isConfirmed, limits, frozen, day, week, now,
                 spentOnDay, spentInWeek>>

\* A later block.
Tick ==
  /\ now < MaxTime
  /\ now' = now + 1
  /\ UNCHANGED <<transactions, isConfirmed, limits, frozen, day, week, balance,
                 spentOnDay, spentInWeek>>

Next ==
  \/ \E call \in Call, value \in Values : SubmitTransaction(call, value)
  \/ \E i \in 1..MaxTransactions, owner \in Owner :
       ConfirmTransaction(i, owner) \/ RevokeConfirmation(i, owner)
  \/ \E i \in 1..MaxTransactions : ExecuteTransaction(i)
  \/ \E l \in Limits : UpdateLimits(l)
  \/ EmergencyFreeze
  \/ Receive
  \/ Tick

Spec == Init /\ [][Next]_vars

-----------------------------------------------------------------------------
\* The types of the storage; a window's start is never in the future.
TypeOK ==
  /\ transactions \in Seq(Transaction)
  /\ Len(transactions) <= MaxTransactions
  /\ isConfirmed \subseteq (DOMAIN transactions) \X Owner
  /\ limits \in Limits
  /\ frozen \in BOOLEAN
  /\ day \in Window /\ day.start <= Today
  /\ week \in Window /\ week.start <= ThisWeek
  /\ balance \in 0..MaxBalance
  /\ now \in 0..MaxTime
  /\ spentOnDay \in [0..MaxTime -> Nat]
  /\ spentInWeek \in [0..MaxTime -> Nat]

\* The count that decides is the number of distinct owners on record, after any
\* sequence of confirmations and revocations.
ConfirmationsCounted ==
  \A i \in DOMAIN transactions :
    transactions[i].numConfirmations = Cardinality(Confirmers(i))

\* The lazily reset windows keep account: each holds what was really spent in
\* its own day or week, and nothing was spent in any later one.
WindowsMatchLog ==
  /\ day.spent = spentOnDay[day.start]
  /\ week.spent = spentInWeek[week.start]
  /\ \A d \in 0..MaxTime : d > day.start => spentOnDay[d] = 0
  /\ \A w \in 0..MaxTime : w > week.start => spentInWeek[w] = 0

\* Money is only spent on the present day, while not frozen, and brings neither
\* the day's nor the week's true total above the limit in force, however long
\* the windows were left alone and however often the limits were changed.
SpendingWithinLimits ==
  [][\A p \in 0..MaxTime :
       /\ spentOnDay'[p] # spentOnDay[p] =>
            /\ p = Today /\ ~frozen
            /\ limits.daily > 0 => spentOnDay'[p] <= limits.daily
       /\ spentInWeek'[p] # spentInWeek[p] =>
            /\ p = ThisWeek /\ ~frozen
            /\ limits.weekly > 0 => spentInWeek'[p] <= limits.weekly]_vars

\* A transaction is executed on the word of enough distinct owners (the full
\* number for an unfreeze or for a value above the threshold in force), and
\* neither it nor the evidence changes afterwards.
QuorumPays ==
  [][\A i \in DOMAIN transactions :
       LET t == transactions[i] IN
         /\ ~t.executed /\ transactions'[i].executed =>
              Cardinality(Confirmers(i)) >=
                IF t.call = "unfreeze" \/ t.value > limits.threshold
                THEN Required ELSE 1
         /\ t.executed => /\ transactions'[i] = t
                          /\ Confirmers(i)' = Confirmers(i)]_vars

-----------------------------------------------------------------------------
\* An unfreeze with its full number of confirmations, waiting to be executed.
ReadyToUnfreeze(i) ==
  /\ i \in DOMAIN transactions
  /\ transactions[i].call = "unfreeze" /\ transactions[i].value = 0
  /\ ~transactions[i].executed
  /\ Cardinality(Confirmers(i)) >= Required

\* Somebody does not give up trying to execute it.
FairSpec ==
  /\ Spec
  /\ \A i \in 1..MaxTransactions : SF_vars(ReadyToUnfreeze(i) /\ ExecuteTransaction(i))

\* README_TREASURY.md: "To unfreeze the contract after an emergency freeze, submit
\* a transaction targeting the treasury itself with data unfreezeInternal() and
\* execute it with the required multisig confirmations."
CanBeUnfrozen ==
  \A i \in 1..MaxTransactions : (frozen /\ ReadyToUnfreeze(i)) ~> ~frozen
=============================================================================
