----------------------- MODULE MultisigTreasuryProofs -----------------------
(***************************************************************************)
(* Proofs about the treasury, for all owners, settings, amounts, lengths   *)
(* of a day and a week, and every bound.                                   *)
(***************************************************************************)
EXTENDS MultisigTreasury, FiniteSetTheorems, TLAPS

\* The inductive invariant.
IInv == TypeOK /\ ConfirmationsCounted /\ WindowsMatchLog

-----------------------------------------------------------------------------
\* The number of a period is no larger than the time, and never goes down.
LEMMA PeriodBounded ==
  ASSUME NEW t \in Nat, NEW d \in Nat \ {0}
  PROVE  t \div d \in 0..t
OBVIOUS

\* A later time is in no earlier period.
LEMMA PeriodMonotone ==
  ASSUME NEW t \in Nat, NEW u \in Nat, NEW d \in Nat \ {0}, t <= u
  PROVE  t \div d <= u \div d
OBVIOUS

\* Present and past periods are among those the log is indexed by.
LEMMA PeriodsInRange ==
  ASSUME TypeOK
  PROVE  Today \in 0..MaxTime /\ ThisWeek \in 0..MaxTime
<1>1. now \in Nat /\ now <= MaxTime /\ MaxTime \in Nat
  BY TreasuryBounds DEF TypeOK
<1>2. now \div Day \in 0..now /\ now \div Week \in 0..now
  BY <1>1, PeriodBounded, TreasuryBounds
<1>3. QED
  BY <1>1, <1>2 DEF Today, ThisWeek

\* The owners who confirmed a transaction are finitely many.
LEMMA ConfirmersFinite ==
  ASSUME NEW i
  PROVE  /\ IsFiniteSet(Confirmers(i))
         /\ Cardinality(Confirmers(i)) \in 0..Cardinality(Owner)
<1>1. Confirmers(i) \in SUBSET Owner
  BY DEF Confirmers
<1>2. IsFiniteSet(Confirmers(i)) /\ Cardinality(Confirmers(i)) <= Cardinality(Owner)
  BY <1>1, OwnerAssumption, FS_Subset
<1>3. Cardinality(Confirmers(i)) \in Nat /\ Cardinality(Owner) \in Nat
  BY <1>2, OwnerAssumption, FS_CardinalityType
<1>4. QED
  BY <1>2, <1>3

\* A window agrees with the log; both after v is spent in period p.
Agrees(w, log) ==
  /\ w \in Window
  /\ log \in [0..MaxTime -> Nat]
  /\ w.spent = log[w.start]
  /\ \A x \in 0..MaxTime : x > w.start => log[x] = 0

Charged(w, p, v) == [Rolled(w, p) EXCEPT !.spent = @ + v]
Booked(log, p, v) == [log EXCEPT ![p] = @ + v]

\* Rolling a window that agrees with the log to the present period p leaves it in
\* agreement: what was spent in a new period is nothing.
LEMMA RollingKeepsAccount ==
  ASSUME NEW w, NEW log, Agrees(w, log), NEW p \in 0..MaxTime, w.start <= p
  PROVE  Rolled(w, p) = [start |-> p, spent |-> log[p]]
<1>1. w.start \in Nat /\ p \in Nat /\ MaxTime \in Nat
  BY TreasuryBounds DEF Agrees, Window
<1>2. CASE w.start = p
  BY <1>2 DEF Rolled, Agrees, Window
<1>3. CASE w.start # p
  <2>1. log[p] = 0
    BY <1>1, <1>3 DEF Agrees
  <2>2. QED
    BY <1>3, <2>1 DEF Rolled
<1>4. QED
  BY <1>2, <1>3

\* The two still agree after v is spent in period p.
LEMMA SpendingKeepsAccount ==
  ASSUME NEW w, NEW log, Agrees(w, log), NEW p \in 0..MaxTime, w.start <= p,
         NEW v \in Nat
  PROVE  /\ Agrees(Charged(w, p, v), Booked(log, p, v))
         /\ Charged(w, p, v).start = p
         /\ Booked(log, p, v)[p] = Rolled(w, p).spent + v
<1>1. w.start \in Nat /\ p \in Nat /\ MaxTime \in Nat
  BY TreasuryBounds DEF Agrees, Window
<1>2. Rolled(w, p) = [start |-> p, spent |-> log[p]]
  BY RollingKeepsAccount
<1>3. log[p] \in Nat /\ log[p] + v \in Nat
  BY DEF Agrees
<1>4. Charged(w, p, v) = [start |-> p, spent |-> log[p] + v]
  BY <1>2 DEF Charged
<1>5. Booked(log, p, v) \in [0..MaxTime -> Nat] /\ Booked(log, p, v)[p] = log[p] + v
  BY <1>3 DEF Booked, Agrees
<1>6. \A x \in 0..MaxTime : x > p => Booked(log, p, v)[x] = 0
  BY <1>1 DEF Booked, Agrees
<1>7. QED
  BY <1>1, <1>2, <1>3, <1>4, <1>5, <1>6 DEF Window, Agrees

\* One element of a sequence is replaced.
LEMMA ReplaceElement ==
  ASSUME NEW S, NEW s \in Seq(S), NEW i \in DOMAIN s, NEW e \in S
  PROVE  /\ [s EXCEPT ![i] = e] \in Seq(S)
         /\ Len([s EXCEPT ![i] = e]) = Len(s)
         /\ DOMAIN [s EXCEPT ![i] = e] = DOMAIN s
         /\ [s EXCEPT ![i] = e][i] = e
         /\ \A j \in DOMAIN s : j # i => [s EXCEPT ![i] = e][j] = s[j]
OBVIOUS

-----------------------------------------------------------------------------
\* Init establishes the invariant.
LEMMA InitIInv == Init => IInv
<1> SUFFICES ASSUME Init PROVE IInv
  OBVIOUS
<1>1. Today = 0 /\ ThisWeek = 0
  <2>1. 0 \div Day \in 0..0 /\ 0 \div Week \in 0..0
    BY PeriodBounded, TreasuryBounds
  <2>2. QED
    BY <2>1 DEF Init, Today, ThisWeek
<1>2. transactions \in Seq(Transaction) /\ Len(transactions) = 0
      /\ DOMAIN transactions = {}
  BY DEF Init
<1>3. [start |-> 0, spent |-> 0] \in Window
  BY DEF Window
<1>4. TypeOK
  BY <1>1, <1>2, <1>3, TreasuryBounds DEF Init, TypeOK
<1>5. WindowsMatchLog
  BY TreasuryBounds DEF Init, WindowsMatchLog
<1>6. QED
  BY <1>2, <1>4, <1>5 DEF IInv, ConfirmationsCounted

\* A new transaction has no confirmations.
LEMMA SubmitStep ==
  ASSUME IInv, NEW call \in Call, NEW value \in Values,
         SubmitTransaction(call, value)
  PROVE  IInv'
<1> DEFINE n == Len(transactions) + 1
<1>1. PICK t : t = [call |-> call, value |-> value, executed |-> FALSE,
                    numConfirmations |-> 0]
  OBVIOUS
<1>2. t \in Transaction /\ t.numConfirmations = 0
  <2>1. Cardinality(Owner) \in Nat
    BY OwnerAssumption, FS_CardinalityType
  <2>2. QED
    BY <1>1, <2>1, TreasuryInputs DEF Transaction
<1>3. transactions \in Seq(Transaction) /\ Len(transactions) < MaxTransactions
      /\ Len(transactions) \in Nat /\ DOMAIN transactions = 1..Len(transactions)
  BY DEF IInv, TypeOK, SubmitTransaction
<1>4. transactions' = Append(transactions, t)
  BY <1>1 DEF SubmitTransaction
<1>5. /\ transactions' \in Seq(Transaction)
      /\ Len(transactions') = n
      /\ DOMAIN transactions' = 1..n
      /\ transactions'[n] = t
      /\ \A i \in DOMAIN transactions : transactions'[i] = transactions[i]
  BY <1>2, <1>3, <1>4
<1>6. /\ isConfirmed' = isConfirmed /\ limits' = limits /\ frozen' = frozen
      /\ day' = day /\ week' = week /\ balance' = balance /\ now' = now
      /\ spentOnDay' = spentOnDay /\ spentInWeek' = spentInWeek
  BY DEF SubmitTransaction
<1>7. TypeOK'
  <2>1. Len(transactions') <= MaxTransactions
    BY <1>3, <1>5, TreasuryBounds
  <2>2. isConfirmed' \subseteq (DOMAIN transactions') \X Owner
    BY <1>3, <1>5, <1>6 DEF IInv, TypeOK
  <2>3. Today' = Today /\ ThisWeek' = ThisWeek
    BY <1>6 DEF Today, ThisWeek
  <2>4. QED
    BY <1>5, <1>6, <2>1, <2>2, <2>3 DEF IInv, TypeOK
<1>8. ConfirmationsCounted'
  <2>1. \A i : Confirmers(i)' = Confirmers(i)
    BY <1>6 DEF Confirmers
  <2>2. Confirmers(n) = {}
    BY <1>3 DEF Confirmers, IInv, TypeOK
  <2>3. Cardinality(Confirmers(n)) = 0
    BY <2>2, FS_EmptySet
  <2>4. \A i \in DOMAIN transactions' : i \in DOMAIN transactions \/ i = n
    BY <1>3, <1>5
  <2>5. \A i \in DOMAIN transactions' :
          transactions'[i].numConfirmations = Cardinality(Confirmers(i))
    BY <1>2, <1>5, <2>3, <2>4 DEF IInv, ConfirmationsCounted
  <2>6. QED
    BY <2>1, <2>5 DEF ConfirmationsCounted
<1>9. WindowsMatchLog'
  BY <1>6 DEF IInv, WindowsMatchLog
<1>10. QED
  BY <1>7, <1>8, <1>9 DEF IInv

\* A mark that is set or taken back is counted, and nothing else moves.
LEMMA MarkStep ==
  ASSUME IInv, NEW i \in DOMAIN transactions, NEW n \in 0..Cardinality(Owner),
         n = Cardinality(Confirmers(i)'),
         isConfirmed' \subseteq (DOMAIN transactions) \X Owner,
         \A j : j # i => Confirmers(j)' = Confirmers(j),
         transactions' = [transactions EXCEPT ![i].numConfirmations = n],
         UNCHANGED <<limits, frozen, day, week, balance, now, spentOnDay, spentInWeek>>
  PROVE  IInv'
<1>1. transactions \in Seq(Transaction) /\ transactions[i] \in Transaction
  BY DEF IInv, TypeOK
<1>2. PICK t : t = [transactions[i] EXCEPT !.numConfirmations = n]
  OBVIOUS
<1>3. t \in Transaction /\ t.numConfirmations = n
  BY <1>1, <1>2 DEF Transaction
<1>4. transactions' = [transactions EXCEPT ![i] = t]
  BY <1>2
<1>5. /\ transactions' \in Seq(Transaction)
      /\ Len(transactions') = Len(transactions)
      /\ DOMAIN transactions' = DOMAIN transactions
      /\ transactions'[i] = t
      /\ \A j \in DOMAIN transactions : j # i => transactions'[j] = transactions[j]
  BY <1>1, <1>3, <1>4, ReplaceElement
<1>6. TypeOK'
  <2>1. Today' = Today /\ ThisWeek' = ThisWeek
    BY DEF Today, ThisWeek
  <2>2. QED
    BY <1>5, <2>1 DEF IInv, TypeOK
<1>7. ConfirmationsCounted'
  <2>1. \A j \in DOMAIN transactions :
          transactions'[j].numConfirmations = Cardinality(Confirmers(j)')
    BY <1>3, <1>5 DEF IInv, ConfirmationsCounted
  <2>2. QED
    BY <1>5, <2>1 DEF ConfirmationsCounted
<1>8. WindowsMatchLog'
  BY DEF IInv, WindowsMatchLog
<1>9. QED
  BY <1>6, <1>7, <1>8 DEF IInv

\* A confirmation is one more distinct owner ...
LEMMA ConfirmStep ==
  ASSUME IInv, NEW i \in 1..MaxTransactions, NEW owner \in Owner,
         ConfirmTransaction(i, owner)
  PROVE  IInv'
<1>1. /\ i \in DOMAIN transactions /\ <<i, owner>> \notin isConfirmed
      /\ isConfirmed' = isConfirmed \cup {<<i, owner>>}
  BY DEF ConfirmTransaction, MayConfirm
<1>2. /\ Confirmers(i)' = Confirmers(i) \cup {owner}
      /\ owner \notin Confirmers(i)
      /\ \A j : j # i => Confirmers(j)' = Confirmers(j)
      /\ isConfirmed' \subseteq (DOMAIN transactions) \X Owner
  BY <1>1 DEF Confirmers, IInv, TypeOK
<1>3. PICK n : n = transactions[i].numConfirmations + 1
  OBVIOUS
<1>4. n = Cardinality(Confirmers(i) \cup {owner})
  BY <1>1, <1>2, <1>3, ConfirmersFinite, FS_AddElement
     DEF IInv, ConfirmationsCounted
<1>5. n \in 0..Cardinality(Owner)
  <2>1. Confirmers(i) \cup {owner} \in SUBSET Owner
    BY DEF Confirmers
  <2>2. /\ IsFiniteSet(Confirmers(i) \cup {owner})
        /\ Cardinality(Confirmers(i) \cup {owner}) <= Cardinality(Owner)
    BY <2>1, OwnerAssumption, FS_Subset
  <2>3. QED
    BY <1>4, <2>2, OwnerAssumption, FS_CardinalityType
<1>6. transactions' = [transactions EXCEPT ![i].numConfirmations = n]
  BY <1>3 DEF ConfirmTransaction
<1>7. QED
  BY <1>1, <1>2, <1>4, <1>5, <1>6, MarkStep DEF ConfirmTransaction

\* ... and a revocation one less.
LEMMA RevokeStep ==
  ASSUME IInv, NEW i \in 1..MaxTransactions, NEW owner \in Owner,
         RevokeConfirmation(i, owner)
  PROVE  IInv'
<1>1. /\ i \in DOMAIN transactions /\ <<i, owner>> \in isConfirmed
      /\ isConfirmed' = isConfirmed \ {<<i, owner>>}
  BY DEF RevokeConfirmation, MayRevoke
<1>2. /\ Confirmers(i)' = Confirmers(i) \ {owner}
      /\ owner \in Confirmers(i)
      /\ \A j : j # i => Confirmers(j)' = Confirmers(j)
      /\ isConfirmed' \subseteq (DOMAIN transactions) \X Owner
  BY <1>1 DEF Confirmers, IInv, TypeOK
<1>3. PICK n : n = transactions[i].numConfirmations - 1
  OBVIOUS
<1>4. n = Cardinality(Confirmers(i) \ {owner})
  BY <1>1, <1>2, <1>3, ConfirmersFinite, FS_RemoveElement
     DEF IInv, ConfirmationsCounted
<1>5. n \in 0..Cardinality(Owner)
  <2>1. Confirmers(i) \ {owner} \in SUBSET Owner
    BY DEF Confirmers
  <2>2. /\ IsFiniteSet(Confirmers(i) \ {owner})
        /\ Cardinality(Confirmers(i) \ {owner}) <= Cardinality(Owner)
    BY <2>1, OwnerAssumption, FS_Subset
  <2>3. QED
    BY <1>4, <2>2, OwnerAssumption, FS_CardinalityType
<1>6. transactions' = [transactions EXCEPT ![i].numConfirmations = n]
  BY <1>3 DEF RevokeConfirmation
<1>7. QED
  BY <1>1, <1>2, <1>4, <1>5, <1>6, MarkStep DEF RevokeConfirmation

\* What an execution does to both windows and to the log.
LEMMA ExecuteAccounts ==
  ASSUME IInv, NEW i \in 1..MaxTransactions, ExecuteTransaction(i)
  PROVE  /\ day' \in Window /\ day'.start = Today
         /\ spentOnDay' \in [0..MaxTime -> Nat]
         /\ day'.spent = spentOnDay'[Today]
         /\ \A x \in 0..MaxTime : x > Today => spentOnDay'[x] = 0
         /\ \A x \in 0..MaxTime : x # Today => spentOnDay'[x] = spentOnDay[x]
         /\ limits.daily > 0 => spentOnDay'[Today] <= limits.daily
         /\ week' \in Window /\ week'.start = ThisWeek
         /\ spentInWeek' \in [0..MaxTime -> Nat]
         /\ week'.spent = spentInWeek'[ThisWeek]
         /\ \A x \in 0..MaxTime : x > ThisWeek => spentInWeek'[x] = 0
         /\ \A x \in 0..MaxTime : x # ThisWeek => spentInWeek'[x] = spentInWeek[x]
         /\ limits.weekly > 0 => spentInWeek'[ThisWeek] <= limits.weekly
<1>1. PICK v : v = transactions[i].value
  OBVIOUS
<1>2. v \in Nat
  <2>1. transactions[i] \in Transaction
    BY DEF IInv, TypeOK, ExecuteTransaction
  <2>2. QED
    BY <1>1, <2>1 DEF Transaction
<1>3. Today \in 0..MaxTime /\ ThisWeek \in 0..MaxTime
  BY PeriodsInRange DEF IInv
<1>4. PICK today : today = Today
  OBVIOUS
<1>5. PICK thisWeek : thisWeek = ThisWeek
  OBVIOUS
<1>6. /\ Within(limits.daily, Rolled(day, today), v)
      /\ Within(limits.weekly, Rolled(week, thisWeek), v)
      /\ day' = [Rolled(day, today) EXCEPT !.spent = @ + v]
      /\ week' = [Rolled(week, thisWeek) EXCEPT !.spent = @ + v]
      /\ spentOnDay' = [spentOnDay EXCEPT ![today] = @ + v]
      /\ spentInWeek' = [spentInWeek EXCEPT ![thisWeek] = @ + v]
  BY <1>1, <1>4, <1>5 DEF ExecuteTransaction
<1>7. /\ Agrees(day, spentOnDay) /\ day.start <= today /\ today \in 0..MaxTime
      /\ Agrees(week, spentInWeek) /\ week.start <= thisWeek /\ thisWeek \in 0..MaxTime
  BY <1>3, <1>4, <1>5 DEF IInv, TypeOK, WindowsMatchLog, Agrees
<1>8. day' = Charged(day, today, v) /\ spentOnDay' = Booked(spentOnDay, today, v)
  BY <1>6 DEF Charged, Booked
<1>9. /\ week' = Charged(week, thisWeek, v)
      /\ spentInWeek' = Booked(spentInWeek, thisWeek, v)
  BY <1>6 DEF Charged, Booked
<1>10. /\ Agrees(day', spentOnDay') /\ day'.start = today
       /\ spentOnDay'[today] = Rolled(day, today).spent + v
  BY <1>2, <1>7, <1>8, SpendingKeepsAccount
<1>11. /\ Agrees(week', spentInWeek') /\ week'.start = thisWeek
       /\ spentInWeek'[thisWeek] = Rolled(week, thisWeek).spent + v
  BY <1>2, <1>7, <1>9, SpendingKeepsAccount
<1>12. /\ limits.daily > 0 => spentOnDay'[today] <= limits.daily
       /\ limits.weekly > 0 => spentInWeek'[thisWeek] <= limits.weekly
  BY <1>6, <1>10, <1>11 DEF Within
<1>13. /\ \A x \in 0..MaxTime : x # today => spentOnDay'[x] = spentOnDay[x]
       /\ \A x \in 0..MaxTime : x # thisWeek => spentInWeek'[x] = spentInWeek[x]
  BY <1>6, <1>7 DEF Agrees
<1>14. QED
  BY <1>4, <1>5, <1>10, <1>11, <1>12, <1>13 DEF Agrees

\* Executing a transaction flags it and accounts for its value.
LEMMA ExecuteStep ==
  ASSUME IInv, NEW i \in 1..MaxTransactions, ExecuteTransaction(i)
  PROVE  IInv'
<1>1. /\ i \in DOMAIN transactions /\ transactions \in Seq(Transaction)
      /\ transactions[i] \in Transaction
      /\ transactions[i].value <= balance
      /\ transactions' = [transactions EXCEPT ![i].executed = TRUE]
      /\ balance' = balance - transactions[i].value
      /\ frozen' \in BOOLEAN
      /\ isConfirmed' = isConfirmed /\ limits' = limits /\ now' = now
  BY DEF IInv, TypeOK, ExecuteTransaction
<1>2. PICK t : t = [transactions[i] EXCEPT !.executed = TRUE]
  OBVIOUS
<1>3. t \in Transaction /\ t.numConfirmations = transactions[i].numConfirmations
  BY <1>1, <1>2 DEF Transaction
<1>4. transactions' = [transactions EXCEPT ![i] = t]
  BY <1>1, <1>2
<1>5. /\ transactions' \in Seq(Transaction)
      /\ Len(transactions') = Len(transactions)
      /\ DOMAIN transactions' = DOMAIN transactions
      /\ transactions'[i] = t
      /\ \A j \in DOMAIN transactions : j # i => transactions'[j] = transactions[j]
  <2>1. i \in DOMAIN transactions /\ transactions \in Seq(Transaction)
    BY <1>1
  <2>2. QED
    BY <1>3, <1>4, <2>1, ReplaceElement
<1>6. Today' = Today /\ ThisWeek' = ThisWeek
  BY <1>1 DEF Today, ThisWeek
<1>7. Today \in Nat /\ ThisWeek \in Nat
  BY PeriodsInRange DEF IInv
<1>8. balance' \in 0..MaxBalance
  <2>1. transactions[i].value \in Nat
    BY <1>1 DEF Transaction
  <2>2. QED
    BY <1>1, <2>1, TreasuryBounds DEF IInv, TypeOK
<1>9. TypeOK'
  BY <1>1, <1>5, <1>6, <1>7, <1>8, ExecuteAccounts DEF IInv, TypeOK
<1>10. ConfirmationsCounted'
  <2>1. \A j : Confirmers(j)' = Confirmers(j)
    BY <1>1 DEF Confirmers
  <2>2. \A j \in DOMAIN transactions' :
          transactions'[j].numConfirmations = Cardinality(Confirmers(j))
    BY <1>3, <1>5 DEF IInv, ConfirmationsCounted
  <2>3. QED
    BY <2>1, <2>2 DEF ConfirmationsCounted
<1>11. WindowsMatchLog'
  BY ExecuteAccounts DEF WindowsMatchLog
<1>12. QED
  BY <1>9, <1>10, <1>11 DEF IInv

\* Time moves on to periods in which nothing was spent.
LEMMA TickStep ==
  ASSUME IInv, Tick
  PROVE  IInv'
<1>1. now \in Nat /\ now' = now + 1 /\ now' \in 0..MaxTime
  BY TreasuryBounds DEF IInv, TypeOK, Tick
<1>2. Today <= Today' /\ ThisWeek <= ThisWeek'
  <2>1. /\ now \div Day <= (now + 1) \div Day
        /\ now \div Week <= (now + 1) \div Week
    BY <1>1, PeriodMonotone, TreasuryBounds
  <2>2. QED
    BY <1>1, <2>1 DEF Today, ThisWeek
<1>3. /\ transactions' = transactions /\ isConfirmed' = isConfirmed
      /\ limits' = limits /\ frozen' = frozen /\ day' = day /\ week' = week
      /\ balance' = balance /\ spentOnDay' = spentOnDay
      /\ spentInWeek' = spentInWeek
  BY DEF Tick
<1>4. /\ Today \in Nat /\ Today' \in Nat /\ ThisWeek \in Nat /\ ThisWeek' \in Nat
      /\ day.start \in Nat /\ week.start \in Nat
  <2>1. (now + 1) \div Day \in 0..(now + 1) /\ (now + 1) \div Week \in 0..(now + 1)
    BY <1>1, PeriodBounded, TreasuryBounds
  <2>2. QED
    BY <1>1, <2>1, PeriodsInRange DEF IInv, TypeOK, Today, ThisWeek, Window
<1>5. day.start <= Today' /\ week.start <= ThisWeek'
  BY <1>2, <1>4 DEF IInv, TypeOK
<1>6. TypeOK'
  BY <1>1, <1>3, <1>5 DEF IInv, TypeOK
<1>7. \A j : Confirmers(j)' = Confirmers(j)
  BY <1>3 DEF Confirmers
<1>8. QED
  BY <1>3, <1>6, <1>7 DEF IInv, ConfirmationsCounted, WindowsMatchLog

\* New limits, a freeze, a deposit and a stuttering step leave the accounts alone.
LEMMA QuietStep ==
  ASSUME IInv,
         \/ \E l \in Limits : UpdateLimits(l)
         \/ EmergencyFreeze \/ Receive \/ UNCHANGED vars
  PROVE  IInv'
<1>1. /\ transactions' = transactions /\ isConfirmed' = isConfirmed
      /\ day' = day /\ week' = week /\ now' = now
      /\ spentOnDay' = spentOnDay /\ spentInWeek' = spentInWeek
  BY DEF UpdateLimits, EmergencyFreeze, Receive, vars
<1>2. limits' \in Limits /\ frozen' \in BOOLEAN
  BY DEF UpdateLimits, EmergencyFreeze, Receive, vars, IInv, TypeOK
<1>3. balance' \in 0..MaxBalance
  BY TreasuryBounds
     DEF UpdateLimits, EmergencyFreeze, Receive, vars, IInv, TypeOK
<1>4. Today' = Today /\ ThisWeek' = ThisWeek
  BY <1>1 DEF Today, ThisWeek
<1>5. TypeOK'
  BY <1>1, <1>2, <1>3, <1>4 DEF IInv, TypeOK
<1>6. \A j : Confirmers(j)' = Confirmers(j)
  BY <1>1 DEF Confirmers
<1>7. QED
  BY <1>1, <1>5, <1>6 DEF IInv, ConfirmationsCounted, WindowsMatchLog

\* The invariant is inductive.
LEMMA NextIInv == IInv /\ [Next]_vars => IInv'
BY SubmitStep, ConfirmStep, RevokeStep, ExecuteStep, TickStep, QuietStep DEF Next

-----------------------------------------------------------------------------
\* In every reachable state the storage has its types.
THEOREM TypeCorrect == Spec => []TypeOK
<1>1. IInv => TypeOK
  BY DEF IInv
<1>2. QED
  BY InitIInv, NextIInv, <1>1, PTL DEF Spec

\* The count executeTransaction compares is always the number of distinct owners
\* on record, for any number of owners and transactions.
THEOREM CountHolds == Spec => []ConfirmationsCounted
<1>1. IInv => ConfirmationsCounted
  BY DEF IInv
<1>2. QED
  BY InitIInv, NextIInv, <1>1, PTL DEF Spec

\* The two windows always hold what was really spent in their periods, whatever
\* the lengths of a day and a week and however long nothing was executed.
THEOREM WindowsHold == Spec => []WindowsMatchLog
<1>1. IInv => WindowsMatchLog
  BY DEF IInv
<1>2. QED
  BY InitIInv, NextIInv, <1>1, PTL DEF Spec

\* No step spends outside the present period, while frozen, or above the limits
\* in force.
THEOREM SpendingLimited == Spec => SpendingWithinLimits
<1> DEFINE Limited ==
      \A p \in 0..MaxTime :
        /\ spentOnDay'[p] # spentOnDay[p] =>
             /\ p = Today /\ ~frozen
             /\ limits.daily > 0 => spentOnDay'[p] <= limits.daily
        /\ spentInWeek'[p] # spentInWeek[p] =>
             /\ p = ThisWeek /\ ~frozen
             /\ limits.weekly > 0 => spentInWeek'[p] <= limits.weekly
<1>1. ASSUME IInv, [Next]_vars PROVE Limited
  <2>1. ASSUME NEW i \in 1..MaxTransactions, ExecuteTransaction(i) PROVE Limited
    <3>1. ~frozen
      BY <2>1 DEF ExecuteTransaction
    <3>2. QED
      BY <1>1, <2>1, <3>1, ExecuteAccounts
  <2>2. ASSUME UNCHANGED <<spentOnDay, spentInWeek>> PROVE Limited
    BY <2>2
  <2>3. CASE \E i \in 1..MaxTransactions : ExecuteTransaction(i)
    BY <2>1, <2>3
  <2>4. CASE ~ \E i \in 1..MaxTransactions : ExecuteTransaction(i)
    <3>1. UNCHANGED <<spentOnDay, spentInWeek>>
      BY <1>1, <2>4 DEF Next, SubmitTransaction, ConfirmTransaction,
         RevokeConfirmation, UpdateLimits, EmergencyFreeze, Receive, Tick, vars
    <3>2. QED
      BY <2>2, <3>1
  <2>5. QED
    BY <2>3, <2>4
<1>2. IInv /\ [Next]_vars => [Limited]_vars
  BY <1>1
<1>3. QED
  BY InitIInv, NextIInv, <1>2, PTL DEF Spec, SpendingWithinLimits

\* A transaction is executed on enough distinct confirmations, and an executed
\* one is final, with its evidence.
THEOREM QuorumHolds == Spec => QuorumPays
<1> DEFINE Paid(i) ==
      LET t == transactions[i] IN
        /\ ~t.executed /\ transactions'[i].executed =>
             Cardinality(Confirmers(i)) >=
               IF t.call = "unfreeze" \/ t.value > limits.threshold
               THEN Required ELSE 1
        /\ t.executed => /\ transactions'[i] = t
                         /\ Confirmers(i)' = Confirmers(i)
<1>1. ASSUME IInv, [Next]_vars, NEW i \in DOMAIN transactions PROVE Paid(i)
  <2>1. transactions \in Seq(Transaction) /\ transactions[i] \in Transaction
    BY <1>1 DEF IInv, TypeOK
  <2>2. ASSUME transactions'[i].executed = transactions[i].executed,
               ~transactions[i].executed
        PROVE  Paid(i)
    BY <2>2
  <2>3. ASSUME transactions'[i] = transactions[i], Confirmers(i)' = Confirmers(i)
        PROVE  Paid(i)
    BY <2>3
  <2>4. ASSUME NEW call \in Call, NEW value \in Values, SubmitTransaction(call, value)
        PROVE  Paid(i)
    <3>1. transactions'[i] = transactions[i]
      BY <2>1, <2>4 DEF SubmitTransaction
    <3>2. Confirmers(i)' = Confirmers(i)
      BY <2>4 DEF SubmitTransaction, Confirmers
    <3>3. QED
      BY <2>3, <3>1, <3>2
  <2>5. ASSUME NEW j \in 1..MaxTransactions, NEW owner \in Owner,
               ConfirmTransaction(j, owner) \/ RevokeConfirmation(j, owner)
        PROVE  Paid(i)
    <3>1. /\ ~transactions[j].executed /\ j \in DOMAIN transactions
          /\ \E n : transactions' = [transactions EXCEPT ![j].numConfirmations = n]
      BY <2>5 DEF ConfirmTransaction, RevokeConfirmation
    <3>2. CASE i = j
      <4>1. transactions'[i].executed = transactions[i].executed
        BY <2>1, <3>1, <3>2 DEF Transaction
      <4>2. QED
        BY <2>2, <3>1, <3>2, <4>1
    <3>3. CASE i # j
      <4>1. transactions'[i] = transactions[i]
        BY <2>1, <3>1, <3>3
      <4>2. Confirmers(i)' = Confirmers(i)
        BY <2>5, <3>3 DEF ConfirmTransaction, RevokeConfirmation, Confirmers
      <4>3. QED
        BY <2>3, <4>1, <4>2
    <3>4. QED
      BY <3>2, <3>3
  <2>6. ASSUME NEW j \in 1..MaxTransactions, ExecuteTransaction(j) PROVE Paid(i)
    <3>1. /\ ~transactions[j].executed
          /\ transactions' = [transactions EXCEPT ![j].executed = TRUE]
          /\ transactions[j].numConfirmations >= Needed(transactions[j])
      BY <2>6 DEF ExecuteTransaction
    <3>2. CASE i = j
      <4>1. Cardinality(Confirmers(i)) >= Needed(transactions[i])
        BY <1>1, <3>1, <3>2 DEF IInv, ConfirmationsCounted
      <4>2. QED
        BY <3>1, <3>2, <4>1 DEF Needed
    <3>3. CASE i # j
      <4>1. transactions'[i] = transactions[i]
        BY <2>1, <3>1, <3>3
      <4>2. Confirmers(i)' = Confirmers(i)
        BY <2>6 DEF ExecuteTransaction, Confirmers
      <4>3. QED
        BY <2>3, <4>1, <4>2
    <3>4. QED
      BY <3>2, <3>3
  <2>7. ASSUME UNCHANGED <<transactions, isConfirmed>> PROVE Paid(i)
    <3>1. transactions'[i] = transactions[i] /\ Confirmers(i)' = Confirmers(i)
      BY <2>7 DEF Confirmers
    <3>2. QED
      BY <2>3, <3>1
  <2>8. CASE \/ \E l \in Limits : UpdateLimits(l)
             \/ EmergencyFreeze \/ Receive \/ Tick \/ UNCHANGED vars
    <3>1. UNCHANGED <<transactions, isConfirmed>>
      BY <2>8 DEF UpdateLimits, EmergencyFreeze, Receive, Tick, vars
    <3>2. QED
      BY <2>7, <3>1
  <2>9. QED
    BY <1>1, <2>4, <2>5, <2>6, <2>8 DEF Next
<1>2. IInv /\ [Next]_vars => [\A i \in DOMAIN transactions : Paid(i)]_vars
  BY <1>1
<1>3. QED
  BY InitIInv, NextIInv, <1>2, PTL DEF Spec, QuorumPays
-----------------------------------------------------------------------------
\* What an emergency freeze leaves possible: transactions are submitted, limits
\* are changed and money comes in; nothing is confirmed, revoked, executed or paid.
StaysFrozen ==
  frozen =>
    /\ frozen'
    /\ isConfirmed' = isConfirmed
    /\ \A i \in DOMAIN transactions : transactions'[i] = transactions[i]
    /\ day' = day /\ week' = week
    /\ balance' >= balance

LEMMA FrozenStep == IInv /\ [Next]_vars => StaysFrozen
<1> SUFFICES ASSUME IInv, [Next]_vars, frozen
             PROVE  /\ frozen' /\ isConfirmed' = isConfirmed
                    /\ \A i \in DOMAIN transactions : transactions'[i] = transactions[i]
                    /\ day' = day /\ week' = week /\ balance' >= balance
  BY DEF StaysFrozen
<1>1. balance \in Nat /\ transactions \in Seq(Transaction)
  BY TreasuryBounds DEF IInv, TypeOK
<1>2. CASE \E call \in Call, value \in Values : SubmitTransaction(call, value)
  BY <1>1, <1>2 DEF SubmitTransaction
<1>3. CASE \/ \E l \in Limits : UpdateLimits(l)
           \/ EmergencyFreeze \/ Receive \/ Tick \/ UNCHANGED vars
  <2>1. frozen' /\ UNCHANGED <<transactions, isConfirmed, day, week>>
    BY <1>3 DEF UpdateLimits, EmergencyFreeze, Receive, Tick, vars
  <2>2. balance' = balance \/ balance' = balance + 1
    BY <1>3 DEF UpdateLimits, EmergencyFreeze, Receive, Tick, vars
  <2>3. QED
    BY <1>1, <2>1, <2>2
<1>4. ~ \E i \in 1..MaxTransactions, owner \in Owner :
          ConfirmTransaction(i, owner) \/ RevokeConfirmation(i, owner)
  BY DEF ConfirmTransaction, RevokeConfirmation
<1>5. ~ \E i \in 1..MaxTransactions : ExecuteTransaction(i)
  BY DEF ExecuteTransaction
<1>6. QED
  BY <1>2, <1>3, <1>4, <1>5 DEF Next

\* whenNotFrozen guards executeTransaction, the only way to unfreezeInternal, and
\* with it every other way to confirm or to pay: after one owner's freeze the money
\* that is in the treasury stays there, and what was on record stays as it was.
THEOREM FreezeStops == Spec => [][StaysFrozen]_vars
<1>1. IInv /\ [Next]_vars => [StaysFrozen]_vars
  BY FrozenStep
<1>2. QED
  BY <1>1, InitIInv, NextIInv, PTL DEF Spec

\* So a freeze is for ever: no sequence of calls, of any owners, undoes it.
THEOREM FreezeIsFinal == Spec => [](frozen => []frozen)
<1>1. frozen /\ IInv /\ [Next]_vars => frozen'
  BY FrozenStep DEF StaysFrozen
<1>2. QED
  BY <1>1, InitIInv, NextIInv, PTL DEF Spec

\* The documentation's way out never works: a frozen treasury with a fully
\* confirmed unfreeze on record, reached just once, refutes the promise that
\* executing it unfreezes the contract, whatever fairness is assumed.
THEOREM UnfreezeImpossible ==
  ASSUME NEW i \in 1..MaxTransactions
  PROVE  Spec /\ <>(frozen /\ ReadyToUnfreeze(i))
           => ~((frozen /\ ReadyToUnfreeze(i)) ~> ~frozen)
BY FreezeIsFinal, PTL
=============================================================================
