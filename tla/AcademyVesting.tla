--------------------------- MODULE AcademyVesting ---------------------------
(***************************************************************************)
(* The academy's vesting contract (contracts/academy/src/vesting.rs): the  *)
(* admin grants schedules, a beneficiary takes what has vested in a single *)
(* claim, alone or in a batch, and the admin may revoke what was not       *)
(* claimed. The reward token is external: only the contract's balance and  *)
(* the transfers out of it are modelled.                                   *)
(*                                                                         *)
(* grantedAt and paid are the contract's event log: GrantEvent.granted_at  *)
(* of each grant, and the sum of its ClaimEvent amounts.                   *)
(***************************************************************************)
EXTENDS Soroban, Functions, FiniteSets

CONSTANTS
  Account,         \* who may call, or be granted something
  NoAccount,       \* no admin is stored before init
  Terms,           \* the [amount, start_time, cliff, duration] arguments tried
  RevokeDelays,    \* the revoke_delay arguments tried
  Batches,         \* the grant_ids arguments tried, repetitions allowed
  MinRevokeDelay,  \* 3600 in the source
  MaxBatch,        \* MAX_BATCH_CLAIMS
  MaxU64,          \* the largest time a u64 holds: sums beyond it panic
  MaxGrants,       \* bound on the number of grants
  MaxSupply,       \* bound on the contract's balance
  MaxTime          \* bound on the ledger's timestamp

TermsType ==
  [amount : Int, start_time : Nat, cliff : Nat, duration : Nat]

ASSUME AccountAssumption == NoAccount \notin Account
ASSUME InputAssumption ==
  /\ Terms \subseteq TermsType
  /\ RevokeDelays \subseteq Nat
  /\ Batches \subseteq Seq(Nat)
ASSUME VestingBounds ==
  /\ MinRevokeDelay \in Nat
  /\ MaxBatch \in Nat
  /\ MaxU64 \in Nat
  /\ MaxGrants \in Nat
  /\ MaxSupply \in Nat
  /\ MaxTime \in 0..MaxU64

VARIABLES
  admin,      \* storage "admin"
  sched,      \* storage "sched": Map<u64, VestingSchedule>
  cnt,        \* storage "cnt"
  balance,    \* the contract's balance of the reward token
  now,        \* env.ledger().timestamp()
  grantedAt,  \* event log
  paid        \* event log

vars == <<admin, sched, cnt, balance, now, grantedAt, paid>>

VestingSchedule ==
  [ beneficiary : Account,
    amount      : Nat \ {0},
    start_time  : Nat,
    cliff       : Nat,
    duration    : Nat,
    claimed     : BOOLEAN,
    revoked     : BOOLEAN,
    revoke_time : Nat ]

-----------------------------------------------------------------------------
\* calculate_vested_amount: nothing before the cliff, everything at the end,
\* a straight line that starts from zero AT the cliff in between.
VestedAt_Bug(s, t) ==
  IF t < s.start_time + s.cliff THEN 0
  ELSE IF t >= s.start_time + s.duration THEN s.amount
  ELSE (s.amount * (t - s.start_time)) \div (s.duration - s.cliff)
VestedAt(s, t) ==
  IF t < s.start_time + s.cliff THEN 0
  ELSE IF t >= s.start_time + s.duration THEN s.amount
  ELSE (s.amount * (t - (s.start_time + s.cliff))) \div (s.duration - s.cliff)

Vested(g) == VestedAt(sched[g], now)

\* A schedule that ends beyond u64: the additions panic, the call is undone.
Overflows(s) == s.start_time + s.duration > MaxU64

\* claimable_amount returned a positive amount for grant g.
Claimable_Bug(g, beneficiary) ==
  /\ g \in DOMAIN sched
  /\ sched[g].beneficiary = beneficiary
  /\ ~sched[g].claimed
  /\ ~Overflows(sched[g])
  /\ Vested(g) # 0
Claimable(g, beneficiary) ==
  /\ g \in DOMAIN sched
  /\ sched[g].beneficiary = beneficiary
  /\ ~sched[g].claimed
  /\ ~sched[g].revoked
  /\ ~Overflows(sched[g])
  /\ Vested(g) # 0

\* The schedule a payment leaves behind.
AfterClaim_Bug(s) == s
AfterClaim(s) == [s EXCEPT !.claimed = TRUE]

\* The key of the next schedule.
NextGrant_Bug == cnt
NextGrant == cnt + 1

\* What revoke asks of a schedule.
Revocable_Bug(s) == ~s.revoked
Revocable(s) == ~s.claimed /\ ~s.revoked

\* How often grant g occurs in a batch, and what the batch pays in all: every
\* element is priced against the schedules as they were BEFORE the call.
Occurrences(g, ids) == Cardinality({i \in DOMAIN ids : ids[i] = g})
BatchTotal(ids) == SumFunction([i \in DOMAIN ids |-> Vested(ids[i])])

-----------------------------------------------------------------------------
Init ==
  /\ admin = NoAccount
  /\ sched = EmptyMap
  /\ cnt = 0
  /\ balance = 0
  /\ now = 0
  /\ grantedAt = EmptyMap
  /\ paid = EmptyMap

\* init: the first call wins.
Initialize(a) ==
  /\ admin = NoAccount
  /\ admin' = a
  /\ cnt' = 0
  /\ UNCHANGED <<sched, balance, now, grantedAt, paid>>

\* grant_vesting: no funds are needed, and start_time may be in the past or
\* the future.
GrantVesting(caller, beneficiary, terms) ==
  /\ caller = admin
  /\ terms.amount > 0
  /\ terms.cliff <= terms.duration
  /\ cnt < MaxGrants
  /\ sched' = MapSet(sched, NextGrant,
       [ beneficiary |-> beneficiary,
         amount      |-> terms.amount,
         start_time  |-> terms.start_time,
         cliff       |-> terms.cliff,
         duration    |-> terms.duration,
         claimed     |-> FALSE,
         revoked     |-> FALSE,
         revoke_time |-> 0 ])
  /\ cnt' = cnt + 1
  /\ grantedAt' = MapSet(grantedAt, NextGrant, now)
  /\ paid' = MapSet(paid, NextGrant, 0)
  /\ UNCHANGED <<admin, balance, now>>

\* claim: what has vested so far is paid and the grant is closed; the part
\* that had not vested is given up.
Claim(g, beneficiary) ==
  /\ Claimable(g, beneficiary)
  /\ balance >= Vested(g)
  /\ sched' = [sched EXCEPT ![g] = AfterClaim(@)]
  /\ balance' = balance - Vested(g)
  /\ paid' = [paid EXCEPT ![g] = @ + Vested(g)]
  /\ UNCHANGED <<admin, cnt, now, grantedAt>>

\* batch_claim: all or nothing. The flags are written after every element was
\* checked, so an id that occurs twice passes the check, and is paid, twice.
BatchClaim(ids, beneficiary) ==
  /\ ids # <<>>
  /\ Len(ids) <= MaxBatch
  /\ \A g \in Elements(ids) : Claimable(g, beneficiary)
  /\ \E total \in 0..balance :
       /\ total = BatchTotal(ids)
       /\ balance' = balance - total
  /\ sched' = [g \in DOMAIN sched |->
       IF g \in Elements(ids) THEN AfterClaim(sched[g]) ELSE sched[g]]
  /\ paid' = [g \in DOMAIN paid |->
       IF g \in Elements(ids) THEN paid[g] + Occurrences(g, ids) * Vested(g)
       ELSE paid[g]]
  /\ UNCHANGED <<admin, cnt, now, grantedAt>>

\* revoke: the delay is the caller's choice, and is measured from start_time.
Revoke(g, caller, delay) ==
  /\ caller = admin
  /\ g \in DOMAIN sched
  /\ Revocable(sched[g])
  /\ delay >= MinRevokeDelay
  /\ sched[g].start_time + delay <= MaxU64
  /\ now >= sched[g].start_time + delay
  /\ sched' = [sched EXCEPT ![g].revoked = TRUE, ![g].revoke_time = now]
  /\ UNCHANGED <<admin, cnt, balance, now, grantedAt, paid>>

\* Somebody sends reward tokens to the contract.
Deposit ==
  /\ balance < MaxSupply
  /\ balance' = balance + 1
  /\ UNCHANGED <<admin, sched, cnt, now, grantedAt, paid>>

\* A later ledger closes.
Tick ==
  /\ now < MaxTime
  /\ now' = now + 1
  /\ UNCHANGED <<admin, sched, cnt, balance, grantedAt, paid>>

Next ==
  \/ \E a \in Account :
       \/ Initialize(a)
       \/ \E b \in Account, terms \in Terms : GrantVesting(a, b, terms)
       \/ \E g \in 1..MaxGrants : Claim(g, a)
       \/ \E ids \in Batches : BatchClaim(ids, a)
       \/ \E g \in 1..MaxGrants, delay \in RevokeDelays : Revoke(g, a, delay)
  \/ Deposit
  \/ Tick

Spec == Init /\ [][Next]_vars

-----------------------------------------------------------------------------
\* The types of the stored values; grants are numbered 1..cnt without a gap,
\* and only schedules whose cliff lies within their duration are stored.
TypeOK ==
  /\ admin \in Account \cup {NoAccount}
  /\ cnt \in 0..MaxGrants
  /\ sched \in [1..cnt -> VestingSchedule]
  /\ \A g \in 1..cnt : sched[g].cliff <= sched[g].duration
  /\ balance \in 0..MaxSupply
  /\ now \in 0..MaxTime
  /\ grantedAt \in [1..cnt -> 0..MaxTime]
  /\ paid \in [1..cnt -> Nat]

\* The flags tell the truth about the money: a grant is flagged claimed exactly
\* when tokens left for it, and a revoked grant never paid anything, whichever
\* of claim, batch_claim and revoke came first.
PaidMatchesFlags ==
  \A g \in DOMAIN sched :
    /\ sched[g].claimed <=> paid[g] > 0
    /\ sched[g].revoked => paid[g] = 0

\* All of a grant's money leaves in one call, never before its cliff and never
\* after it was revoked: no later claim, alone or in a batch, adds to it.
PaidInOneCall ==
  [][\A g \in DOMAIN sched :
       paid'[g] # paid[g] =>
         /\ paid[g] = 0
         /\ now >= sched[g].start_time + sched[g].cliff
         /\ ~sched[g].revoked]_vars

\* calculate_vested_amount never goes down as time passes, is never above the
\* amount granted (the partial formula included), is zero before the cliff and
\* the whole amount at the end.
VestingCurve ==
  \A g \in DOMAIN sched, t \in 0..MaxTime :
    LET s == sched[g] IN
      /\ VestedAt(s, t) \in 0..s.amount
      /\ VestedAt(s, t) <= VestedAt(s, t + 1)
      /\ t < s.start_time + s.cliff => VestedAt(s, t) = 0
      /\ t >= s.start_time + s.duration => VestedAt(s, t) = s.amount

\* What the contract may still have to pay for the grants made so far.
Owed == SumFunction([g \in DOMAIN sched |->
          IF sched[g].claimed \/ sched[g].revoked THEN 0 ELSE sched[g].amount])

\* A funded contract stays funded: while its balance covers everything it
\* owes, no claim, batch or revocation of one beneficiary takes the money of
\* another. Exempt are a new grant, for which nothing is set aside, and a batch
\* that pays one grant more than its amount (see SingleClaim).
FundedStaysFunded ==
  [][\/ balance >= Owed => balance' >= Owed'
     \/ cnt' # cnt
     \/ \E g \in DOMAIN sched :
          paid'[g] # paid[g] /\ paid'[g] > sched[g].amount]_vars

-----------------------------------------------------------------------------
\* VESTING_QUICK_REFERENCE.md: a grant is claimed once, "subsequent attempts
\* return AlreadyClaimed", so that no grant pays more than its amount.
SingleClaim == \A g \in DOMAIN sched : paid[g] <= sched[g].amount

\* VESTING_DESIGN.md: a minimum delay "between grant and revocation".
NoSurpriseRevoke ==
  \A g \in DOMAIN sched :
    sched[g].revoked => sched[g].revoke_time >= grantedAt[g] + MinRevokeDelay
=============================================================================
