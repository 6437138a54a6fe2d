# Stellara: a verification project

TLA+ models of the parts of Stellara whose correctness depends on the order in
which things happen: contracts that several parties call in any order, and
backend services whose operations interleave, fail half-way or come too late.
Every definition is translated from the source; `PROJECT.json` ("map") gives
the lines each one stands for. Paths below are relative to `src/`.

- [The system](#the-system)
- [Modules](#modules)
- [Runs](#runs)
- [What is proved](#what-is-proved)
- [What the runs found](#what-the-runs-found)
- [Not modelled](#not-modelled)
- [Plan](#plan)

To check: `tlc -config <cfg> <module>` for each run, `tlapm <Module>Proofs.tla`
for the proofs.

## The system

Three programs share this repository: Soroban (and a few Solidity) contracts
under `Contracts/`, a NestJS backend under `Backend/`, a frontend under
`Frontend/`. The contracts hold value and decide; the backend submits
transactions for its users, indexes the ledger and serves everything else from
a database and Redis. The backend runs as three replicas
(`Backend/infrastructure/multi-cloud/kubernetes/shared/backend-deployment.yaml`),
so its services race with copies of themselves.

How the concurrency arises:

- **Contracts.** A call is atomic, calls are serialised by the ledger, a failed
  call leaves no trace. What is hard is the *order of calls* by different
  parties, time windows, and data kept in two places that must agree.
- **Backend, within a process.** JavaScript runs to the next `await`; anything
  may run there. State read before it may be stale after it.
- **Backend, across processes.** Database rows and Redis keys are read, checked
  and written by several replicas, mostly without a transaction or a version
  column; cron ticks run in every replica.

| Component | State | Operations | Hard part | What makes it correct |
|---|---|---|---|---|
| Upgrade governance (`Contracts/shared/src/governance.rs`, used by the trading and messaging contracts) | roles, proposals, a counter, an approvals map | init, propose, approve, execute, reject, cancel | votes, vetoes and the timelock in any order; a count kept beside the map it counts | a quorum of distinct listed approvers decides; vetoes and executions are final; never before the timelock |
| Academy vesting (`Contracts/contracts/academy/src/vesting.rs`) | schedules, a counter, an admin; the token balance | init, grant, claim, batch claim, revoke | claim against batch against revoke; the formula's edges; one balance for all grants | a grant is paid once, in one call, inside its curve; flags match payments |
| Circuit breaker (`Backend/src/circuit-breaker`) | one runtime record per circuit | execute, setOverride, reset | calls settle in a state other than the one that admitted them; slots | fields agree, no slot leaks, a healthy dependency is used again |
| Transaction queue (`Backend/src/transaction-queue`) | items and nonce states (database), the gateway's table of transactions (memory of one replica) | enqueue, cancel, retryNow, two cron ticks (process, poll) | three replicas over the same rows, no row locks; a crash between submission and its record; stuck items resubmitted while polled | a confirmed item really is; a row's hash and nonce belong together; retries reuse the nonce; no item is forgotten |
| Distributed lock (`Backend/src/redis/distributed-lock.service.ts`) | Redis keys with a TTL, held locks per asynchronous context | acquire one or several, renew, release, reenter | expiry against renewal against release; nested calls; lock order | one holder while its lease is renewed in time; release only what one holds; no lock cycle |
| Webhooks (`Backend/src/webhooks`) | subscriptions, delivery rows; the circuit `external-webhooks` | publish, retry, cron task, update, delete | overlapping ticks on one row; the circuit between them and the endpoint; a row deleted mid-delivery | delivered only if accepted; given up only after all attempts; every delivery ends |
| Multisig treasury (`Contracts/contracts/MultisigTreasury.sol`) | transactions, confirmations, spending windows, frozen flag | submit, confirm, revoke, execute, freeze, unfreeze, update limits | windows reset lazily; limits and threshold changed at any time; how a freeze ends | limits per window; a quorum of distinct owners; frozen means frozen, and can end |
| Backend multisig (`Backend/src/multisig`) | proposal rows with an envelope and a signature count | create, sign, submit, hourly expiry | concurrent signatures on one row; submission against expiry | signatures counted are in the envelope; submitted once |
| Cross-chain swap (`Backend/src/cross-chain-swap`) | swap rows | initiate, claim, refund | claim and refund at the timeout | never both claimed and refunded |
| Trading contract (`Contracts/contracts/trading`) | pairs, trades, usage windows, pause flag | trade, batch trade, pause, rate-limit settings | windows keyed by index; batches; settings changed inside a window | no window spends more than its limit |
| Region failover (`Backend/src/failover`) | region health, the active region | health tick, failover, recovery | a forced failover against the tick | one active region, a healthy one if any |
| Draining (`Backend/src/lifecycle`) | in-flight count, state | begin, end, shutdown | shutdown against arriving requests | all requests leave or the deadline does |
| Others | see `PROJECT.json` | | | |

Interactions: trading and messaging call the governance library inside their
own entry points and share its roles; webhooks and geolocation call out through
the circuit breaker; the transaction queue serves the multisig service and the
order and supply-chain endpoints through a gateway to the network; session calls
run under distributed locks (`@distributedlock` in
`Backend/src/sessions/session.service.ts`); the backend indexes the contracts'
events.

`PROJECT.json` ("hazards") lists what in this code a test would hardly reach,
each at its line, and the property that covers it. Those of components without
a module yet say so.

## Modules

| Module | Models |
|---|---|
| `Soroban` | `Map` and `Vec` of the Soroban SDK, as the contracts use them |
| `UpgradeBallot` | what upgrade governance promises, without its bookkeeping |
| `Governance` | `governance.rs`, with the `init` of the trading contract |
| `GovernanceProofs` | its theorems |
| `AcademyVesting` | `vesting.rs` |
| `AcademyVestingProofs` | its theorems |
| `MultisigTreasury` | `MultisigTreasury.sol` |
| `MultisigTreasuryProofs` | its theorems |
| `CircuitBreaker` | `circuit-breaker.service.ts` |
| `CircuitBreakerProofs` | its theorems |
| `TransactionGateway` | `transaction-gateway.service.ts`, in its simulation mode |
| `TransactionQueue` | `transaction-queue.service.ts`, over the gateway |
| `TransactionQueueProofs` | its theorems |
| `LockPromise` | what the lock service promises to the code under it |
| `DistributedLock` | `distributed-lock.service.ts` |
| `DistributedLockProofs`, `LockPromiseProofs` | their theorems, the refinement included |
| `Webhooks` | `webhooks.service.ts`, composed with `CircuitBreaker` |
| `WebhooksProofs` | its theorems |
| `MCGovernance`, `MCAcademyVesting`, `MCMultisigTreasury`, `MCCircuitBreaker`, `MCTransactionQueue`, `MCDistributedLock`, `MCWebhooks` | small instances for TLC |

Some modules hold, next to a definition, the same one with a plausible bug
(`..._Bug`): `PROJECT.json` ("mutants") names the property that notices it.
Nothing in the specification uses them.

### Governance

`roles` is the `roles` map in storage (three address sets), `props` and
`propCnt` the proposals and their counter, `approvals` the `approvals` map as
(proposal, approver) pairs, `now` the ledger's timestamp. One action per entry
point; `require_auth` is the choice of the caller, and the guard is the
conjunction of the function's early returns. The role order (an Admin passes
every check, an address without a role passes as an Executor; `require_role` at
line 73) is `HasRole`. The payload of a proposal
(code hash, description, target, creation time) decides nothing and is left out.
`execute_proposal` only flips the proposal's flag: the code replacement it
stands for is not in this repository.

`UpgradeBallot` says what a voter may rely on: a ballot opens with a quorum and
a deadline; listed people vote at most once; it is enacted once, with its quorum
of *distinct* votes, not before its time, and never after it was killed. It
knows no status, count or role. `KeepsPromise` is the refinement: a proposal's
outcome is computed from its status, its votes from the approvals map, and every
action of `Governance` is a step of the ballot or a stutter.

### AcademyVesting

`sched`, `cnt` and `admin` are the storage keys of the same names, `balance` the
contract's holding of the reward token. `grantedAt` and `paid` are its event log
(the time of each `GrantEvent`, the sum of the `ClaimEvent`s of each grant): the
properties compare what the contract says about itself with what it did.
`BatchClaim` keeps the code's two passes: every element is checked against the
schedules as they were before the call, then all flags are written. A `u64`
addition that overflows panics, so such a schedule's claims are disabled
(`Overflows`, with `MaxU64` small in the instance).

### MultisigTreasury

`transactions` and `isConfirmed` are the storage of those names (index 0 of the
array is 1 here); `limits` holds `dailyLimit`, `weeklyLimit` and `threshold`;
`day` and `week` are the two spending windows. `spentOnDay` and `spentInWeek` are
what the `ExecuteTransaction` events add up to by the calendar: the contract
keeps only the latest window of each kind and resets it when it next spends. A
transaction's target and data are reduced to whether it is the call of
`unfreezeInternal`. `executeTransaction` writes all it has to write before it
calls the recipient, so what a recipient does by calling back is what it could
do in a call right after; there is one action for both. An unfreeze that carries
money reverts (the function is not payable).

### CircuitBreaker

`circuit` is the `CircuitRuntime` of one circuit, `calls` says where each caller
of `execute` is. `execute` runs synchronously up to `await action()` and again
from it, so a call is an admission (`AdmitFreely` or `AdmitProbe`) and, later,
`Succeed` or `Fail`, each of which ends with the `finally` block. Timestamps are
ages that `Tick` increments up to the largest that matters, which makes the
state space finite without a bound on time (`Date.now()` is taken never to go
back). Rejected calls change only the
statistics, which are not modelled.

### TransactionQueue and TransactionGateway

`items` are the rows, `nextNonce` the signers' nonce states, `worker` and `poller`
the two cron ticks of every replica, `cancelling` the cancel requests between
their read and their write, `txs` the gateway's tables. `recorded` and
`abandoned` are history: which transactions' hashes reached a row, and which
items had their worker cut off.

Neither tick holds a lock or a transaction, so there is one action per stretch
between two awaits: a worker reads the row (`ReadFresh`), marks it, allocates a
nonce, makes the signer's nonce row if there is none, submits, records, advances
the nonce; a rejection goes through `RecoverRead` and `RecoverWrite` when it is
about the nonce, and `RecordFailure`. `recoverNonceState` reads and writes in two
steps. What is thrown outside the `try`, or out of its `catch`
(`DbErrorOutsideTry`; `LoseCreateRace`, for the `create` of a nonce row that
somebody else has made since it was read: in `allocateNonce` at :601, and in
`recoverNonceState` at :644, which a client's own nonce reaches without any row),
ends the item or the whole tick, according to whether it was processed in a batch,
and leaves the row as it is. A database error after the submission is caught, and
classified like a gateway's: a message that names the nonce table goes through
`recoverNonceState` too (`DbErrorClass`). The poller works through copies of the rows it read
first (`poller[r]`), which is how its answers come late.

The gateway keeps its transactions in the memory of one replica. A replica that
is asked about another one's transaction, or about one from before its restart,
says FAILED, and the item is submitted again: `home` says whose table has a
transaction. A transaction confirms after a number of status queries.

### DistributedLock and LockPromise

`redis` has the owner of every key and what is left of its time to live, `held` is
the table `heldLocks` of every context, `frames` its nested calls of
``executeWithLock`, each with the keys it has and has yet to get. `SET NX PX` and
its answer are two steps (`SetKey`, `EnterTable`); a key of the table is counted
once more (`Reenter`); a call waits at most `Timeout`, then releases what it has.
`Renew` is the timer. Time is discrete. A *healthy* context's Redis calls succeed
and come at most `MaxDelay` late; any other one may be late without bound or stop,
its keys expire under it, and any of its Redis calls may fail (`CallFails`: in a
re-entry after the count was raised, in the wait for a key, after a `SET` that was
done, in a release after its timer was cleared), each leaving behind what the code
leaves.

`LockPromise` knows neither tokens, times nor counts. It has the holder of every
lock and the locks each reliable client's operations run under (`inside`): a free
lock is taken by a client that holds no later one, an operation starts under locks
it has, and while it runs they are neither released nor lost. `KeepsPromise` is
the refinement: the holder is who has the key in Redis *and* in its table, the
operations are the frames that run. That no two reliable clients run under one
lock (`Exclusion`) is proved of the promise, and so of the service.

### Webhooks

`subscriptions` and `rows` are the database, `worker` an execution of
`publishEvent`, `retryDelivery` or the cron task: it reads a row, posts, and
writes what it made of the row it had read. Two of them may be on the same
delivery. The circuit between a worker and its endpoint is the module
`CircuitBreaker` (`Breaker == INSTANCE ...`, a worker is its own call): `Send` is an
admission, `Rejected` what `execute` refuses, `Answered` and `NoAnswer` how a call
settles. Any answer is a success for the circuit, only a 2xx delivers.
`DatabaseFails` is an error of one call of the database: it ends that worker, with
its row as it was (or, of the update to DELIVERED, makes it a failed try), while
the circuit and the other workers go on. `Crash` restarts the process, and with it
the circuit. `tries` and `accepted` are
history: the attempts made, and the deliveries answered with a 2xx.

## Runs

| Run | Instance | Shows |
|---|---|---|
| `governance` | 3 accounts, 2 proposals, approver lists of one, two and a repeated signer, delays 0 and 1, time to 2 | the safety properties and the refinement of `UpgradeBallot` |
| `governance_solo` | the same | that one admin can upgrade alone (violation) |
| `vesting` | 2 accounts, 2 grants, 6 kinds of terms, batches of up to 3 ids with repetitions, time to 4, `MaxU64` 5 | flags against payments, the curve, funding |
| `vesting_single_claim` | the same | that a batch pays a repeated grant twice (violation) |
| `vesting_surprise_revoke` | the same | that a grant can be revoked at once (violation) |
| `treasury` | 3 owners of whom 2 are required, 2 transactions of 0 to 2, two settings of the limits, days of 1 and weeks of 2 up to time 3, balance to 3 | confirmations, windows against the spending, limits, quorum |
| `treasury_unfreeze` | the same, balance and time to 1 | that a confirmed unfreeze cannot end a freeze (violation) |
| `circuit_breaker` | 4 calls, threshold 3 in a window of 2, timeout 3, at most 2 probes, 3 successes to close | the safety properties and recovery |
| `queue_replicas` | one item, two replicas, one retry, one trouble (operator, error, slow confirmation or crash), a client's nonce or none, 2 polls to confirm | what rows say about transactions, who leaves a row in PROCESSING, who may take up a cancelled item |
| `queue_one_replica` | two items of one signer, one replica, two retries, two troubles | nonces per item and across items, and that every item settles |
| `lock` | a healthy context that nests calls two deep and one that may be late, fail or stop; two keys; time to live 4, timer 1, delays of 1, a wait of 1 | the lease, the counts, the order, the refinement of `LockPromise`, and that keys come back |
| `webhooks` | one delivery, two workers, 3 attempts, two troubles (retry, database error, crash, paused or deleted subscription, operator of the circuit); a circuit that opens at the first failure | what DELIVERED and FAILED mean, and that every delivery ends |

Why the bounds are enough:

- *Governance.* Two proposals are what it takes for one to disturb another
  (ids, approvals keyed by id). Three accounts give a listed approver, another
  one, and one who is only admin or executor. The lists contain a repeated
  address because thresholds are compared with the list's length. `MaxDelay` and
  `MaxTime` let a timelock be pending, just over, and long over.
- *Vesting.* Two grants of two beneficiaries compete for one balance that is
  smaller than the sum of both. The terms contain a proper line, a cliff equal to
  the duration, a duration of zero, a schedule that overflows, and two that are
  refused. Batches exceed `MaxBatch` by one.
- *Treasury.* Two transactions share one day, or one week but not one day, or
  neither. One setting has a weekly limit below two full days and values on both
  sides of its threshold, the other has no limits and counts every payment as
  large. Two of three owners are required, so a quorum can lose an owner and be
  made up by another.
- *Circuit breaker.* Four calls: two probes hold all slots while a third is
  rejected and a fourth settles late. The success threshold is above the slot
  limit, so the allowance reaches its cap and probes must be repeated.

- *Queue.* Everything that can go wrong between two replicas goes wrong on one
  row: both work on it, both poll it, one is late with a copy. The second
  instance is for what two items do to one signer's nonce, and for the order
  of retries. `MaxTrouble` bounds what comes from outside; one such event with
  two replicas, two with one replica, let each of them meet every step of a tick,
  and two of them meet each other. Three polls in the source are two here: not
  confirmed yet, and confirmed. A client's nonce and no nonce row yet are what it
  takes to lose the race at :644. `Errors` has a class that does not touch the nonce
  and one that sets it back; the proofs are for any of them.
- *Lock.* Two keys is the least with an order. The healthy context asks for the
  second key alone and for both, so it may ask in the wrong order, reenter, and
  be made to wait by a holder whose lease runs out. A time to live of 4 against a
  timer of 1 and delays of 1 is the tightest that `LeaseAssumption` admits.
- *Webhooks.* The overlap of ticks is on one row; a second delivery adds only the
  order within a batch. Three attempts leave room for a worker that writes an
  old number over a newer one. The thresholds of 1 make the circuit open, probe
  and close again within the attempts of one delivery.

`CHECK_DEADLOCK FALSE` in the contract runs: their counters and time are
bounded, so the instance stops when it has used them up. In the runs of the queue
and of webhooks all items may be done. The circuit breaker and the lock never
stop.

**Fairness.** `MultisigTreasury` states it for the violation only: somebody tries
again and again to execute a fully confirmed unfreeze. `CircuitBreaker`: (1) A call that awaits its action
settles: the webhook circuit's `fetch` carries `AbortSignal.timeout`
(`Backend/src/webhooks/webhooks.service.ts:320`). The geolocation circuit's HTTP
call has no timeout, so for it this is an assumption about the network: a probe
that never settles keeps its slot, and the circuit may reject calls until an
operator resets it. (2) Some client keeps calling: a circuit leaves `OPEN` only
when called. (3) Time passes. Nothing is assumed about success: `Recovers`
holds for runs in which calls fail only finitely often and operators stop
intervening.

`TransactionQueue` and `Webhooks`: a tick that was started goes on (the event loop;
the calls it awaits have time-outs), and an item that is due again and again is
selected some time (strong fairness for each item: ticks recur for ever and its
back-off ends). For webhooks the source justifies it: the cron task takes the 50
rows that are due longest. The queue's query takes 75 rows in no order and then 5 of
a signer by priority, so there it is an assumption: no more than 75 rows are due
at once, exhausted ones included, and no signer's urgent items keep coming.
Nothing is assumed about success; trouble is bounded, so it ends.
`DistributedLock`: time passes, a healthy context's event loop runs on and its
timers fire, and every operation ends (strong fairness for `EndOperation` at each
depth of nesting, since an operation may make any finite number of nested calls).

## What is proved

For every value of the constants; the assumptions are the named `ASSUME`s of
each module (types of the constants, and for `CircuitBreaker` that the settings
are at least one, which `mergeConfig` ensures). A theorem that needs more says so
in its statement (`ASSUME NoRepeats`, one replica, finitely many items).

Every safety and action property that a run checks is stated by a theorem. Beside
them are theorems that no run states: what a finding needs in order to happen, and
what liveness rests on.

**Governance.** `TypeCorrect`, `EvidenceHolds`, `ThresholdHolds`,
`DecisionsFinal`, `TermsFixed`, `Refinement`. The inductive invariant is
`TypeOK /\ QuietBeforeInit /\ ApprovalEvidence /\ ThresholdDecides`. The status
of a proposal is decided by the *stored count*, the promise speaks of *distinct
approvers on record*: `ApprovalEvidence` ties the two and is what makes
`ThresholdDecides` inductive. `QuietBeforeInit` says that `init` finds no
proposals, without which it could take roles away under them. The refinement
takes the invariant for granted and maps `ProposeUpgrade` to opening,
`ApproveProposal` to a vote, `ExecuteProposal` to enactment, rejection and
cancellation to a kill (or to a stutter, for a proposal already dead).

`NoSingleActorAboveOne` bounds the finding of `governance_solo`: an executed
proposal whose threshold is two or more has an approver other than its proposer.
`RepetitionsDoNotHelp`: `propose_upgrade` accepts a list with repetitions, or of
addresses without the role, but a proposal with fewer eligible approvers than its
threshold is never approved.

**Vesting.** `TypeCorrect`, `FlagsTellTheTruth`, `CurveCorrect`, `OneCallPays`,
`FundedHolds`.
The inductive invariant is `TypeOK /\ QuietBeforeInit /\ PaidMatchesFlags`. That
a claim pays something, so that the flag and the payment agree, needs the range
of `calculate_vested_amount`; `VestedInRange` and `VestedGrows` prove it from
three lemmas about integer division, and give `VestingCurve` for every schedule
with `cliff <= duration`. For a batch it also needs that every element occurs
at least once.

`FundedHolds` (a funded contract stays funded) is about a sum over all grants. The
fold behind `SumFunctionOnSet` is recursive, and what holds of it for every finite
set would be shown by induction; instead each lemma about it (`SumsExists`,
`SumsUnique`, `SumRemove`, `SumSame`, `SumBelow`, `SumByValue`) takes a smallest
subset for which it fails, which exists by the well-foundedness of strict
inclusion, and looks at that subset without its chosen element. With them,
`OwedDrops` says that a step that settles some grants lowers what is owed by at
least what it pays, and the total a batch computes is what its grants are due.

The other theorems delimit what the two violations need. `SingleClaimWithoutRepeats`
and `FundedWithoutRepeats`: if no batch names a grant twice, no grant pays more than
its amount, and only a new grant can leave a funded contract short.
`NoSurpriseUnlessBackdated`: while every grant started no earlier than it was made,
none is revoked within the delay. `OverflowNeverPays`: a grant whose end does not fit
`u64` never pays anything.

**Treasury.** `TypeCorrect`, `CountHolds`, `WindowsHold`, `SpendingLimited`,
`QuorumHolds`. The inductive invariant is
`TypeOK /\ ConfirmationsCounted /\ WindowsMatchLog`. The limits are checked on the
windows, the promise is about the log: `WindowsMatchLog` ties them, and its
second half (nothing was spent after a window's period) is what makes it
inductive when a window of any age is rolled forward. `TypeOK` says that a window
never starts in the future, which needs that period numbers grow with time.
`ConfirmationsCounted` does for the quorum what `ApprovalEvidence` does in
governance.

`FreezeStops`, `FreezeIsFinal` and `UnfreezeImpossible` are the finding of
`treasury_unfreeze` for all owners, limits and transactions: while frozen, nothing is
confirmed, revoked or spent; a freeze is for ever; and a behaviour that ever reaches
a frozen treasury with a confirmed unfreeze (the run shows one) refutes the
documented way out under any fairness.

**Circuit breaker.** `TypeCorrect`, `FieldsConsistent`, `NoSlotLeaks`,
`LateResultsIgnored`. The inductive invariant is the conjunction
`TypeOK /\ FieldsAgree /\ SlotsAreHeld`: that the counters are at rest outside a
half-open period is what lets the next one start with no slot taken. The service's
private methods have one lemma each (a trip, a close, a trim, a success, a
failure, a release leaves a sound record sound), and the actions follow from
them.

`Recovers` itself stays with TLC, but its two safety halves are proved: `NeverWedged`
(a half-open circuit without a running probe has room for one, so the slots never run
out for good) and `SuccessesAdvance` (during a half-open period only a failure or an
operator loses a success, and every success counts). What is left is fairness.

**Transaction queue.** `TypeCorrect`, `HashNonceHolds`, `ConfirmedIsTrueHolds`,
`ProcessingHasWorkerHolds`, `CancelledStaysHolds`, for any number of replicas,
items and signers and any amount of trouble (`GatewayAssumption`,
`QueueAssumption`: types, and that `None` is no number). The inductive invariant
`IInv` rests on one fact about the gateway, `TableGrows`: transactions are only
added, and what they were submitted for never changes. So what a row, a worker or
a poller's old copy says of a transaction stays true however late it is used;
`IInv` says it of all three. The others follow by steps:
`ConfirmedIsTrue` since only a poller confirms and only what its replica's table
says, `ProcessingHasWorker` since every way off an item goes through a write of the
row, `advance`, or one of the three cut-offs that `abandoned` records: a crash, a
database error outside the `try`, and the lost race to create a nonce row, in
`allocateNonce` or in `recoverNonceState`.

`RecordedShareNonceHolds` and `FreshNoncesDistinctHolds` are for *one* replica
(`Replicas = {r}`; with two both are false). The first needs that a worker's copy
of the row still has the row's nonce (`KnownNonce`): a poller or an operator never
changes it. The second also assumes that clients choose no nonces. Its invariant
is that of a counter whose increment comes late: while nothing went wrong with a
signer's items, every nonce in use is below the next one, except that of the
transaction just submitted (`Below`), and the worker's new nonce *is* the next
one until it has advanced it (`TakesNext`).

`TickEnds` gives a worker a measure, ten for each item left in its batch and the
stage it has reached with the present one, which every step of the worker lowers and
no other step changes: a tick ends, whatever befalls it. `Settles` needs that, and
the fairness of the scheduler.

**Distributed lock.** `TypeCorrect`, `LeaseHeldHolds`, `MutualExclusionHolds`,
`HoldsMatchFramesHolds`, `WaitsInOrderHolds`, `Refinement`, from `LockAssumption` and `LeaseAssumption`:
the wait for a renewal (a third of one time to live, at least a second) and two
delays are shorter than any time to live in use. The inductive invariant
says of each lock of a healthy context that its time left exceeds the time until
its timer fires by more than a delay, which is what makes `Renew` come in time;
and that hold counts count frames, so that a nested call does not release what an
outer one needs. `LockPromiseProofs` proves `ExclusionHolds` of the promise.

`WaitsInOrder` is a property of one context. `NoDeadlockHolds` draws the conclusion it
is for: of any finite set of healthy contexts, one waits for no key that a member of
the set has in Redis. It takes the member whose awaited key is last, and needs to know
that what a context has in Redis it has in its table, or is just entering there. That
does not follow from `IInv`; `OwnedIsHeld` is an inductive invariant of its own, which
also gives `NothingLeftBehindHolds`: after a context's last call no key of it is left
in Redis.

**Webhooks.** `TypeCorrect`, `DeliveredWasAcceptedHolds` and
`GivenUpAfterAllTriesHolds`, for any finite number of workers, any deliveries and any
settings of the circuit (`WebhooksAssumption`; `CircuitAssumption`: the bounds
`mergeConfig` clamps to). The invariant says of the number a worker is about to
write that so many attempts were made: with it a row never counts more than
`tries`, although rows may count fewer. `TypeCorrect` says that a worker has a call
in the circuit exactly while it awaits its endpoint. That needs the circuit's own
theorems, instantiated with the workers as its calls: every step here is a step of
the circuit, leaves it alone, or restarts it. The module holds two instances of
`CircuitBreaker`, its own and the one inside the instantiated proofs; that they
agree is shown first. `TickEnds` is the queue's measure for the workers here.

Only model-checked: liveness, which is out of the prover's reach, as it needs
`ENABLED` (`Recovers`, `Settles` of the queue and of webhooks, `GivenBack`); and the
violations, of which one (the freeze) is also proved, and three have a theorem that
says what they need (the solo upgrade, the double claim, the surprise revocation).

## What the runs found

- `governance_solo`: `UPGRADEABILITY.md:107` promises that no single actor can
  execute an upgrade. An admin can propose with itself as sole approver and a
  threshold of one, approve, and execute.
- `vesting_single_claim`: a `batch_claim` that names a grant twice pays it twice
  (`VESTING_QUICK_REFERENCE.md:275`: later attempts return `AlreadyClaimed`).
- `vesting_surprise_revoke`: the revocation delay runs from `start_time`, which
  may lie in the past when the grant is made (`VESTING_DESIGN.md:138`).
- `treasury_unfreeze`: `executeTransaction` is `notFrozen`, so the transaction that
  is to unfreeze the treasury (`README_TREASURY.md:26`, and the test at
  `test/MultisigTreasury.test.js:66`) cannot run, however well confirmed.

Disagreements too plain for a run:

- `GOVERNANCE_GUIDE.md:411` says the executor "must match executor role": an
  address without a role counts as an executor, so `execute_proposal` accepts
  any address.
- `UPGRADEABILITY.md:58` lets an approver reject an approved proposal:
  `reject_proposal` accepts pending ones only.
- `UPGRADEABILITY.md:239` lets the timelock begin "counting from approval". In the
  code, as in lines 143 and 290 of the same file, it counts from the proposal.
- `UPGRADEABILITY.md:163` speaks of a minimum timelock of one hour: any delay is
  accepted, zero included.
- `VESTING_QUICK_REFERENCE.md` says vested tokens remain available indefinitely:
  `revoke` takes back what has vested and was not claimed.
- `README_TREASURY.md:8` promises M-of-N approvals for large withdrawals; any
  single owner can call `updateLimits` and raise the threshold that makes a
  withdrawal large. `QuorumPays` speaks of the threshold in force.
- `MultisigTreasury.sol:100` slices the `bytes` of a storage struct
  (`txn.data[:4]`), which Solidity offers for calldata only; the model takes the
  evident meaning.
- `test/MultisigTreasury.test.js:44` expects a payment of 3 with the daily limit
  at 1.

Behaviour that no document or test speaks of, met while modelling; the
properties are stated so that they hold in spite of it.

Transaction queue:

- `advanceNonceState` (:619) sets `nextNonce` to just after the nonce used, also
  after a resubmission that reused an old one: the signer's next item gets a
  nonce that is taken. `FreshNoncesDistinct` therefore speaks of signers without
  resubmissions.
- With two replicas an item can be submitted with two nonces, and executed twice:
  `allocateNonce` reserves nothing and the row is not claimed atomically.
- The loser of the race to create a signer's nonce row (:601, or :644 after the
  rejection of a client's own nonce, against another replica or the
  `getSignerNonceState` endpoint) leaves its item in `PROCESSING`, which nothing
  selects; so does a crash.
- Items at their limit of retries are filtered out (:229) before the code that
  would make them `DEAD_LETTER`; with one replica practically no item gets there.
  `retryNow` does not reset the count, so on such an item it has no effect, and
  exhausted `FAILED` rows keep taking places in the batch. `maxRetries` counts
  attempts, not retries.
- `cancel` (:172) and a tick that has read the row may both succeed: the
  transaction goes out and the row says either.

Distributed lock:

- The timer's interval is at least one second: a lock with `ttlMs` of a second or
  less is never renewed in time. A nested call with a shorter `ttlMs` than the outer
  one's timer expects breaks `LeaseAssumption` likewise, as `refreshLock` sets the
  shorter time to live and the timer keeps its interval.
- If writing the metric after a successful `SET` throws, the lock stays in the table
  with its timer running, and is renewed until the process ends (`EnterFails`). If the
  script of a release fails, the lock stays in the table without a timer
  (`ReleaseFails`): a later call of the same context re-enters it, and nothing
  renews it any more.

Webhooks:

- Overlapping ticks lose counts of attempts, and may write `RETRYING` over
  `DELIVERED`: the endpoint then gets the event again.
- Attempts that the open circuit rejects count as attempts; an answer of 5xx counts
  as a success of the circuit.
- A crash between the POST and the write of the row delivers again.
- A row deleted with its subscription in the middle of a delivery ends the tick.

## Not modelled

`PROJECT.json` lists every component with its status. In short: the components
of the plan below are not modelled *yet*; messaging, rewards, staking, identity
and reputation contracts are sequential records with one writer; the cross-chain
router contract is not part of the workspace build; the feature modules of the
backend are request handlers over a database; frontend, scanner and deployment
files hold no state of the kind TLC checks.

Left out of the modelled components: the payload of proposals; the token's own
behaviour (a transfer either happens or undoes the call); the `u128` product in
the vesting formula, far above any amount; the circuit breaker's statistics and
its per-call configuration; payments of the treasury to itself, and recipients
that revert (their executions leave no trace); the queue's fees, priorities,
batch sizes and back-off, and its gateway's mode against a live network; parallel
branches of one asynchronous context, which share a table of locks; the payloads,
signatures and filters of webhooks, and `sendTestWebhook`, which publishes like any
other event.

Sessions run under the lock service and would be composed with `LockPromise`;
`validateAccessSession` reads a session and writes it back outside the lock. Two
contracts keep windows or caches whose settings change under them (the trading
contract's usage counters at `Contracts/contracts/trading/src/lib.rs:200`, the
collateral ratios of synthetic assets); they are in the plan, not in a module.
The regulatory-arbitrage, predictive-maintenance, data-retention and time-lock
services, the largest files of the backend, are computations over records in the
memory of one process; apart from data retention's jobs they have no protocol to
check.

## Plan

In order; each entry is a module, its instance and its run, then its proofs.

1. `Governance` with `UpgradeBallot`: **done**, proved.
2. `AcademyVesting`: **done**, proved.
3. `CircuitBreaker`: **done**, proved except liveness.
4. `TransactionQueue` with `TransactionGateway`: **done**, proved except liveness.
5. `MultisigTreasury`: **done**, proved.
6. `DistributedLock` with `LockPromise`: **done**, proved except liveness.
7. `Webhooks` over `CircuitBreaker`: **done**, proved except liveness.
8. `Sessions` over `LockPromise`: refresh, validation, revocation and the limit of
   sessions per user, of which only some take the lock.
9. `CrossChainSwap` and `BackendMultisig`: check and write across an `await`. Never
   both claimed and refunded; every counted signature in the envelope.
10. `TradingRateLimit`: windows keyed by their index against a history of calls,
    with settings changed inside a window.
11. Failover, draining, data retention's jobs, commit-reveal and liquidation.

Theorems to come: `RecordedShareNonce` and `FreshNoncesDistinct` are proved for one
replica; under which assumptions about the ticks they hold for several is open. The
modules to come bring theirs.
