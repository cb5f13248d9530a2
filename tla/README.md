# LeaseFlow: TLA+ models, checks and proofs

This directory models the Soroban (Rust) contracts of the LeaseFlow protocol. Paths below are
relative to the root of the repository. `PROJECT.json` lists, for machines, what this page says for
readers: components, runs, the map from definitions to source lines, findings, hazards, theorems.

## 1. The system

A Soroban contract runs one call at a time. A call that panics or returns an `Err` is rolled back
with everything it wrote, so the concurrency of this system is the order in which independent
parties (lessor, lessee, roommates, arbitrators, oracles, relayers, admins) get their calls into the
ledger while time passes between them. Nothing happens by itself: an expired grace period, an
expired proposal or an overdue rent is only noticed when somebody calls the function that looks.

| Part | State | Operations | Hard part |
|---|---|---|---|
| `crates/leaseflow_math` | none | calendar, billing dates, proration, refund, deposit split | leap years, clamped days, rounding |
| `contracts/leaseflow` (contract A) | leases, one escrow vault, credit records, next id | initialize, create, activate, pay, fail, check grace, pegged payment, terminate | one vault shared by all leases; late checks; oracle answers; re-initialization |
| `contracts/leaseflow_contracts/src/lib.rs` (contract B), lease instances | leases by id, archive and its index, payers' balances, settings | 30 functions, see section 3 | endings in any order; ids used again; payouts from one pooled balance |
| `velocity_guard.rs` | tracker per lessor | limit, record, portfolio count, pause, DAO resume | rolling window; pause stored by a failing call |
| `expired_proposals.rs` | none of its own | sweep | races the endings; refunds from the pool |
| lib.rs oracle slash and fallback (2754-3405) | whitelist, oracle configs, nonces, hierarchy | whitelist, remove, hierarchy, reset, slash | replays, staleness, writes of failing calls |
| lib.rs asset condition (3702-3852) | condition per lease, rate limit, the same nonces | update | terminates, archives and slashes in one call |
| lib.rs Symbol leases (1187-1510) | older lease records | create, activate, pay, price, end | a second store with its own rules |
| `continuous_billing_module.rs` | leases, cycles, authorizations, treasury, pause | register, cycle, pay, grant, pull, terminate, distribute, pause | late cycles; partial payments; grants used again |
| `timelock_upgrade.rs` | signers, proposals | initialize, signers, propose, approve, execute, cancel | signers removed after approving |
| `oracle_governance.rs` | oracle records, lease-oracle links | whitelist, suspend, blacklist, reactivate, migrate | a lease keeps an oracle that lost its status |
| `collateral_health_monitor.rs` | health records, margin calls, paused lessees | register, check, batch, fulfil, resume, terminate | deadline against fulfilment; swallowed errors; a 32-bit cast |
| `lessee_access_token.rs` | tokens, lists per lessee, revocations | mint, verify, transfer, revoke, renew, follow the lease | tokens outlive and follow their lease |
| `lessor_rights_nft.rs`, `lease_payment_router.rs` | NFTs, holders, locks | mint, transfer, lock, release; two payouts | the payout follows the holder |
| `iot_integration.rs` | one device | register, request, status, query | answers from the list of tokens |
| `storage_cleanup.rs` | tombstones, holds, metrics | prune, hold, release, whitelist | prune against hold |
| `escrow_invariant.rs` | one split of the escrowed funds | lease, yield, dispute, settle, release, slash | rounding; updates that refuse themselves |
| lib.rs yield (3407-3606), `escrow_vault.rs`, `sep12_identity.rs`, `dex_integration.rs`, `derived_access_token.rs` | none that can be reached, see section 5 | | |
| `storage_optimizer.rs`, `storage_metrics.rs`, `formal_verification.rs`, `dust_accounting.rs`, `division_safety.rs`, `early_termination_validation.rs`, `proration.rs`, mocks, tests | | | reports and test harnesses |

Interactions inside contract B: `create_lease_instance` and `execute_early_termination` call
the velocity guard in the same transaction; `terminate_lease`, the early termination, the sweep
and the buyout remove a lease from the store, and the first two and the buyout write the archive;
token, NFT, registry, DEX, yield and oracle contracts are external calls. Contract A shares no
storage with contract B; it calls `leaseflow_math`. The oracles act on the lease store of contract B.
The token, door, router and cleanup files read the leases of contract B and share with it the key
`TenantFlag`, which the contract uses for a flag and the access tokens for a counter; the doors read
the tokens. The timelock, the oracle registry, the collateral monitor, the billing service and the
solvency ledger share no storage with anything else. `lib.rs` declares as modules only
`velocity_guard`, `sep12_identity`, `timelock_upgrade`, `oracle_governance`, `mock_rwa_registry`,
`escrow_vault`, `continuous_billing_module`, `collateral_health_monitor` and `expired_proposals`; the
other files are libraries beside it, modelled as their public functions behave.

What makes the parts correct: money in the vault or the pool is accounted for and paid once; a
lease ends for a reason and is found afterwards; fees and arrears are charged exactly once however
often and however late the checks run; limits count what they say they count; a dispute, a freeze or
a pause holds until it is resolved.

## 2. Modules

| Module | Models |
|---|---|
| `LeaseMath` | `crates/leaseflow_math/src/lib.rs`, as operators |
| `MCLeaseMath` | a walk over days with the reference calendar and the properties of `LeaseMath` |
| `LeaseFlow` | contract A; extends `LeaseMath` |
| `MCLeaseFlow` | its instances for TLC |
| `LeaseFlowProofs` | theorems about `LeaseFlow` |
| `VelocityGuard` | `velocity_guard.rs`, operators on one tracker |
| `LeaseContract` | lease instances of contract B and the sweeper; extends `VelocityGuard` |
| `MCLeaseContract` | its instances for TLC |
| `LeaseContractProofs` | theorems about `LeaseContract` |
| `MCLeaseScenarios` | four scenarios of `LeaseContract`: deposits, rent, exits with swapped deposits, the termination limit |
| `OracleSlash`, `MCOracle` | oracles, slashes and condition reports; extends `LeaseContract`, whose steps interleave |
| `Ledger` | time, ledger sequence and storage maps, for the services |
| `ContinuousBilling` | `continuous_billing_module.rs` |
| `RentTreasury` | abstract: what comes in and goes out of the treasury, grants honoured once |
| `TimelockUpgrade` | `timelock_upgrade.rs` |
| `UpgradeGate` | abstract: when the running code may be replaced |
| `OracleGovernance` | `oracle_governance.rs` |
| `CollateralHealth` | `collateral_health_monitor.rs` |
| `LeaseStore` | what the libraries see of the leases, and the shared key |
| `LesseeAccess` | `lessee_access_token.rs`; extends `LeaseStore` |
| `IoTDevices` | `iot_integration.rs`; extends `LesseeAccess` |
| `LessorRights` | `lessor_rights_nft.rs` and the payouts of `lease_payment_router.rs`; extends `LeaseStore` |
| `StorageCleanup` | `storage_cleanup.rs`; extends `LeaseStore` |
| `EscrowLedger` | `escrow_invariant.rs` |
| `SymbolLeases` | the older leases of `lib.rs` |
| `LeaseLibraries` | access tokens, doors, lessor rights and cleanup on one store of leases, their calls in any order |
| `MCServices` | the services and libraries together, a behaviour exercising one service or one group that shares storage |
| `MCAllServices` | the same with the billing service as one more choice |
| `SumTheorems` | lemmas on the sums of the community modules (`SumFunctionOnSet`), for the books |
| `LeaseMathProofs` | theorems about `LeaseMath` and the properties of `MCLeaseMath` |
| `OracleSlashProofs`, `ContinuousBillingProofs` | theorems about the modules of the same name |
| `ServiceProofs` | theorems about `TimelockUpgrade`, `OracleGovernance`, `CollateralHealth`, `SymbolLeases`, `EscrowLedger`, and about their composition `MCServices` |
| `LeaseLibraryProofs` | theorems about `LeaseLibraries` |

Conventions. A storage key is a variable, an exported function that writes is an action of the same
name, an early return is a guard. A rolled-back call is no step. `require_auth` is the choice of a
caller; every address may sign. Variables marked "observed" record what happened for the properties
and are read by no action. Definitions ending in `_X` are faulty variants of the definition of the
same name; each property is shown to fail when its `_X` takes the place of the original, so none of
them holds by the shape of the model.

### LeaseMath

Both calendars of the crate: the civil-date conversion used for billing dates and the estimate
`get_seconds_in_month` used for proration, whose loops `GoBack`/`GoOn` are recursive functions.
`DaySecs` replaces 86400 to keep numbers small; nothing in the crate depends on its value. The
`None` results on overflow of 64 and 128 bits are outside the bounds.

### LeaseFlow (contract A)

`leases`, `next_lease_id`, `escrow_vault` and `credit_records` are the fields of `ContractData`.
`check_grace_period_expiry` includes `execute_arrears_deduction` and `update_credit_record`, as the
call does, and is not enabled when the deduction would fail. The price oracle is external: it
answers any price with any timestamp. `initialize` may be called again and wipes everything, as in
the code.

### VelocityGuard and LeaseContract (contract B)

The actions, by group: settings (`initialize`, `set_admin`, `set_platform_fee`, `set_kyc_provider`,
`add_allowed_asset`), creation (`create_lease_instance`, `create_lease_with_continuous_billing`),
rent (`pay_lease_instance_rent`, `set_lease_instance_buyout_price`, `set_withdrawal_address`,
`withdraw_rent`, `add_authorized_payer`, `check_tenant_default`), deposit (`settle_deposit`,
`conclude_lease`, `dispute_deposit`, `resolve_dispute`, `mutual_deposit_release`,
`init_mutual_release_fb`), maintenance (four functions), endings (`reclaim`, `terminate_lease`,
`execute_early_termination`, `sweep_expired_proposals`), and the refusal of the limiter.

Facts of the code that the model keeps: creating a lease collects no deposit; `settle_deposit`,
`conclude_lease` and `resolve_dispute` only mark and return, they pay nothing; `withdraw_rent` moves
no token; no function sets the penalty fields of a lease; an id is free again when its lease is
archived; a billing lease takes the ledger sequence as its id and overwrites; billing leases are not
counted in the lessor's portfolio but leave it. The ledger sequence is represented by the ledger
time. `sweep_expired_proposals` is a public function that the contract does not export;
it is modelled as its documentation describes it, callable by any relayer. The two index helpers
`add_to_active_leases_index` and `remove_from_active_leases_index` are called but defined nowhere in
the repository, and no modelled function reads that index; they are left out.

### OracleSlash

Every payload is offered in every state, so a report may be repeated, late or out of order; accepted
ones are kept in `accepted` for the properties. `deposit_slash_unavailable` is the call of an oracle
that is stale or demoted: the writes of `failover` (demotion, activation of the backup, arbitration)
are computed as the code does, and `host_commit` keeps them only when the call answers `Ok`, which it
never does. `update_asset_condition_metadata` includes the termination, the archive and the slash of
a destroyed asset; when the slash fails the whole call fails (`condition_report_refused`, which only
records the report). The security council is never stored, so the veto of a massive slash is
unreachable and a massive slash is executed like any other.

### ContinuousBilling and RentTreasury

`process_payment` and `execute_pull_payment` share `Payment`, as in the code. The reentrancy guard is
a variable: a call that returns an error is rolled back with it. Grants are observed by their lessee
and nonce, while the code stores them by lease and nonce, so one grant may overwrite another. The
refinement maps collected and distributed rent to the treasury's totals and each grant to the number
of pulls it paid for.

### TimelockUpgrade and UpgradeGate

The quorum and the delay of a proposal are the ones given when it is made; approvals of a signer who
was removed still count, as in the code. The gate does not mention signers: it says that a proposal
replaces the code once, after its delay, backed by as many different people as it asked for, unless
withdrawn.

### OracleGovernance, CollateralHealth, EscrowLedger, SymbolLeases

The registry does not move leases when an oracle is suspended; `StaleOracleExplained` says how such a
lease can be told. The collateral monitor uses the constant price of the code; its health factor is
cut to `U32`. Its batch calls the check for each lease and keeps going after an error. A margin call
made by a check is addressed to a generated address, not to the lessee, as in the code. The ledger's
figures are bounded by `I128_MAX` and an update that leaves the range fails. `activate_lease` on a
Symbol lease only puts the status back; the flag `active` decides about payments.

### LeaseStore, LesseeAccess, IoTDevices, LessorRights, StorageCleanup

`LeaseStore` lets the lease contract do whatever module `LeaseContract` allows to a status, in any
order with the library calls. A token that has expired cannot be stored again and so cannot be
revoked; a lease whose tenant was flagged has a flag where the counter of revocations should be, and
a revocation fails. Calls without `require_auth` are open to everybody. All devices share one key.

## 3. Runs

TLC checks every property below exhaustively within the bounds. Deadlock checking is off
where time and the number of leases are bounded, so that every behaviour stops (all but `escrow_dust`).

| Run | What it shows |
|---|---|
| `math_calendar` | the days of 2020 to 2025 and of 2098 to 2104: dates advance one by one and convert back, and the estimated month is that of the day or, when the estimated year is leap, of the day before (`CalendarFaithful`; `math_leap` refutes the claim that it is always that of the day), billing dates stay anchored, ordered and 28 to 31 days apart (`BillingDatesSound`), refunds and splits are bounded (`SharesBounded`) |
| `flow_vault` | two leases, two users, one vault: deposits not yet taken are still in it, every due deduction is covered and nothing is lost on the way to the lessors (`VaultSolvent`), evictions come after the grace period and together with the deduction, arrears match the state and are never forgiven, credit records list exactly the defaults and their debt (`CreditExact`) |
| `flow_terms` | one pegged lease across the end of a month: a refund is bounded by what was paid, a quote outside the circuit breaker never changes a price, and (with fairness) the lease does not stay in its grace period |
| `contract` | four scenarios of the lease instances, a behaviour following one. Deposits of two leases, with billing leases, fees, admin and KYC: types, reasons for archiving, index, and a lease keeps its terms until it leaves into the archive, as an expired undisputed proposal or, the one loss, replaced by a billing lease under its id (`NoLeaseLost`). Rent of two leases: tenant and roommate pay, buy out and withdraw while fees are checked (`RentBooked`, `LateFeesExact`). Exits with swapped deposits and all kinds of penalty: no negative share, nor less than their simulation promised (`ExitRefundSound`). Up to five leases left early around the window with ids used again: exits are on the record (`EarlyExitsTracked`), the limit counts the last 24 hours (`MassExitsBlocked`), pages chain when no id is archived twice |
| `oracle` | two oracles report on the leases of contract B: the accepted reports of an oracle have growing nonces and keep the rate limit of one condition report per hour of the clock, which two reports minutes apart but in different hours pass (`ReportsOnce`); a slashed deposit is slashed again only after a dispute (`SlashedAgainAfterDispute`) |
| `services` | one service per behaviour. The timelock implements `UpgradeGate` (`ImplementsGate`); a lease with an oracle that is not whitelisted can be told by its times (`StaleOracleExplained`); a pause has an unsatisfied margin call of the same lessee behind it, low collateral has a margin call, and no call expires within its grace period (`MarginCallsJust`; afterwards a satisfied call expires too, see `collateral_fulfilled`); the holder's side of every payout reaches whoever holds the NFT then (`HolderPaid`); a held lease is not pruned (`HoldsRespected`); revoked access never comes back and doors open for the lessee only (`AccessFollowsToken`); the ledger conserves what was paid in and refuses updates for known reasons only (`EscrowSound`); a closed Symbol lease takes no payment (`ClosedLeaseTakesNothing`). Billing: the treasury balances and covers all credits (`BooksBalanced`), a grant pays once, within its amount and its time (`GrantHonoured`), the seconds a cycle bills lie within the term and in the past (`BillingStopsAtEnd`), and the service implements `RentTreasury` (`ImplementsTreasury`) |

Runs that are expected to fail, each a disagreement between the code and a statement in the
repository (quoted in `PROJECT.json`):

| Run | Violated property | What happens |
|---|---|---|
| `contract_twice` | `DepositPaidOnce` | a dispute after a mutual release lets the deposit be paid again |
| `collateral_fulfilled` | `TerminatedUnfulfilled` | a margin call answered in time still ends in an emergency termination |
| `asset_destroyed` | `DestroyedReportHonoured` | the report of a destroyed asset archives the lease, then fails to find it, and is rolled back |
| `math_leap` | `MonthLengthInEveryYear` | on the first of a month the estimate still counts the days of the month before, when the estimated year is leap |
| `oracle_failover` | `PrimaryDemotedWhenStale` | a stale report of the primary oracle is refused and demotes nobody |
| `escrow_dust` | `TruncatedSlashLeavesDust` | the slash of the test, 33.33% of 1000, succeeds and records no dust |

Three more configurations refute a statement of the repository and can be run by hand:

| Configuration | Refutes | Statement |
|---|---|---|
| `MCLeaseFlow_release.cfg` | `ClosedDepositReleased`: `terminate_lease` leaves the deposit in the vault | `README.md:30` |
| `MCLeaseContract_pause.cfg` | `PauseHolds`: the pause of the limiter is rolled back with the call that sets it | `VELOCITY_GUARD_PR.md:22` |
| `MCLeaseContract_sweep.cfg` | `ExpiredProposalSwept` (with fairness): a proposal whose deposit never arrived cannot be swept | `expired_proposals.rs:4` |

Smaller disagreements that reading the code shows, without a run of their own: a payment after the
grace period still recovers a lease of contract A as long as nobody has called the check; an early
termination is accepted while the deposit is disputed (it is one step of `contract_twice`); the
cursor of the pagination goes back when an id was archived twice, so pages chain only without reuse
(`PagesChainWithoutReuse`); `simulate_termination` deducts a penalty and the debt, which the real
termination does not, so it promises less (`SimulationConservative`). `continuous_billing_tests.rs:221`
expects a paused service to refuse a cycle, which it does not (`PauseStopsBilling` states it).
The comment of `simulate_termination` (`lib.rs:3933`) says that it mirrors the termination exactly.
The test at `escrow_invariant.rs:652` expects a release of 600 + 600 out of 1000 to succeed, which
`apply_mutual_release` refuses.

Without a place in a run, because they are proved (section 4): `ApprovalsCounted`,
`BlacklistLeftByReentry`, `TokensListed`, `LockedStays`, `BillingTypeOK`, `OracleTypeOK`,
`FailoverRolledBack`, `SlashLeavesNoDust`.

### Bounds

- Two leases of contract A and two users: the vault and the credit records interact pairwise, and a
  lessee with two defaults needs two leases. `MaxTime` allows a delinquency, its grace period, a
  recovery and a second delinquency; `MaxPaid` bounds the rent counters. Users are symmetric.
- The clock of `flow_*` starts at the end of February 1970 so that a refund crosses months of
  different length. Amounts are chosen below and above the rent, the fee and the deposit.
- `contract`: three users (lessor, lessee and a third who is roommate, arbitrator, admin, relayer and
  fee recipient). The scenarios share the constants and differ in the leases they follow
  (`Follows`), the last ledger (`LastTime`) and the leases created (`LeasesCreated`): two for
  deposits, rent and exits, which is enough for an id used again and a record overwritten, and five
  around the window of two time units, with exits inside it, on its edge and outside, and a portfolio
  large enough for the threshold to allow the first; there the lessor leaves (`LessorLeaves`), since
  the limiter does not look at who does. Keeping the scenarios apart is a bound:
  a rent payment between two steps of a dispute, say, is left to the proofs, which know no
  scenarios. A proposal expires two time units after its start. The pool holds more than one deposit, so paying twice is possible.
- `oracle`: two interchangeable oracles, so one is primary and one backup; nonces and timestamps of
  two values make a replay, a late report and a swapped order possible; thresholds of one or two time
  units let an oracle go stale, recover and exceed the 7 days of the backup. One id, used by a lease
  created directly and by one with billing. `oracle_failover` starts later, so that a payload of the
  first ledger is stale.
- `services`: two people who are signers, lessees, holders and renters; two proposals with and without
  delay and quorum; two backed leases with healthy, weak, minimum-free and over-wide collateral and a
  negative top-up, which the code accepts; one lease id opened twice for the libraries (once for the
  doors, `DoorLeases`); amounts of the ledger close to `I128_MAX`. The services share no storage, so
  exercising one at a time loses no interleaving; the groups that do share are run together. In `rights` no tenant is
  flagged (`FlagUnread`): only access tokens look at the flag.
- Billing in `services`: one lease by the second whose term ends before the clock does, and a flat one
  that starts at time 0; two cycles, one grant for each party, payments below, equal to and above a
  cycle. `SwitchedEarly` is a bound: the pause and the switch of the reentrancy guard are back in
  their first position before rent is collected; no payment reads the pause, and the guard is
  free between calls.
- `math_leap` walks a leap year; `escrow_dust` uses the figures of the test, 1000 and 3333 of 10000.
- The days walked include 29 February 2020 and 2024 in one interval; in the other the year 2100, a
  common year divisible by four, and 1 December 2103, a day of a common year whose estimated year is
  leap.

### Fairness

Only two specifications state it. `LeaseFlow!FairSpec`: ledgers keep closing, and somebody keeps
calling the grace check, which anyone may do (`trigger_grace_period_check` exists for that).
`LeaseContract!FairSpec`: ledgers keep closing and some relayer keeps calling the sweep, which pays
for it. Nothing else is fair: no party has to pay, settle or terminate.

## 4. Proofs

TLAPS checks every step. The constants are any values within the named assumptions of the modules:
inputs are integers or naturals, addresses are pairwise distinct from the contract and from `None`.
No bound is used in a proof except that it is a number. Every temporal theorem follows the same
argument: an inductive invariant made of one part per group of variables, one lemma per action or
group of actions that it is kept, and the property from the invariant.

**`SumTheorems`.** `SumFunctionOnSet` unrolls a CHOOSE over subsets; the module proves that its sum
exists for a finite set, does not depend on the order, changes by the difference when one value
changes, grows by the value of a new element, and is a natural number for natural values. The
induction over the size of the set is done by hand, with the least size that fails (`LeastNat`),
since the induction theorems of the library take an operator as a parameter.

**`LeaseMathProofs`.** All days since 1970, any number of cycles, any length of a day. The civil
calendar is put on one line: `FirstOf` is the first day of a month, counted by months, and
`MonthLen` its length. `timestamp_to_ymd` finds a month and a day on that line, `ymd_to_timestamp`
computes the same line, and a day has one date only (`OneDate`); with that the two are inverse
(`DatesInvert`), and the day after a date and the anchor, order and distance of billing dates are
facts about neighbouring months. The loops of `get_seconds_in_month` are recursive functions; for
each one a closed form (`Backed`, `Onward`, `MonthFound`) is shown to satisfy its equation, and to be
the only solution by the smallest argument on which another one would differ. Proved:
`CalendarIsFaithful`, `BillingDatesAreSound`, `SharesAlwaysBounded` (refunds and splits for every
rent, date and amount), `SharesStayBounded`, and `MonthWrongOnlyOnTheFirst`: the month used for
proration is wrong at most on the first of a month.

**`LeaseFlowProofs`.** `IInv` is the type invariant, `AllDunningOK` (a lease owes one rent and the
late fee of that rent exactly while it is in its grace period or after eviction, and it knows since
when), the conservation of the vault and the bound on refunds. Dunning is needed for the eviction:
the amount deducted is computed from balances that only that part describes. Proved from it:
`TypeCorrect`, `EvictionIsSettled`, `ArrearsAlwaysMatch`, `RefundIsBounded`, and
the action properties `SettledStaysFrozen` and `ArrearsAreNeverForgiven`.
`BooksInv` says that the vault's total is the sum of the deposits locked and the lessors' treasury the
sum of what evictions took, each lease giving its part by its state alone (`LockedFor`, `TakenFrom`),
and the same for the debts of each lessee; with it `VaultAlwaysSolvent` (the deposit of a lease in its grace period is one
summand of the vault, so its deduction is covered) and `CreditAlwaysExact`, for any number of leases.
`PricesInv` (a stored price is positive, since another one computes no rent) closes the gap in the
guard of the circuit breaker, which is skipped when the last price is not positive:
`CircuitBreakerAlwaysHolds`.

**`LeaseContractProofs`.** `StoreInv` says of every live lease that it has its type, that its fees are
exact (`ExactFees`), that it has no penalty configured (`NoPenalty`), that it is not both pending
and disputed and that it does not wait for the DAO (`Undisputed`). `NoPenalty` is needed for the
types of the payouts of an early exit, `Undisputed` for the claim that the sweeper takes no disputed
proposal: its code looks at the status only. `ArchiveInv` carries the three reasons for an ending and
the index; `PaidInv` and `VelocityInv` carry what the payouts and the limiter need. `SaveStep` covers
all functions that only rewrite one record and `ArchiveStep` all that archive. Proved from it:
`TypeCorrect`, `LateFeesAlwaysExact`, `ArchiveAlwaysJustified`, `ArchiveAlwaysIndexed`,
`NoLeaseIsLost` (a lease leaves with its terms into the archive or by the sweep; the one exception, named
in the property, is a lease replaced by `create_lease_with_continuous_billing` under its id),
`ExitRefundAlwaysSound` (by `PenaltyCapped`, for every penalty) and
`PagesAlwaysChain`. Two more invariants are inductive on top of it:
- `MatchedInv`: the early exits of the archive can be matched to different entries of the velocity
  records. Every step keeps the entries, and archives an early exit only together with a new entry
  and within the limits (`NextTraced`). So the limiter counts at least the recent exits
  (`RecentExitsCounted`, by an injection), which gives `EarlyExitsAlwaysTracked` and
  `MassExitsAlwaysBlocked`. Counting alone would not be inductive: an id used again overwrites an
  archived exit, so the archive may lose exits that the record still has.
- `RentInv`: the payers of a lease are finitely many and its rent is at most the sum of their
  balances; `RentAlwaysBooked`.

**`OracleSlashProofs`.** The steps of the lease contract interleave with reports, so `OracleInv`
contains the `IInv` of `LeaseContractProofs` and its lemmas are used again; `OracleTypes` gives fees,
archive, pages and exits under slashes too. `SettingInv` says that every stored oracle is active and
no hierarchy is: all writes of a failover are rolled back (`FailoverAlwaysRolledBack`). `ReportInv`
says of each accepted report that the stored nonce of its oracle is at least its own and that its
hour is marked (`Behind`); an accepted report is therefore new (`ReportsAlwaysOnce`). `SlashedInv`
(a slashed deposit is not held) gives `SlashedAgainOnlyAfterDispute`. Of the steps of the oracles only
a slash touches the leases (`OnlySlashesTouchLeases`); it adds a time to the lessor's record within the
limits, archives nothing and leaves the rent alone. So `MatchedInv` and `RentInv` are kept too, and the
promises about steps hold with oracles: `BooksHoldUnderSlashes`, `LimitsHoldUnderSlashes`. The limiter
counts a slash like an early exit, so it refuses slashes as well.

**`ContinuousBillingProofs`.** `BillingInv` has the types, the balance of the treasury, that no cycle
starts after the end of its lease, and that each stored authorization belongs to one grant that has
not been pulled if it is unused (`BackedByGrant`), and two stored ones never to the same grant. The
link is needed because the code finds an authorization by lease and nonce, and a second grant may
overwrite the first. Proved: `BillingTypes`, `TreasuryAlwaysBalanced`, `GrantsAlwaysHonoured`,
`BillingAlwaysStops`, and step by step `TreasuryImplemented`: the service implements `RentTreasury`.
`CreditsInv` bounds the sum of all credits by what was collected, `BooksAlwaysBalanced`.

**`LeaseLibraryProofs`.** One invariant for all libraries over the shared leases, `LibraryInv`: an NFT
or a token is listed for its holder alone, a payment went to the holder of its moment, the metrics
count the holds, tombstones are dated. A token or an NFT is also the one its lease names, without
which revoking through the lease would reach another token. Proved: `LibraryTypes`,
`HolderAlwaysPaid`, `HoldsAlwaysRespected`, `TokensAlwaysListed`, `AccessAlwaysFollows`,
`LockKeepsHolder`.

**`ServiceProofs`.** The services without shared storage: `StaleOraclesExplained` and `BlacklistLeft` (`ServedSoundly`: a lease
has the oracle of its last migration, and one that lost its place did so no earlier than that), `ClosedLeaseStaysClosed`,
`MarginCallsAlwaysJust` (`CollateralInv`: insufficient collateral has a call, a pause has an
unsatisfied call of the same lessee, an expired call is past its grace period, and leases are
registered only after `initialize`, so that a call always has a grace period), `EscrowTypes` and
`EscrowAlwaysSound` (`EscrowInv`: the stored record passed the check and holds what came in and did
not go out), `SlashesLeaveNoDust`.

Timelock: `TimelockInv` says that the approvers of a proposal are a finite set, as
many as it counts, that approved and executed ones had what they needed, and that there is nothing
before the duration is set. The last part is needed because `initialize_timelock` resets the counter
of proposals and would otherwise overwrite one.
Proved: `TimelockTypes`, `ApprovalsTrue`, and `GateImplemented`: the timelock implements
`UpgradeGate` under the mapping of the module.

Composition: `MCServices` lets each behaviour exercise one service while the others stay in their
first state. `EachServiceRuns` shows that such a behaviour is one of every single service, since a
step of one leaves the variables of the others alone; from it follow `ServicesTyped` and
`ServicesKeepPromises`, which has the promises of all services at once. `MCAllServices`, the composition TLC explores, adds the
billing service, whose theorems are in `ContinuousBillingProofs`.

What the proofs taught about the models. The observed total `paid_out` of a slash was the deposit;
for a negative deposit, which creation accepts, nothing is paid, and the total now counts what the
transfers move. `PenaltyWithinDeposit` now asks for a rent that is not negative: nothing rejects a
negative one, and a share of it is a negative penalty.
`CalendarFaithful` used to say that the estimated month is right in common years. That is false from
1 December 2095 on, when the estimate 1970 + days / 365 runs a year ahead; the property now says
which day the code looks up, and the walk covers such a year.

Only model-checked: liveness under fairness (`GracePeriodResolves`), which the prover cannot express,
and the runs that end in a violation, which are counterexamples. Every invariant and every other
action property of the passing runs is a theorem.

## 5. Not modelled, and why

Events, names, hashes, URIs and the time-to-live of storage entries: no modelled function decides on
them. Width of integers: releases are built with overflow checks, so an overflow is a call that does
not happen; the bounds stay far below, except where a cast (`CollateralHealth`) or a checked
arithmetic (`EscrowLedger`) is the point. The reentrancy lock of contract B: the modelled token does
not call back. NFT, usage rights and asset registry calls: external calls that may refuse.

Parts whose state no sequence of calls can reach, so that a model of them would be empty:

- yield deployment: `WhitelistedYieldProtocol` is read and never written;
- the veto of a massive slash: `SecurityCouncil` is read and never written;
- `sep12_identity.rs`: the council that approves providers has no first member;
- `escrow_vault.rs`: payouts ask for a status that nothing sets;
- `dex_integration.rs`: a listing and its market data share one key with two types, and listing aborts;
- `derived_access_token.rs`: no call that mints a derived token succeeds;
- the rest of `lease_payment_router.rs`: it reads its own record under the key of the lease;
- the pause and the DAO resume of `velocity_guard.rs`, except as a refused call.

`storage_optimizer.rs` and `storage_metrics.rs` produce reports nothing reads; `formal_verification.rs`,
`dust_accounting.rs`, `division_safety.rs`, `early_termination_validation.rs` and the mocks are test
code; `proration.rs` repeats the calendar of `leaseflow_math`; `condition_based_slashing.rs` and
`standardized_events.rs` at the root belong to no crate.

## 6. Plan

What can be modelled faithfully is modelled, and every safety property of the runs is proved, those of
the leases with oracles too. What could still be added: abstract specifications for the collateral
monitor and the access tokens, if one of them says more than the invariants do, and the parts of
section 5 once the code makes their state reachable.
