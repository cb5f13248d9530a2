--------------------------- MODULE LeaseContract ---------------------------
(***************************************************************************)
(* The lease instances of contracts/leaseflow_contracts/src/lib.rs, from   *)
(* creation to the archive, with the sweeper of expired_proposals.rs and   *)
(* the termination limiter of velocity_guard.rs.                           *)
(*                                                                         *)
(* Each storage key of the contract that these functions use is a          *)
(* variable, and each exported function that writes one is an action.  A   *)
(* call that returns an Err or panics is rolled back with everything it    *)
(* wrote, so an error path is an action that is not enabled; the refusal   *)
(* of the limiter is the one error path that is kept, for what it was      *)
(* meant to leave behind.  require_auth is modelled by choosing, as the    *)
(* caller, an address that signs; every address may sign.                  *)
(*                                                                         *)
(* All leases and the platform fee use one token.  Left out: names, URIs,  *)
(* hashes, pets, equity and other data no function here decides on, the    *)
(* NFT and asset registry calls, the oracle slash and the yield functions. *)
(* Definitions whose name ends in _X are wrong variants, as in             *)
(* VelocityGuard.                                                          *)
(***************************************************************************)
EXTENDS VelocityGuard, FiniteSetsExt

CONSTANTS
    Users, Contract,    \* addresses that sign, and the contract's own
    None,
    Ids,                \* lease ids offered to create_lease_instance
    CreateParams,       \* parameters offered to create_lease_instance
    BillingParams,      \* parameters offered to create_lease_with_continuous_billing
    DexOutputs,         \* what a DEX may return for a swapped deposit
    Payments, BuyoutPrices, Deductions,   \* amounts offered to the calls
    Splits,             \* <<return_amount, slash_amount>> offered to a mutual release
    Roommates, Wallets, Inspectors, Admins,   \* addresses offered to the setters
    Settlers, Reporters,   \* who settles or disputes deposits, who reports damage
    FeeConfigs,         \* [amount, recipient] offered to set_platform_fee
    KycProviders,       \* a provider is the set of users it verifies
    InitialBalance,     \* tokens of every address at the start
    INIT_TIMEOUT_SECS,  \* seven days in the code
    StartTime,          \* ledger time at the start
    MaxTime,            \* bound: last ledger time
    MaxLeases           \* bound: leases created

Holders == Users \cup {Contract}

Deposit_swap == [path : BOOLEAN, dex : BOOLEAN, max_slippage_bps : Nat]

CreateLeaseParams ==
    [landlord : Users, tenant : Users, deposit_amount : Int, security_deposit : Int,
     start_date : Nat, end_date : Nat, rent_per_sec : Int, grace_period_end : Nat,
     late_fee_flat : Int, late_fee_per_sec : Int, arbitrators : SUBSET Users,
     deposit_swap : Deposit_swap \cup {None}]

ASSUME AddressAssumption ==
    /\ Contract \notin Users /\ None \notin Holders /\ None \notin Int
    /\ Roommates \subseteq Users /\ Wallets \subseteq Users
    /\ Inspectors \subseteq Users /\ Admins \subseteq Users
    /\ Settlers \subseteq Users /\ Reporters \subseteq Users

ASSUME ContractInputAssumption ==
    /\ Ids \subseteq Nat
    /\ CreateParams \subseteq CreateLeaseParams
    /\ BillingParams \subseteq [landlord : Users, tenant : Users, deposit_amount : Int,
                                rent_per_sec : Int, duration : Nat]
    /\ DexOutputs \subseteq Int /\ Payments \subseteq Int
    /\ BuyoutPrices \subseteq Int /\ Deductions \subseteq Int
    /\ Splits \subseteq Int \X Int
    /\ FeeConfigs \subseteq [amount : Int, recipient : Holders]
    /\ KycProviders \subseteq SUBSET Users
    /\ InitialBalance \in [Holders -> Nat]

ASSUME ContractBoundAssumption ==
    /\ INIT_TIMEOUT_SECS \in Nat /\ StartTime \in Nat /\ MaxTime \in Nat
    /\ MaxLeases \in Nat

VARIABLES
    now,               \* ledger timestamp
    admin, platform_fee, kyc_provider, asset_allowed,   \* settings
    lease_instance,    \* id -> lease, for the live leases
    historical_lease,  \* id -> archived lease, the last one under that id
    historical_index,  \* ids in the order they were archived
    authorized_payer,  \* pairs <<id, roommate>>
    roommate_balance,  \* <<id, payer>> -> rent paid
    velocity,          \* lessor -> tracker
    balance,           \* the token's balances (external)
    created,           \* observed: leases created
    paid_out,          \* observed: id -> deposit paid out for its last lease
    tripped            \* observed: lessors the limiter refused

settings == <<admin, platform_fee, kyc_provider, asset_allowed>>
archive == <<historical_lease, historical_index>>
rent_book == <<authorized_payer, roommate_balance>>
observed == <<created, paid_out, tripped>>
vars == <<now, settings, lease_instance, archive, rent_book, velocity, balance, observed>>

LeaseStatus ==
    {"Pending", "Active", "Expired", "Disputed", "Terminated", "DaoArbitration"}
DepositStatus == {"Held", "Settled", "Disputed"}
MaintenanceStatus == {"None", "Reported", "Fixed", "Verified"}

LeaseInstance ==
    [landlord : Users, tenant : Users,
     deposit_amount : Int, security_deposit : Int,
     start_date : Nat, end_date : Nat, rent_per_sec : Int,
     deposit_status : DepositStatus, status : LeaseStatus, active : BOOLEAN,
     debt : Int, rent_paid : Int, cumulative_payments : Int, rent_withdrawn : Int,
     buyout_price : Int \cup {None},
     grace_period_end : Nat, late_fee_flat : Int, late_fee_per_sec : Int,
     flat_fee_applied : BOOLEAN, seconds_late_charged : Nat,
     withdrawal_address : Users \cup {None}, arbitrators : SUBSET Users,
     maintenance_status : MaintenanceStatus, inspector : Users \cup {None},
     early_termination_fee_bps : Nat \cup {None}, fixed_penalty : Int \cup {None}]

HistoricalLease ==
    [lease : LeaseInstance, terminated_by : Holders, terminated_at : Nat]

\* f with key k bound to v, and f without key k.
Put(f, k, v) == [x \in DOMAIN f \cup {k} |-> IF x = k THEN v ELSE f[x]]
Drop(f, k) == [x \in DOMAIN f \ {k} |-> f[x]]

\* Integer division as the code's: it drops the fraction, also of a negative amount.
Quot(a, b) == IF a >= 0 THEN a \div b ELSE -((-a) \div b)

-----------------------------------------------------------------------------
Init ==
    /\ now = StartTime
    /\ admin = None /\ platform_fee = None /\ kyc_provider = None /\ asset_allowed = FALSE
    /\ lease_instance = << >>
    /\ historical_lease = << >> /\ historical_index = << >>
    /\ authorized_payer = {} /\ roommate_balance = << >>
    /\ velocity = << >>
    /\ balance = InitialBalance
    /\ created = 0 /\ paid_out = << >> /\ tripped = {}

\* The ledger closes with a later timestamp.
Tick ==
    /\ now < MaxTime
    /\ now' = now + 1
    /\ UNCHANGED <<settings, lease_instance, archive, rent_book, velocity, balance, observed>>

-----------------------------------------------------------------------------
(* The token, as the contract uses it. *)

CanTransfer(b, from, amount) == amount >= 0 /\ b[from] >= amount

transfer(b, from, to, amount) ==
    IF from = to THEN b
    ELSE [b EXCEPT ![from] = @ - amount, ![to] = @ + amount]

\* "if amount > 0 { transfer }": whether it succeeds, and its effect.
CanPay(b, from, amount) == amount > 0 => CanTransfer(b, from, amount)

pay(b, from, to, amount) == IF amount > 0 THEN transfer(b, from, to, amount) ELSE b

-----------------------------------------------------------------------------
(* Settings. *)

initialize(a) ==
    /\ admin' = a
    /\ UNCHANGED <<now, platform_fee, kyc_provider, asset_allowed, lease_instance, archive,
                   rent_book, velocity, balance, observed>>

set_admin(a) ==
    /\ admin = None
    /\ admin' = a
    /\ UNCHANGED <<now, platform_fee, kyc_provider, asset_allowed, lease_instance, archive,
                   rent_book, velocity, balance, observed>>

set_platform_fee(fee) ==
    /\ admin # None
    /\ platform_fee' = fee
    /\ UNCHANGED <<now, admin, kyc_provider, asset_allowed, lease_instance, archive,
                   rent_book, velocity, balance, observed>>

set_kyc_provider(provider) ==
    /\ admin # None
    /\ kyc_provider' = provider
    /\ UNCHANGED <<now, admin, platform_fee, asset_allowed, lease_instance, archive,
                   rent_book, velocity, balance, observed>>

add_allowed_asset ==
    /\ admin # None
    /\ asset_allowed' = TRUE
    /\ UNCHANGED <<now, admin, platform_fee, kyc_provider, lease_instance, archive,
                   rent_book, velocity, balance, observed>>

is_admin(caller) == admin # None /\ caller = admin

-----------------------------------------------------------------------------
(* Storage of the leases. *)

\* A function that only rewrites the record of one live lease.
save_lease_instance(id, lease) ==
    /\ lease_instance' = Put(lease_instance, id, lease)
    /\ UNCHANGED <<now, settings, archive, rent_book, velocity, balance, observed>>

\* Wrong: the id is not appended to the index.
archive_lease_X(id, lease, caller) ==
    /\ historical_lease' = Put(historical_lease, id,
          [lease |-> lease, terminated_by |-> caller, terminated_at |-> now])
    /\ lease_instance' = Drop(lease_instance, id)
    /\ UNCHANGED historical_index

archive_lease(id, lease, caller) ==
    /\ historical_lease' = Put(historical_lease, id,
          [lease |-> lease, terminated_by |-> caller, terminated_at |-> now])
    /\ historical_index' = Append(historical_index, id)
    /\ lease_instance' = Drop(lease_instance, id)

-----------------------------------------------------------------------------
(* Creation. *)

\* The amounts a deposit may end up as: swapped at a simulated 1% loss when no
\* DEX is given, at the DEX's answer otherwise; empty when the call fails.
execute_deposit_swap(p) ==
    LET s == p.deposit_swap
        simulated_output == Quot(p.security_deposit * 9900, 10000)
        min_out == Quot(p.security_deposit * (10000 - s.max_slippage_bps), 10000)
    IN  IF s = None THEN {p.security_deposit}
        ELSE IF ~s.path THEN {}
        ELSE IF s.dex THEN DexOutputs
        ELSE IF simulated_output < min_out THEN {}
        ELSE {simulated_output}

\* A lease as it is first stored, from its terms t.
NewLease(t, locked, status) ==
    [landlord |-> t.landlord, tenant |-> t.tenant,
     deposit_amount |-> t.deposit_amount, security_deposit |-> locked,
     start_date |-> t.start_date, end_date |-> t.end_date, rent_per_sec |-> t.rent_per_sec,
     deposit_status |-> "Held", status |-> status, active |-> TRUE,
     debt |-> 0, rent_paid |-> 0, cumulative_payments |-> 0, rent_withdrawn |-> 0,
     buyout_price |-> None,
     grace_period_end |-> t.grace_period_end,
     late_fee_flat |-> t.late_fee_flat, late_fee_per_sec |-> t.late_fee_per_sec,
     flat_fee_applied |-> FALSE, seconds_late_charged |-> 0,
     withdrawal_address |-> None, arbitrators |-> t.arbitrators,
     maintenance_status |-> "None", inspector |-> None,
     early_termination_fee_bps |-> None, fixed_penalty |-> None]

initialize_lessor(lessor) ==
    IF lessor \in DOMAIN velocity THEN velocity[lessor] ELSE NewTracker

\* No deposit is collected here, and an id is free again once its lease is archived.
create_lease_instance(id, p, locked) ==
    /\ created < MaxLeases
    /\ id \notin DOMAIN lease_instance
    /\ locked \in execute_deposit_swap(p)
    /\ lease_instance' = Put(lease_instance, id, NewLease(p, locked, "Pending"))
    /\ velocity' = Put(velocity, p.landlord, grow_portfolio(initialize_lessor(p.landlord)))
    /\ created' = created + 1
    /\ paid_out' = Put(paid_out, id, 0)
    /\ UNCHANGED <<now, settings, archive, rent_book, balance, tripped>>

require_kyc(p) == kyc_provider # None => {p.landlord, p.tenant} \subseteq kyc_provider

\* The id is the sequence number of the ledger, here its time: the lease replaces
\* any lease stored under that number.  The billing service it then registers with is a
\* module of its own, ContinuousBilling; the calls its registration refuses (a paused
\* service, or the placeholder address of line 1355) are modelled as if it accepted them.
create_lease_with_continuous_billing(p) ==
    /\ created < MaxLeases
    /\ require_kyc(p)
    /\ asset_allowed
    /\ LET terms == [landlord |-> p.landlord, tenant |-> p.tenant,
                     deposit_amount |-> p.deposit_amount, rent_per_sec |-> p.rent_per_sec,
                     start_date |-> now, end_date |-> now + p.duration,
                     grace_period_end |-> now + p.duration,
                     late_fee_flat |-> 0, late_fee_per_sec |-> 0, arbitrators |-> {}]
       IN  lease_instance' = Put(lease_instance, now, NewLease(terms, p.deposit_amount, "Active"))
    /\ created' = created + 1
    /\ paid_out' = Put(paid_out, now, 0)
    /\ UNCHANGED <<now, settings, archive, rent_book, velocity, balance, tripped>>

-----------------------------------------------------------------------------
(* Rent. *)

\* Wrong: the payment is not entered in the payer's balance.
credit_payer_X(id, payer, amount) == roommate_balance

credit_payer(id, payer, amount) ==
    LET k == <<id, payer>>
    IN  Put(roommate_balance, k,
            amount + (IF k \in DOMAIN roommate_balance THEN roommate_balance[k] ELSE 0))

may_pay(id, payer) ==
    payer = lease_instance[id].tenant \/ <<id, payer>> \in authorized_payer

bought_out(lease) ==
    lease.buyout_price # None /\ lease.cumulative_payments >= lease.buyout_price

with_payment(lease, amount) ==
    [lease EXCEPT !.cumulative_payments = @ + amount, !.rent_paid = @ + amount]

closed_by_buyout(lease) == [lease EXCEPT !.status = "Terminated", !.active = FALSE]

pay_lease_instance_rent(id, payer, amount) ==
    /\ id \in DOMAIN lease_instance
    /\ lease_instance[id].active
    /\ may_pay(id, payer)
    /\ CanTransfer(balance, payer, amount)
    /\ balance' = transfer(balance, payer, Contract, amount)
    /\ roommate_balance' = credit_payer(id, payer, amount)
    /\ LET lease == with_payment(lease_instance[id], amount)
       IN  IF bought_out(lease)
           THEN archive_lease(id, closed_by_buyout(lease), Contract)
           ELSE /\ lease_instance' = Put(lease_instance, id, lease)
                /\ UNCHANGED archive
    /\ UNCHANGED <<now, settings, authorized_payer, velocity, observed>>

set_lease_instance_buyout_price(id, price) ==
    /\ id \in DOMAIN lease_instance
    /\ save_lease_instance(id, [lease_instance[id] EXCEPT !.buyout_price = price])

set_withdrawal_address(id, wallet) ==
    /\ id \in DOMAIN lease_instance
    /\ save_lease_instance(id, [lease_instance[id] EXCEPT !.withdrawal_address = wallet])

withdrawn(lease) ==
    [lease EXCEPT !.rent_withdrawn = @ + (lease.rent_paid - lease.rent_withdrawn)]

\* The withdrawal is booked, but no token moves.
withdraw_rent(id) ==
    /\ id \in DOMAIN lease_instance
    /\ lease_instance[id].withdrawal_address # None
    /\ save_lease_instance(id, withdrawn(lease_instance[id]))

add_authorized_payer(id, roommate) ==
    /\ id \in DOMAIN lease_instance
    /\ authorized_payer' = authorized_payer \cup {<<id, roommate>>}
    /\ UNCHANGED <<now, settings, lease_instance, archive, roommate_balance, velocity,
                   balance, observed>>

-----------------------------------------------------------------------------
(* Late fees. *)

\* Wrong: the flat fee is charged on every check.
with_flat_fee_X(lease) ==
    [lease EXCEPT !.debt = @ + lease.late_fee_flat, !.flat_fee_applied = TRUE]

with_flat_fee(lease) ==
    IF lease.flat_fee_applied THEN lease
    ELSE [lease EXCEPT !.debt = @ + lease.late_fee_flat, !.flat_fee_applied = TRUE]

with_seconds_late(lease, seconds_late) ==
    IF seconds_late <= lease.seconds_late_charged THEN lease
    ELSE [lease EXCEPT
             !.debt = @ + (seconds_late - lease.seconds_late_charged) * lease.late_fee_per_sec,
             !.seconds_late_charged = seconds_late]

check_tenant_default(id) ==
    /\ id \in DOMAIN lease_instance
    /\ LET lease == lease_instance[id]
       IN  save_lease_instance(id,
              IF now > lease.grace_period_end
              THEN with_seconds_late(with_flat_fee(lease), now - lease.grace_period_end)
              ELSE lease)

-----------------------------------------------------------------------------
(* Deposit. *)

total_deposit(lease) == lease.security_deposit + lease.deposit_amount

is_party(id, caller) == caller \in {lease_instance[id].landlord, lease_instance[id].tenant}

\* Marks the deposit settled; the amounts of the call are ignored.
settle_deposit(id, caller) ==
    /\ id \in DOMAIN lease_instance
    /\ is_party(id, caller) \/ is_admin(caller)
    /\ save_lease_instance(id, [lease_instance[id] EXCEPT !.deposit_status = "Settled"])

ended(lease) == [lease EXCEPT !.status = "Terminated", !.deposit_status = "Settled"]

disputed(lease) == [lease EXCEPT !.status = "Disputed", !.deposit_status = "Disputed"]

\* The refund is returned to the caller, not paid.
conclude_lease(id, damage_deduction) ==
    /\ id \in DOMAIN lease_instance
    /\ 0 <= damage_deduction /\ damage_deduction <= lease_instance[id].deposit_amount
    /\ save_lease_instance(id, ended(lease_instance[id]))

dispute_deposit(id, caller) ==
    /\ id \in DOMAIN lease_instance
    /\ is_party(id, caller)
    /\ save_lease_instance(id, disputed(lease_instance[id]))

\* Needs no dispute; the refund is returned to the caller, not paid.
resolve_dispute(id, arbitrator, damage_deduction) ==
    /\ id \in DOMAIN lease_instance
    /\ arbitrator \in lease_instance[id].arbitrators
    /\ 0 <= damage_deduction /\ damage_deduction <= lease_instance[id].security_deposit
    /\ save_lease_instance(id, ended(lease_instance[id]))

\* A running lease and amounts that add up to its deposits.
valid_release(id, return_amount, slash_amount) ==
    /\ lease_instance[id].status \in {"Active", "Expired"}
    /\ return_amount + slash_amount = total_deposit(lease_instance[id])
    /\ return_amount >= 0 /\ slash_amount >= 0

\* Pays both sides out of the contract's balance; the lease stays stored.
mutual_deposit_release(id, return_amount, slash_amount) ==
    /\ id \in DOMAIN lease_instance
    /\ valid_release(id, return_amount, slash_amount)
    /\ CanPay(balance, Contract, return_amount + slash_amount)
    /\ balance' = pay(pay(balance, Contract, lease_instance[id].tenant, return_amount),
                      Contract, lease_instance[id].landlord, slash_amount)
    /\ lease_instance' = Put(lease_instance, id,
          [ended(lease_instance[id]) EXCEPT !.active = FALSE])
    /\ paid_out' = [paid_out EXCEPT ![id] = @ + return_amount + slash_amount]
    /\ UNCHANGED <<now, settings, archive, rent_book, velocity, created, tripped>>

init_mutual_release_fb(id, return_amount, slash_amount) ==
    /\ id \in DOMAIN lease_instance
    /\ valid_release(id, return_amount, slash_amount)
    /\ save_lease_instance(id, disputed(lease_instance[id]))

-----------------------------------------------------------------------------
(* Maintenance.  withheld_rent is never anything but 0 and is left out. *)

set_inspector(id, inspector) ==
    /\ id \in DOMAIN lease_instance
    /\ save_lease_instance(id, [lease_instance[id] EXCEPT !.inspector = inspector])

report_maintenance_issue(id, tenant) ==
    /\ id \in DOMAIN lease_instance
    /\ tenant = lease_instance[id].tenant
    /\ save_lease_instance(id, [lease_instance[id] EXCEPT !.maintenance_status = "Reported"])

submit_repair_proof(id) ==
    /\ id \in DOMAIN lease_instance
    /\ lease_instance[id].maintenance_status = "Reported"
    /\ save_lease_instance(id, [lease_instance[id] EXCEPT !.maintenance_status = "Fixed"])

verify_repair(id) ==
    /\ id \in DOMAIN lease_instance
    /\ lease_instance[id].inspector # None
    /\ lease_instance[id].maintenance_status = "Fixed"
    /\ save_lease_instance(id, [lease_instance[id] EXCEPT !.maintenance_status = "Verified"])

-----------------------------------------------------------------------------
(* The end of a lease. *)

reclaim(id, caller) ==
    /\ id \in DOMAIN lease_instance
    /\ caller = lease_instance[id].landlord \/ is_admin(caller)
    /\ lease_instance[id].deposit_amount <= 0
    /\ save_lease_instance(id,
          [lease_instance[id] EXCEPT !.status = "Terminated", !.active = FALSE])

\* bps basis points of the platform fee, paid by the fee's recipient to the caller.
bounty(bps) == IF platform_fee = None THEN 0 ELSE Quot(platform_fee.amount * bps, 10000)

bounty_payer == IF platform_fee = None THEN Contract ELSE platform_fee.recipient

\* Wrong: a deposit that is still held does not stop the termination.
may_terminate_X(lease) == now >= lease.end_date /\ lease.deposit_status # "Disputed"

may_terminate(lease) ==
    now >= lease.end_date /\ lease.deposit_status \notin {"Held", "Disputed"}

terminate_lease(id, caller) ==
    /\ id \in DOMAIN lease_instance
    /\ is_party(id, caller) \/ is_admin(caller)
    /\ may_terminate(lease_instance[id])
    /\ CanPay(balance, bounty_payer, bounty(1000))
    /\ balance' = pay(balance, bounty_payer, caller, bounty(1000))
    /\ archive_lease(id, lease_instance[id], caller)
    /\ UNCHANGED <<now, settings, rent_book, velocity, observed>>

percentage_penalty(lease, time) ==
    IF lease.early_termination_fee_bps > 0 /\ lease.end_date > time
    THEN Quot((lease.end_date - time) * lease.rent_per_sec
                 * lease.early_termination_fee_bps, 10000)
    ELSE 0

\* The configured penalty, the higher one when both kinds are configured.
penalty_amount(lease, time) ==
    LET kinds == (IF lease.early_termination_fee_bps = None THEN {}
                  ELSE {percentage_penalty(lease, time)})
                 \cup (IF lease.fixed_penalty = None THEN {} ELSE {lease.fixed_penalty})
    IN  IF kinds = {} THEN 0 ELSE Max(kinds)

\* Wrong: the penalty is not capped by the deposit.
final_penalty_X(lease, time) == penalty_amount(lease, time)

final_penalty(lease, time) == Min({penalty_amount(lease, time), total_deposit(lease)})

\* The checks before the limiter.
may_leave(id, caller) ==
    /\ id \in DOMAIN lease_instance
    /\ is_party(id, caller)
    /\ lease_instance[id].status # "Terminated"
    /\ CanMeasure(now)

\* Unsigned subtractions: the call aborts outside the lease's own dates.
within_term(lease) == lease.start_date <= now /\ now <= lease.end_date

execute_early_termination(id, caller) ==
    /\ may_leave(id, caller)
    /\ LET lease == lease_instance[id]
           tracker == initialize_lessor(lease.landlord)
           landlord_payout == final_penalty(lease, now)
           tenant_refund == total_deposit(lease) - landlord_payout
           refunded == pay(balance, Contract, lease.tenant, tenant_refund)
       IN  /\ WithinLimits(tracker, now)
           /\ within_term(lease)
           /\ CanPay(balance, Contract, tenant_refund)
           /\ CanPay(refunded, Contract, landlord_payout)
           /\ balance' = pay(refunded, Contract, lease.landlord, landlord_payout)
           /\ velocity' = Put(velocity, lease.landlord,
                              shrink_portfolio(record_termination(tracker, now)))
           /\ archive_lease(id, [ended(lease) EXCEPT !.active = FALSE], caller)
           /\ paid_out' = [paid_out EXCEPT ![id] = @ + Max({tenant_refund, 0})
                                                     + Max({landlord_payout, 0})]
    /\ UNCHANGED <<now, settings, rent_book, created, tripped>>

\* The limiter refuses: it stores a pause and a request for the DAO, and the Err
\* that follows rolls both back.
termination_refused(id, caller) ==
    /\ may_leave(id, caller)
    /\ ~WithinLimits(initialize_lessor(lease_instance[id].landlord), now)
    /\ tripped' = tripped \cup {lease_instance[id].landlord}
    /\ UNCHANGED <<now, settings, lease_instance, archive, rent_book, velocity, balance,
                   created, paid_out>>

\* Wrong: the sweeper takes leases in any state.
may_sweep_X(lease) == now >= lease.start_date + INIT_TIMEOUT_SECS

may_sweep(lease) ==
    lease.status = "Pending" /\ now >= lease.start_date + INIT_TIMEOUT_SECS

\* Removes the record without archiving it.
sweep_expired_proposals(relayer, id) ==
    /\ id \in DOMAIN lease_instance
    /\ may_sweep(lease_instance[id])
    /\ LET deposit == lease_instance[id].security_deposit
           refunded == pay(balance, Contract, lease_instance[id].tenant, deposit)
       IN  /\ CanPay(balance, Contract, deposit)
           /\ CanPay(refunded, bounty_payer, bounty(50))
           /\ balance' = pay(refunded, bounty_payer, relayer, bounty(50))
           /\ paid_out' = [paid_out EXCEPT ![id] = @ + Max({deposit, 0})]
    /\ lease_instance' = Drop(lease_instance, id)
    /\ UNCHANGED <<now, settings, archive, rent_book, velocity, created, tripped>>

-----------------------------------------------------------------------------
(* Queries. *)

\* Wrong: the page starts at the cursor's entry, not after it.
page_start_X(cursor) ==
    LET hits == {i \in DOMAIN historical_index : historical_index[i] = cursor}
    IN  IF cursor = None THEN 0
        ELSE IF hits = {} THEN Len(historical_index) ELSE Min(hits) - 1

\* get_historical_leases_paginated: how many entries lie before the page, how many
\* before the next one, and the cursor handed to the client.
page_start(cursor) ==
    LET hits == {i \in DOMAIN historical_index : historical_index[i] = cursor}
    IN  IF cursor = None THEN 0
        ELSE IF hits = {} THEN Len(historical_index) ELSE Min(hits)

page_end(cursor, limit) == Min({page_start(cursor) + limit, Len(historical_index)})

next_cursor(cursor, limit) ==
    IF page_end(cursor, limit) < Len(historical_index)
    THEN historical_index[page_end(cursor, limit)]
    ELSE None

\* projected_refund of simulate_termination, from the deductions it adds up.
deductions(lease, time) ==
    LET remaining == IF time < lease.end_date THEN lease.end_date - time ELSE 0
        penalty == IF remaining > 0 /\ lease.rent_per_sec > 0
                   THEN Min({(remaining * lease.rent_per_sec * 1000) \div 10000,
                             total_deposit(lease)})
                   ELSE 0
    IN  penalty + Max({lease.debt, 0})

\* Wrong: penalty and debt together may exceed the deposits.
projected_refund_X(lease, time) == total_deposit(lease) - deductions(lease, time)

projected_refund(lease, time) ==
    total_deposit(lease) - Min({deductions(lease, time), total_deposit(lease)})

-----------------------------------------------------------------------------
Settings ==
    \/ \E a \in Admins : initialize(a) \/ set_admin(a)
    \/ \E fee \in FeeConfigs : set_platform_fee(fee)
    \/ \E provider \in KycProviders : set_kyc_provider(provider)
    \/ add_allowed_asset

Creation ==
    \/ \E id \in Ids, p \in CreateParams :
          \E locked \in execute_deposit_swap(p) : create_lease_instance(id, p, locked)
    \/ \E p \in BillingParams : create_lease_with_continuous_billing(p)

Rent(id) ==
    \/ \E payer \in Users, amount \in Payments : pay_lease_instance_rent(id, payer, amount)
    \/ \E price \in BuyoutPrices : set_lease_instance_buyout_price(id, price)
    \/ \E wallet \in Wallets : set_withdrawal_address(id, wallet)
    \/ withdraw_rent(id)
    \/ \E roommate \in Roommates : add_authorized_payer(id, roommate)
    \/ check_tenant_default(id)

Deposit(id) ==
    \/ \E caller \in Settlers : settle_deposit(id, caller) \/ dispute_deposit(id, caller)
    \/ \E amount \in Deductions :
          \/ conclude_lease(id, amount)
          \/ \E arbitrator \in Users : resolve_dispute(id, arbitrator, amount)
    \/ \E split \in Splits :
          \/ mutual_deposit_release(id, split[1], split[2])
          \/ init_mutual_release_fb(id, split[1], split[2])

Maintenance(id) ==
    \/ \E inspector \in Inspectors : set_inspector(id, inspector)
    \/ \E tenant \in Reporters : report_maintenance_issue(id, tenant)
    \/ submit_repair_proof(id)
    \/ verify_repair(id)

Ending(id) ==
    \E caller \in Users :
       \/ reclaim(id, caller)
       \/ terminate_lease(id, caller)
       \/ execute_early_termination(id, caller)
       \/ termination_refused(id, caller)
       \/ sweep_expired_proposals(caller, id)

Next ==
    \/ Tick
    \/ Settings
    \/ Creation
    \/ \E id \in DOMAIN lease_instance :
          Rent(id) \/ Deposit(id) \/ Maintenance(id) \/ Ending(id)

Spec == Init /\ [][Next]_vars

\* Ledgers keep closing and some relayer keeps calling the sweeper.
Sweep == \E relayer \in Users, id \in DOMAIN lease_instance :
            sweep_expired_proposals(relayer, id)

FairSpec == Spec /\ WF_vars(Tick) /\ WF_vars(Sweep)

-----------------------------------------------------------------------------
(* Properties that hold. *)

\* Every stored value has its type; in particular no call overdraws a balance.
TypeOK ==
    /\ now \in Nat /\ created \in Nat
    /\ admin \in Users \cup {None}
    /\ platform_fee \in [amount : Int, recipient : Holders] \cup {None}
    /\ kyc_provider \in (SUBSET Users) \cup {None}
    /\ asset_allowed \in BOOLEAN
    /\ DOMAIN lease_instance \subseteq Nat
    /\ \A id \in DOMAIN lease_instance : lease_instance[id] \in LeaseInstance
    /\ DOMAIN historical_lease \subseteq Nat
    /\ \A id \in DOMAIN historical_lease : historical_lease[id] \in HistoricalLease
    /\ historical_index \in Seq(Nat)
    /\ authorized_payer \subseteq Nat \X Users
    /\ DOMAIN roommate_balance \subseteq Nat \X Users
    /\ \A k \in DOMAIN roommate_balance : roommate_balance[k] \in Nat
    /\ DOMAIN velocity \subseteq Users
    /\ \A u \in DOMAIN velocity : velocity[u] \in VelocityTracker
    /\ balance \in [Holders -> Nat]
    /\ DOMAIN lease_instance \subseteq DOMAIN paid_out
    /\ \A id \in DOMAIN paid_out : paid_out[id] \in Nat
    /\ tripped \subseteq Users

FeesOf(lease) ==
    (IF lease.flat_fee_applied THEN lease.late_fee_flat ELSE 0)
        + lease.seconds_late_charged * lease.late_fee_per_sec

\* However often and whenever check_tenant_default is called, a tenant owes the
\* flat fee once and each late second once, and never a second that has not passed.
LateFeesExact ==
    \A id \in DOMAIN lease_instance :
       LET lease == lease_instance[id]
       IN  /\ lease.debt = FeesOf(lease)
           /\ lease.flat_fee_applied => lease.grace_period_end < now
           /\ lease.seconds_late_charged > 0 =>
                 lease.grace_period_end + lease.seconds_late_charged <= now

PaidInto(id) ==
    SumFunctionOnSet(roommate_balance, {k \in DOMAIN roommate_balance : k[1] = id})

\* The rent a lease counts as paid was booked to its payers, whoever they are, and
\* withdrawals never run ahead of it.
RentBooked ==
    \A id \in DOMAIN lease_instance :
       LET lease == lease_instance[id]
       IN  /\ 0 <= lease.rent_withdrawn /\ lease.rent_withdrawn <= lease.rent_paid
           /\ lease.rent_paid = lease.cumulative_payments
           /\ lease.rent_paid <= PaidInto(id)

\* An archived lease had run its term with its deposit settled, or was left early
\* within its term with the deposit settled, or was bought out.
ArchiveJustified ==
    \A id \in DOMAIN historical_lease :
       LET lease == historical_lease[id].lease
           at == historical_lease[id].terminated_at
       IN  \/ lease.deposit_status = "Settled" /\ lease.end_date <= at
           \/ /\ lease.deposit_status = "Settled" /\ lease.status = "Terminated"
              /\ ~lease.active /\ lease.start_date <= at /\ at <= lease.end_date
           \/ /\ historical_lease[id].terminated_by = Contract
              /\ lease.status = "Terminated" /\ ~lease.active
              /\ lease.buyout_price # None
              /\ lease.cumulative_payments >= lease.buyout_price

\* The index lists exactly the ids that have an archived lease.
HistoryIndexed ==
    {historical_index[i] : i \in DOMAIN historical_index} = DOMAIN historical_lease

\* Following next_cursor from any page leads to the entry right after that page.
PagesChain ==
    \A limit \in 1..MaxLeases :
       \A cursor \in DOMAIN historical_lease \cup {None} :
          LET next == next_cursor(cursor, limit)
          IN  next # None => page_start(next) = page_end(cursor, limit)

\* Pages chain as long as no lease id was archived twice.
PagesChainWithoutReuse ==
    (Len(historical_index) = Cardinality(DOMAIN historical_lease)) => PagesChain

\* The parties, the term and the money of a lease, which no call changes.
SameTerms(l, m) ==
    /\ m.landlord = l.landlord /\ m.tenant = l.tenant
    /\ m.start_date = l.start_date /\ m.end_date = l.end_date
    /\ m.rent_per_sec = l.rent_per_sec
    /\ m.deposit_amount = l.deposit_amount /\ m.security_deposit = l.security_deposit

\* What one step may do to a live lease.
Stays(id) ==
    id \in DOMAIN lease_instance' /\ SameTerms(lease_instance[id], lease_instance'[id])

Archived(id) ==
    /\ historical_index' = Append(historical_index, id)
    /\ historical_lease'[id].terminated_at = now
    /\ SameTerms(lease_instance[id], historical_lease'[id].lease)

Swept(id) ==
    /\ lease_instance[id].status = "Pending"
    /\ lease_instance[id].deposit_status # "Disputed"
    /\ lease_instance[id].start_date + INIT_TIMEOUT_SECS <= now

\* The exception: a lease created for continuous billing takes the sequence number of the
\* ledger as its id, and replaces the lease that has this id without archiving it.
Overwritten(id) ==
    /\ id = now
    /\ created' = created + 1
    /\ id \in DOMAIN lease_instance'
    /\ lease_instance'[id].start_date = now /\ lease_instance'[id].status = "Active"

NothingLost ==
    \A id \in DOMAIN lease_instance : Stays(id) \/ Archived(id) \/ Swept(id) \/ Overwritten(id)

\* Until it leaves the store a lease keeps its terms.  It leaves into the archive, in the
\* same step and with those terms, or as a proposal that is still pending and undisputed
\* after its timeout, with one exception: create_lease_with_continuous_billing replaces a
\* lease whose id is the current ledger's sequence number, and that lease is lost.
NoLeaseLost == [][NothingLost]_vars

LeftEarly(id, lessor) ==
    /\ historical_lease[id].lease.landlord = lessor
    /\ historical_lease[id].terminated_by # Contract
    /\ historical_lease[id].terminated_at < historical_lease[id].lease.end_date

\* Every early exit that is in the archive is on its lessor's velocity record.
EarlyExitsTracked ==
    \A id \in DOMAIN historical_lease :
       \A lessor \in Users :
          LeftEarly(id, lessor) =>
             /\ lessor \in DOMAIN velocity
             /\ \E i \in DOMAIN velocity[lessor].last_termination_times :
                   velocity[lessor].last_termination_times[i]
                      = historical_lease[id].terminated_at

RecentExits(lessor) ==
    {id \in DOMAIN historical_lease :
       /\ LeftEarly(id, lessor)
       /\ historical_lease[id].terminated_at >= now - VELOCITY_WINDOW}

ExitsNow(lessor) ==
    /\ lessor \in DOMAIN velocity /\ lessor \in DOMAIN velocity'
    /\ Len(velocity'[lessor].last_termination_times)
          > Len(velocity[lessor].last_termination_times)

\* No early exit goes through once the leases already left in the last 24 hours
\* exceed the threshold share of the lessor's portfolio.
MassExitsBlocked ==
    [][\A lessor \in Users :
          ExitsNow(lessor) /\ velocity[lessor].total_leases > 0 =>
             Cardinality(RecentExits(lessor)) * 10000
                < (VELOCITY_THRESHOLD_PERCENT + 1) * velocity[lessor].total_leases]_vars

\* With any penalty terms, an early exit splits the deposits into two shares that
\* are not negative.  Nothing rejects a negative rent, and a share of it would be a
\* negative penalty.
PenaltyWithinDeposit ==
    \A id \in DOMAIN lease_instance, bps \in {None, 0, 1500}, fixed \in {None, 0, 3} :
       LET lease == [lease_instance[id] EXCEPT !.early_termination_fee_bps = bps,
                                               !.fixed_penalty = fixed]
       IN  total_deposit(lease) >= 0 /\ lease.rent_per_sec >= 0 =>
              /\ 0 <= final_penalty(lease, now)
              /\ final_penalty(lease, now) <= total_deposit(lease)

\* simulate_termination never promises a tenant more than execute_early_termination
\* would refund now, nor a negative refund, however much debt the lease has run up.
SimulationConservative ==
    \A id \in DOMAIN lease_instance :
       LET lease == lease_instance[id]
       IN  total_deposit(lease) >= 0 =>
              /\ 0 <= projected_refund(lease, now)
              /\ projected_refund(lease, now)
                    <= total_deposit(lease) - final_penalty(lease, now)

\* An early exit splits the deposits into shares that are not negative, and its
\* simulation promises no more than it pays.
ExitRefundSound == PenaltyWithinDeposit /\ SimulationConservative

-----------------------------------------------------------------------------
(* What the repository's documents say and the code does not do. *)

\* No more than its deposits is ever paid out for a lease.
DepositPaidOnce ==
    \A id \in DOMAIN paid_out :
       /\ id \in DOMAIN lease_instance =>
             paid_out[id] <= total_deposit(lease_instance[id])
       /\ id \in DOMAIN historical_lease \ DOMAIN lease_instance =>
             paid_out[id] <= total_deposit(historical_lease[id].lease)

\* A lessor the limiter has stopped ends no further lease early (no DAO approval can
\* be given, see VelocityGuard).
PauseHolds == [][\A lessor \in tripped : ~ExitsNow(lessor)]_vars

\* A pending proposal does not stay in storage for ever.
ExpiredProposalSwept ==
    \A id \in Ids :
       (id \in DOMAIN lease_instance /\ lease_instance[id].status = "Pending")
          ~> ~(id \in DOMAIN lease_instance /\ lease_instance[id].status = "Pending")
=============================================================================
