------------------------- MODULE ContinuousBilling -------------------------
(***************************************************************************)
(* The billing service of continuous_billing_module.rs: leases registered  *)
(* for billing, the cycles that bill them, the payments of a cycle (signed *)
(* by the payer, or pulled with an authorization granted before), and the  *)
(* rent treasury the payments go to.                                       *)
(*                                                                         *)
(* The payer's funds are not modelled: a transfer of a negative amount is  *)
(* refused by the token, any other one succeeds.  Fields that no function  *)
(* reads (times of the last payment or pause, counts, the copy of an       *)
(* authorization kept in its lease) are left out.  Definitions whose name  *)
(* ends in _X are wrong variants that show what each property rules out.   *)
(***************************************************************************)
EXTENDS Ledger

CONSTANTS
    BillingAdmin, BillingParties,   \* addresses
    BillingLeases,              \* lease ids
    BillingTerms,               \* terms offered to register_lease_billing
    PayAmounts,                 \* amounts offered to payments and distributions
    AuthAmounts, AuthExpiries,  \* authorizations offered by lessees
    MaxCycles,                  \* bound: billing cycles processed
    MaxCollected,               \* bound: rent collected
    MaxNonce                    \* bound: authorizations per lessee

BillingTermsType ==
    [lease_id : BillingLeases, lessor : BillingParties, lessee : BillingParties,
     rent_amount : Int, rent_per_second : Int,
     start_time : Nat, end_time : Nat, billing_frequency : Nat]

ASSUME BillingAssumption ==
    /\ BillingTerms \subseteq BillingTermsType
    /\ PayAmounts \subseteq Int /\ AuthAmounts \subseteq Int /\ AuthExpiries \subseteq Nat
    /\ MaxCycles \in Nat /\ MaxCollected \in Nat /\ MaxNonce \in Nat

VARIABLES
    billing_cycles,         \* cycle id -> cycle
    active_leases,          \* lease id -> lease
    authorization_nonces,   \* lessee -> last nonce
    authorizations,         \* <<lease id, nonce>> -> authorization
    rent_treasury,
    billing_state,
    reentrancy_enabled,     \* billing_config.reentrancy_protection_enabled
    reentrancy_guard,
    grants                  \* observed: <<lessee, nonce>> -> what was granted and pulled

billing_vars == <<billing_cycles, active_leases, authorization_nonces, authorizations,
                  rent_treasury, billing_state, reentrancy_enabled, reentrancy_guard, grants>>

BillingCycle ==
    [lease_id : BillingLeases, lessee : BillingParties, lessor : BillingParties, rent_amount : Int,
     cycle_start : Nat, actual_duration_seconds : Nat,
     status : {"pending", "processed", "failed"}, arrears_amount : Nat]

ActiveLease ==
    [lessor : BillingParties, lessee : BillingParties, rent_amount : Int, rent_per_second : Int,
     start_time : Nat, end_time : Nat, billing_frequency : Nat,
     last_billing_cycle : Nat, status : {"active", "terminated"},
     total_owed : Int, total_paid : Nat, billing_enabled : BOOLEAN]

RentTreasuryType ==
    [total_collected : Nat, total_distributed : Nat, available_balance : Nat]

PaymentAuthorization ==
    [lease_id : BillingLeases, lessee : BillingParties, authorized_amount : Int,
     expiry_timestamp : Nat, nonce : Nat, is_active : BOOLEAN]

BillingState ==
    [emergency_pause : BOOLEAN, total_cycles_processed : Nat, total_rent_collected : Nat]

\* What was granted under a nonce, how often it was pulled, how much and when last.
GrantRecord == [amount : Int, expiry : Nat, pulls : Nat, pulled : Nat, last : Nat]

-----------------------------------------------------------------------------
\* The contract as initialize, which runs once, leaves it.
BillingInit ==
    /\ now = StartTime
    /\ billing_cycles = << >>
    /\ active_leases = << >>
    /\ authorization_nonces = [u \in BillingParties |-> 0]
    /\ authorizations = << >>
    /\ rent_treasury = [total_collected |-> 0, total_distributed |-> 0,
                        available_balance |-> 0]
    /\ billing_state = [emergency_pause |-> FALSE, total_cycles_processed |-> 0,
                        total_rent_collected |-> 0]
    /\ reentrancy_enabled = TRUE
    /\ reentrancy_guard = FALSE
    /\ grants = << >>

enter_reentrancy_guard == reentrancy_enabled => ~reentrancy_guard

\* Every successful path ends with the guard released.
exit_reentrancy_guard ==
    reentrancy_guard' = IF reentrancy_enabled THEN FALSE ELSE reentrancy_guard

\* A registration replaces the lease of that id, whatever its state.
register_lease_billing(terms) ==
    /\ ~billing_state.emergency_pause
    /\ active_leases' = Store(active_leases, terms.lease_id,
            [lessor |-> terms.lessor, lessee |-> terms.lessee,
             rent_amount |-> terms.rent_amount, rent_per_second |-> terms.rent_per_second,
             start_time |-> terms.start_time, end_time |-> terms.end_time,
             billing_frequency |-> terms.billing_frequency,
             last_billing_cycle |-> 0, status |-> "active",
             total_owed |-> 0, total_paid |-> 0, billing_enabled |-> TRUE])
    /\ UNCHANGED <<billing_cycles, authorization_nonces, authorizations, rent_treasury,
                   billing_state, reentrancy_enabled, reentrancy_guard, grants, now>>

-----------------------------------------------------------------------------
\* last_billing_cycle = 0 stands for "never billed".
next_cycle_time(lease) ==
    IF lease.last_billing_cycle = 0 THEN lease.start_time
    ELSE lease.last_billing_cycle + lease.billing_frequency

\* Wrong: a late call bills up to now, past the end of the term.
billed_until_X(lease) == now

\* The last second a call at this time bills.
billed_until(lease) == IF now > lease.end_time THEN lease.end_time ELSE now

\* The subtraction is unsigned: the call aborts when the cycle would start after that second.
duration_defined(lease) == next_cycle_time(lease) <= billed_until(lease)

actual_duration(lease) == billed_until(lease) - next_cycle_time(lease)

calculated_rent(lease) ==
    IF lease.rent_per_second > 0 THEN lease.rent_per_second * actual_duration(lease)
    ELSE lease.rent_amount

\* Cycles are stored under the ledger sequence: a second cycle billed in the same
\* ledger, of this or of another lease, replaces the first.
process_billing_cycle(id) ==
    /\ enter_reentrancy_guard
    /\ id \in DOMAIN active_leases
    /\ LET lease == active_leases[id]
           next == next_cycle_time(lease)
       IN /\ lease.status = "active" /\ lease.billing_enabled
          /\ now >= next
          /\ duration_defined(lease)
          /\ billing_cycles' = Store(billing_cycles, sequence,
                [lease_id |-> id, lessee |-> lease.lessee, lessor |-> lease.lessor,
                 rent_amount |-> calculated_rent(lease), cycle_start |-> next,
                 actual_duration_seconds |-> actual_duration(lease),
                 status |-> "pending", arrears_amount |-> 0])
          /\ active_leases' = [active_leases EXCEPT
                ![id].last_billing_cycle = next, ![id].total_owed = @ + calculated_rent(lease)]
    /\ billing_state.total_cycles_processed < MaxCycles
    /\ billing_state' = [billing_state EXCEPT !.total_cycles_processed = @ + 1]
    /\ exit_reentrancy_guard
    /\ UNCHANGED <<authorization_nonces, authorizations, rent_treasury,
                   reentrancy_enabled, grants, now>>

\* Wrong: the collection is not added to what can be distributed exactly once.
collect_X(amount) ==
    [rent_treasury EXCEPT !.total_collected = @ + amount,
        !.available_balance = @ + 2 * amount]

collect(amount) ==
    [rent_treasury EXCEPT !.total_collected = @ + amount,
        !.available_balance = @ + amount]

\* The cycle after a payment: a partial payment fails it, and may be repeated.
paid_cycle(cycle, amount) ==
    LET full == amount = cycle.rent_amount
    IN  [cycle EXCEPT
            !.status = IF full THEN "processed" ELSE "failed",
            !.arrears_amount = IF full THEN @ ELSE cycle.rent_amount - amount]

\* Wrong: the payment is booked to the lessee's lease before the treasury accepts it, and
\* again with it.
paid_lease_X(lease, cycle, amount) ==
    [lease EXCEPT !.total_paid = @ + 2 * amount, !.total_owed = @ + cycle.arrears_amount]

\* The arrears of the cycle are owed on top of the rent the cycle already added.
paid_lease(lease, cycle, amount) ==
    [lease EXCEPT !.total_paid = @ + amount, !.total_owed = @ + cycle.arrears_amount]

\* Wrong: a processed cycle is accepted.
payable_X(cycle, amount) == amount <= cycle.rent_amount /\ amount >= 0

payable(cycle, amount) ==
    cycle.status # "processed" /\ amount <= cycle.rent_amount /\ amount >= 0

\* process_payment without the guard, shared by both ways to pay.
Payment(cid, amount) ==
    /\ cid \in DOMAIN billing_cycles
    /\ LET cycle == billing_cycles[cid]
           paid == paid_cycle(cycle, amount)
       IN /\ payable(cycle, amount)
          /\ cycle.lease_id \in DOMAIN active_leases
          /\ billing_cycles' = [billing_cycles EXCEPT ![cid] = paid]
          /\ active_leases' = [active_leases EXCEPT
                ![cycle.lease_id] = paid_lease(@, paid, amount)]
    /\ rent_treasury.total_collected + amount <= MaxCollected
    /\ rent_treasury' = collect(amount)
    /\ billing_state' = [billing_state EXCEPT !.total_rent_collected = @ + amount]

process_payment(cid, amount) ==
    /\ enter_reentrancy_guard
    /\ Payment(cid, amount)
    /\ exit_reentrancy_guard
    /\ UNCHANGED <<authorization_nonces, authorizations, reentrancy_enabled, grants, now>>

-----------------------------------------------------------------------------
\* Wrong: nonces are counted per call, not per lessee, so that one is handed out again.
next_nonce_X(lessee) == Max({1} \cup {authorization_nonces[lessee]})

next_nonce(lessee) == authorization_nonces[lessee] + 1

\* Any address may grant on any registered lease: the lessee of the lease is not
\* compared.  The key holds the lease and the nonce, not the lessee.
grant_payment_authorization(id, lessee, amount, expiry) ==
    LET nonce == next_nonce(lessee) IN
    /\ enter_reentrancy_guard
    /\ expiry > now
    /\ id \in DOMAIN active_leases
    /\ nonce <= MaxNonce
    /\ authorization_nonces' = [authorization_nonces EXCEPT ![lessee] = nonce]
    /\ authorizations' = Store(authorizations, <<id, nonce>>,
            [lease_id |-> id, lessee |-> lessee, authorized_amount |-> amount,
             expiry_timestamp |-> expiry, nonce |-> nonce, is_active |-> TRUE])
    /\ grants' = Store(grants, <<lessee, nonce>>,
            [amount |-> amount, expiry |-> expiry, pulls |-> 0, pulled |-> 0, last |-> 0])
    /\ exit_reentrancy_guard
    /\ UNCHANGED <<billing_cycles, active_leases, rent_treasury, billing_state,
                   reentrancy_enabled, now>>

\* Wrong: the authorization stays active after its use.
used_authorization_X(auth) == auth

used_authorization(auth) == [auth EXCEPT !.is_active = FALSE]

\* The record of a grant after a pull under it.
pulled_grant(r, amount) ==
    [r EXCEPT !.pulls = @ + 1, !.pulled = @ + amount, !.last = now]

\* The cycle is any cycle: its lease is not compared with the authorization's lease.  The
\* payer must also sign the payment made inside (line 465); any caller may here, so that the
\* model allows every pull of the code and those the missing signature would stop.
execute_pull_payment(id, cid, nonce) ==
    LET auth == authorizations[<<id, nonce>>] IN
    /\ enter_reentrancy_guard
    /\ <<id, nonce>> \in DOMAIN authorizations
    /\ auth.is_active /\ auth.expiry_timestamp >= now
    /\ cid \in DOMAIN billing_cycles
    /\ billing_cycles[cid].rent_amount <= auth.authorized_amount
    /\ authorizations' = [authorizations EXCEPT ![<<id, nonce>>] = used_authorization(@)]
    /\ Payment(cid, billing_cycles[cid].rent_amount)
    /\ grants' = [grants EXCEPT ![<<auth.lessee, nonce>>] =
            pulled_grant(@, billing_cycles[cid].rent_amount)]
    /\ exit_reentrancy_guard
    /\ UNCHANGED <<authorization_nonces, reentrancy_enabled, now>>

-----------------------------------------------------------------------------
terminate_lease_billing(id, terminator) ==
    /\ enter_reentrancy_guard
    /\ id \in DOMAIN active_leases
    /\ terminator \in {active_leases[id].lessor, BillingAdmin}
    /\ active_leases' = [active_leases EXCEPT ![id].status = "terminated",
                                              ![id].billing_enabled = FALSE]
    /\ exit_reentrancy_guard
    /\ UNCHANGED <<billing_cycles, authorization_nonces, authorizations, rent_treasury,
                   billing_state, reentrancy_enabled, grants, now>>

toggle_emergency_pause(pause) ==
    /\ billing_state' = [billing_state EXCEPT !.emergency_pause = pause]
    /\ UNCHANGED <<billing_cycles, active_leases, authorization_nonces, authorizations,
                   rent_treasury, reentrancy_enabled, reentrancy_guard, grants, now>>

\* The only field of the configuration that any function reads is the guard's switch.
update_billing_config(protect) ==
    /\ reentrancy_enabled' = protect
    /\ UNCHANGED <<billing_cycles, active_leases, authorization_nonces, authorizations,
                   rent_treasury, billing_state, reentrancy_guard, grants, now>>

\* Wrong: checked against everything ever collected.
distributable_X(amount) == amount <= rent_treasury.total_collected /\ amount >= 0

distributable(amount) == amount <= rent_treasury.available_balance /\ amount >= 0

\* The transfer goes through a client made from the treasury's own address (line 996); it is
\* modelled as one that succeeds.
distribute_rent_treasury(amount) ==
    /\ enter_reentrancy_guard
    /\ distributable(amount)
    /\ rent_treasury' = [rent_treasury EXCEPT !.total_distributed = @ + amount,
                                              !.available_balance = @ - amount]
    /\ exit_reentrancy_guard
    /\ UNCHANGED <<billing_cycles, active_leases, authorization_nonces, authorizations,
                   billing_state, reentrancy_enabled, grants, now>>

BillingTick == Tick /\ UNCHANGED billing_vars

BillingNext ==
    \/ BillingTick
    \/ \E terms \in BillingTerms : register_lease_billing(terms)
    \/ \E id \in BillingLeases : process_billing_cycle(id)
    \/ \E cid \in DOMAIN billing_cycles, amount \in PayAmounts : process_payment(cid, amount)
    \/ \E id \in BillingLeases, lessee \in BillingParties, amount \in AuthAmounts,
          expiry \in AuthExpiries : grant_payment_authorization(id, lessee, amount, expiry)
    \/ \E id \in BillingLeases, cid \in DOMAIN billing_cycles, nonce \in 1..MaxNonce :
          execute_pull_payment(id, cid, nonce)
    \/ \E id \in BillingLeases, u \in BillingParties \cup {BillingAdmin} :
          terminate_lease_billing(id, u)
    \/ \E pause \in BOOLEAN : toggle_emergency_pause(pause)
    \/ \E protect \in BOOLEAN : update_billing_config(protect)
    \/ \E amount \in PayAmounts : distribute_rent_treasury(amount)

BillingSpec == BillingInit /\ [][BillingNext]_<<now, billing_vars>>

-----------------------------------------------------------------------------
\* Each variable of the billing service has its type.
BillingTypeOK ==
    /\ now \in StartTime..MaxTime
    /\ DOMAIN billing_cycles \subseteq Nat
    /\ \A c \in DOMAIN billing_cycles : billing_cycles[c] \in BillingCycle
    /\ DOMAIN active_leases \subseteq BillingLeases
    /\ \A l \in DOMAIN active_leases : active_leases[l] \in ActiveLease
    /\ authorization_nonces \in [BillingParties -> Nat]
    /\ DOMAIN authorizations \subseteq BillingLeases \X Nat
    /\ \A k \in DOMAIN authorizations : authorizations[k] \in PaymentAuthorization
    /\ rent_treasury \in RentTreasuryType
    /\ billing_state \in BillingState
    /\ reentrancy_enabled \in BOOLEAN /\ reentrancy_guard \in BOOLEAN
    /\ DOMAIN grants \subseteq BillingParties \X Nat
    /\ \A g \in DOMAIN grants : grants[g] \in GrantRecord

\* The treasury's books balance (process_payment, distribute_rent_treasury): what can
\* be distributed is what was collected and not yet distributed, the billing state
\* counted the same collections.
TreasuryBalanced ==
    /\ rent_treasury.available_balance + rent_treasury.total_distributed
         = rent_treasury.total_collected
    /\ billing_state.total_rent_collected = rent_treasury.total_collected

\* No lease is credited with rent the treasury did not collect, however often its
\* cycles are paid, replaced or re-registered (process_payment).
CreditsCollected ==
    SumFunction([l \in DOMAIN active_leases |-> active_leases[l].total_paid])
        <= rent_treasury.total_collected

\* The treasury's books balance and cover every credit given to a lease.
BooksBalanced == TreasuryBalanced /\ CreditsCollected

\* A payment authorization is honoured at most once, for at most the amount granted and
\* not after it expired, whichever lease and cycle it is used for and whoever overwrites
\* its entry (grant_payment_authorization, execute_pull_payment).
GrantHonoured ==
    \A g \in DOMAIN grants :
        /\ grants[g].pulls <= 1
        /\ grants[g].pulls = 1 => grants[g].pulled <= grants[g].amount
                                    /\ grants[g].last <= grants[g].expiry

\* However late a cycle is processed, the seconds it bills lie within the term of its lease
\* and in the past: it starts no earlier than the term, or the time it is due, and ends no
\* later than the term and the call (process_billing_cycle).  Two late cycles of one lease may
\* bill the same seconds, since each is billed up to the call.
BillingStopsAtEnd ==
    [][billing_state'.total_cycles_processed > billing_state.total_cycles_processed =>
         LET cycle == billing_cycles'[sequence]
             lease == active_leases[cycle.lease_id]
             billed_to == cycle.cycle_start + cycle.actual_duration_seconds
         IN  /\ lease.start_time <= cycle.cycle_start /\ cycle.cycle_start <= billed_to
             /\ billed_to <= lease.end_time /\ billed_to <= now]_billing_vars

\* The treasury the billing service implements, whose grants are used when they are pulled.
grant_uses == [g \in DOMAIN grants |-> grants[g].pulls]

Treasury ==
    INSTANCE RentTreasury WITH
        Grants <- BillingParties \X (1..MaxNonce),
        collected <- rent_treasury.total_collected,
        distributed <- rent_treasury.total_distributed,
        uses <- grant_uses

\* The billing service implements the abstract treasury: its payments, pulls and
\* distributions are collections and distributions that never pay out more than came in,
\* and each grant is spent once (process_payment, execute_pull_payment,
\* distribute_rent_treasury).
ImplementsTreasury == Treasury!TreasurySpec

\* continuous_billing_tests.rs expects process_billing_cycle to fail while the service
\* is paused.
PauseStopsBilling ==
    [][billing_state.emergency_pause =>
         billing_state'.total_cycles_processed = billing_state.total_cycles_processed]_billing_state
=============================================================================
