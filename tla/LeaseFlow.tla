----------------------------- MODULE LeaseFlow -----------------------------
(***************************************************************************)
(* The lease state machine of contracts/leaseflow/src/lib.rs.              *)
(*                                                                         *)
(* The contract keeps one record in its instance storage: the leases by    *)
(* id, the next id, one escrow vault shared by all leases and one credit   *)
(* record per defaulting lessee.  Here each field of that record is a      *)
(* variable, and each exported function that writes it is an action.  A    *)
(* call that returns an Err or panics is rolled back by the Soroban host   *)
(* with everything it wrote, so an error path is an action that is not     *)
(* enabled.  No function checks who signed the call: callers are any user. *)
(* Definitions whose name ends in _X are wrong variants, as in LeaseMath.  *)
(***************************************************************************)
EXTENDS LeaseMath, FiniteSetsExt, Sequences

CONSTANTS
    Users,          \* addresses
    Rents, Deposits, Graces, FeeRates,   \* amounts and terms offered to create_lease
    Terms,          \* records [start_date, end_date] offered to create_lease
    Pegs,           \* fiat_peg_config values: None or a peg record
    Amounts,        \* amounts offered to process_rent_payment
    Prices,         \* oracle prices
    QuoteTimes,     \* oracle timestamps
    OracleUnit,     \* 10^decimals of the price feed
    MaxPriceAge,    \* 3600 in the code
    StartTime,      \* ledger time of the deployment
    MaxTime,        \* bound: last ledger time
    MaxLeases,      \* bound: leases created between two initialize calls
    MaxPaid         \* bound: rent recorded per lease

Peg == [enabled : BOOLEAN, target_usd_amount : Int,
        staleness_threshold : Nat, volatility_threshold : Nat]

ASSUME InputAssumption ==
    /\ Rents \subseteq Int /\ Deposits \subseteq Int
    /\ Graces \subseteq Nat /\ FeeRates \subseteq Nat
    /\ Terms \subseteq [start_date : Nat, end_date : Nat]
    /\ Amounts \subseteq Int /\ Prices \subseteq Int /\ QuoteTimes \subseteq Nat
    /\ Pegs \subseteq Peg \cup {None}

ASSUME BoundAssumption ==
    /\ OracleUnit \in Nat /\ MaxPriceAge \in Nat
    /\ StartTime \in Nat /\ MaxTime \in Nat /\ StartTime <= MaxTime
    /\ MaxLeases \in Nat /\ MaxPaid \in Nat

VARIABLES
    now,              \* ledger timestamp
    leases,           \* lease id -> lease, for the ids handed out
    next_lease_id,
    escrow_vault,     \* one vault for all leases
    credit_records,   \* lessee -> record, for the lessees that defaulted
    refunded          \* observed: what terminate_lease returned, by lease id

vars == <<now, leases, next_lease_id, escrow_vault, credit_records, refunded>>

LeaseState == {"Pending", "Active", "GracePeriod", "EvictionPending", "Closed"}

Lease ==
    [lessor : Users, lessee : Users,
     rent_amount : Nat \ {0}, deposit_amount : Nat \ {0},
     start_date : Nat, end_date : Nat, state : LeaseState,
     max_grace_period : Nat, late_fee_rate : Nat,
     dunning_start_timestamp : Nat \cup {None},
     outstanding_balance : Nat, accumulated_late_fees : Nat,
     last_rent_payment_timestamp : Nat, arrears_processed : BOOLEAN,
     prorated_initial_rent : Int, total_paid_rent : Nat,
     fiat_peg_config : Peg \cup {None},
     last_oracle_price : Int \cup {None},
     last_oracle_timestamp : Nat \cup {None}]

EscrowVault == [total_locked : Nat, available_balance : Nat, lessor_treasury : Nat]

CreditRecord ==
    [total_debt_amount : Nat, default_count : Nat,
     last_default_timestamp : Nat, associated_lease_ids : Seq(Nat)]

\* f with key k bound to v, as Map::set does.
Put(f, k, v) == [x \in DOMAIN f \cup {k} |-> IF x = k THEN v ELSE f[x]]

-----------------------------------------------------------------------------
EmptyVault == [total_locked |-> 0, available_balance |-> 0, lessor_treasury |-> 0]

\* What initialize writes: it may be called again, by anyone, at any time.
Fresh ==
    [leases |-> << >>, next_lease_id |-> 1,
     escrow_vault |-> EmptyVault, credit_records |-> << >>]

Init ==
    /\ now = StartTime
    /\ leases = Fresh.leases
    /\ next_lease_id = Fresh.next_lease_id
    /\ escrow_vault = Fresh.escrow_vault
    /\ credit_records = Fresh.credit_records
    /\ refunded = << >>

initialize ==
    /\ leases' = Fresh.leases
    /\ next_lease_id' = Fresh.next_lease_id
    /\ escrow_vault' = Fresh.escrow_vault
    /\ credit_records' = Fresh.credit_records
    /\ refunded' = << >>
    /\ UNCHANGED now

\* The ledger closes with a later timestamp.
Tick ==
    /\ now < MaxTime
    /\ now' = now + 1
    /\ UNCHANGED <<leases, next_lease_id, escrow_vault, credit_records, refunded>>

-----------------------------------------------------------------------------
\* Wrong: amounts are not validated.
ValidTerms_X(rent, deposit, term) == term.start_date < term.end_date

ValidTerms(rent, deposit, term) ==
    rent > 0 /\ deposit > 0 /\ term.start_date < term.end_date

ValidPeg(peg) ==
    peg # None =>
        /\ peg.target_usd_amount > 0
        /\ peg.staleness_threshold # 0
        /\ peg.volatility_threshold # 0

initial_rent(rent, term) ==
    LET prorated == calculate_prorated_rent(rent, now, term.end_date)
    IN  IF now > term.start_date /\ prorated # None THEN prorated ELSE rent

create_lease(lessor, lessee, rent, deposit, term, grace, rate, peg) ==
    /\ next_lease_id <= MaxLeases
    /\ ValidTerms(rent, deposit, term)
    /\ ValidPeg(peg)
    /\ leases' = Put(leases, next_lease_id,
          [lessor |-> lessor, lessee |-> lessee,
           rent_amount |-> rent, deposit_amount |-> deposit,
           start_date |-> term.start_date, end_date |-> term.end_date,
           state |-> "Pending",
           max_grace_period |-> grace, late_fee_rate |-> rate,
           dunning_start_timestamp |-> None,
           outstanding_balance |-> 0, accumulated_late_fees |-> 0,
           last_rent_payment_timestamp |-> 0, arrears_processed |-> FALSE,
           prorated_initial_rent |-> initial_rent(rent, term),
           total_paid_rent |-> 0, fiat_peg_config |-> peg,
           last_oracle_price |-> None, last_oracle_timestamp |-> None])
    /\ next_lease_id' = next_lease_id + 1
    /\ UNCHANGED <<now, escrow_vault, credit_records, refunded>>

\* Wrong: an active lease can be activated again.
CanActivate_X(l, lessee) == lessee = l.lessee /\ l.state \in {"Pending", "Active"}

CanActivate(l, lessee) == lessee = l.lessee /\ l.state = "Pending"

\* The deposit is credited to the shared vault; the token transfer itself is
\* left to "a real implementation" by the code.
activate_lease(id, lessee) ==
    LET l == leases[id] IN
    /\ CanActivate(l, lessee)
    /\ escrow_vault' = [escrow_vault EXCEPT !.total_locked = @ + l.deposit_amount,
                                            !.available_balance = @ + l.deposit_amount]
    /\ leases' = [leases EXCEPT ![id] = [l EXCEPT !.state = "Active",
                                                  !.last_rent_payment_timestamp = now]]
    /\ UNCHANGED <<now, next_lease_id, credit_records, refunded>>

-----------------------------------------------------------------------------
\* Wrong: the dunning start survives the recovery.
Paid_X(l, amount) ==
    [l EXCEPT !.state = "Active",
              !.last_rent_payment_timestamp = now,
              !.outstanding_balance = 0,
              !.accumulated_late_fees = 0,
              !.total_paid_rent = @ + amount]

\* The lease after a rent payment of amount at the present time.
Paid(l, amount) ==
    [l EXCEPT !.state = "Active",
              !.last_rent_payment_timestamp = now,
              !.outstanding_balance = 0,
              !.accumulated_late_fees = 0,
              !.dunning_start_timestamp =
                  IF l.state = "GracePeriod" THEN None ELSE @,
              !.total_paid_rent = @ + amount]

\* Wrong: the late fee need not be paid.
required_amount_X(l) == l.rent_amount

\* What a payment must reach: the rent, and in the grace period the late fee too.
required_amount(l) ==
    IF l.state = "GracePeriod" THEN l.rent_amount + l.accumulated_late_fees
                               ELSE l.rent_amount

process_rent_payment(id, amount) ==
    LET l == leases[id] IN
    /\ l.state \in {"Active", "GracePeriod"}
    /\ amount >= l.rent_amount
    /\ amount >= required_amount(l)
    /\ l.total_paid_rent + amount <= MaxPaid
    /\ leases' = [leases EXCEPT ![id] = Paid(l, amount)]
    /\ UNCHANGED <<now, next_lease_id, escrow_vault, credit_records, refunded>>

calculate_late_fee(l, base_amount) == (base_amount * l.late_fee_rate) \div 10000

handle_rent_payment_failure(id) ==
    LET l == leases[id] IN
    /\ l.state = "Active"
    /\ leases' = [leases EXCEPT ![id] =
          [l EXCEPT !.state = "GracePeriod",
                    !.dunning_start_timestamp = now,
                    !.outstanding_balance = l.rent_amount,
                    !.accumulated_late_fees = calculate_late_fee(l, l.rent_amount)]]
    /\ UNCHANGED <<now, next_lease_id, escrow_vault, credit_records, refunded>>

-----------------------------------------------------------------------------
total_arrears(l) == l.outstanding_balance + l.accumulated_late_fees

\* Wrong: arrears above the deposit are taken from the other deposits.
calculate_deduction_amount_X(arrears, deposit) == arrears

calculate_deduction_amount(arrears, deposit) == MinOf(arrears, deposit)

residual_debt(l) ==
    total_arrears(l) - calculate_deduction_amount(total_arrears(l), l.deposit_amount)

NoDefaults ==
    [total_debt_amount |-> 0, default_count |-> 0,
     last_default_timestamp |-> 0, associated_lease_ids |-> << >>]

credit_record(lessee) ==
    IF lessee \in DOMAIN credit_records THEN credit_records[lessee] ELSE NoDefaults

\* Wrong: a second default replaces the first.
update_credit_record_X(lessee, debt, id) ==
    Put(credit_records, lessee,
        [total_debt_amount |-> debt, default_count |-> 1,
         last_default_timestamp |-> now, associated_lease_ids |-> <<id>>])

update_credit_record(lessee, debt, id) ==
    LET r   == credit_record(lessee)
        ids == r.associated_lease_ids
    IN  Put(credit_records, lessee,
            [total_debt_amount |-> r.total_debt_amount + debt,
             default_count |-> r.default_count + 1,
             last_default_timestamp |-> now,
             associated_lease_ids |->
                 IF \E i \in DOMAIN ids : ids[i] = id THEN ids ELSE Append(ids, id)])

\* Wrong: the vault must hold the arrears even where they exceed the deposit.
VaultCovers_X(l) == escrow_vault.available_balance >= total_arrears(l)

VaultCovers(l) ==
    escrow_vault.available_balance
        >= calculate_deduction_amount(total_arrears(l), l.deposit_amount)

\* Wrong: the deduction does not reach the lessors' treasury.
DeductedVault_X(deduction) == [escrow_vault EXCEPT !.available_balance = @ - deduction]

DeductedVault(deduction) ==
    [escrow_vault EXCEPT !.available_balance = @ - deduction,
                         !.lessor_treasury = @ + deduction]

\* The deduction for the lease record l of id, which the caller may just have
\* moved to EvictionPending.  It is exported too, but is never enabled on a
\* stored lease (EvictionSettled below).
execute_arrears_deduction(id, l) ==
    LET deduction == calculate_deduction_amount(total_arrears(l), l.deposit_amount) IN
    /\ l.state = "EvictionPending"
    /\ ~l.arrears_processed
    /\ l.dunning_start_timestamp # None
    /\ total_arrears(l) > 0 /\ l.deposit_amount > 0
    /\ VaultCovers(l)
    /\ escrow_vault' = DeductedVault(deduction)
    /\ leases' = [leases EXCEPT ![id] = [l EXCEPT !.arrears_processed = TRUE]]
    /\ credit_records' = IF residual_debt(l) > 0
                         THEN update_credit_record(l.lessee, residual_debt(l), id)
                         ELSE credit_records

\* Wrong: the last second of the grace period already counts as expired.
GraceExpired_X(l) ==
    /\ l.state = "GracePeriod"
    /\ l.dunning_start_timestamp # None
    /\ now >= l.dunning_start_timestamp + l.max_grace_period

GraceExpired(l) ==
    /\ l.state = "GracePeriod"
    /\ l.dunning_start_timestamp # None
    /\ now > l.dunning_start_timestamp + l.max_grace_period

check_grace_period_expiry(id) ==
    LET l == leases[id] IN
    /\ GraceExpired(l)
    /\ execute_arrears_deduction(id, [l EXCEPT !.state = "EvictionPending"])
    /\ UNCHANGED <<now, next_lease_id, refunded>>

trigger_grace_period_check(id, caller) ==
    /\ caller = leases[id].lessor
    /\ check_grace_period_expiry(id)

-----------------------------------------------------------------------------
(***************************************************************************)
(* Fiat-pegged rent.  The oracle is external: a call may be answered with  *)
(* any price and timestamp.  A payment asks the oracle twice, once for the *)
(* rent and once for the price it caches; nothing runs between the two     *)
(* calls of one transaction, so an oracle that only reads in get_price     *)
(* gives both the same answer, and the model has one.                      *)
(***************************************************************************)
PriceMove(l, price) ==
    LET change == IF price > l.last_oracle_price THEN price - l.last_oracle_price
                                                 ELSE l.last_oracle_price - price
    IN  (change * 10000) \div l.last_oracle_price

\* Wrong: only a falling price trips the circuit breaker.
AcceptableQuote_X(l, price, timestamp) ==
    /\ SaturatingSub(now, timestamp) <= l.fiat_peg_config.staleness_threshold
    /\ SaturatingSub(now, timestamp) <= MaxPriceAge
    /\ (/\ l.last_oracle_price # None
        /\ SaturatingSub(now, l.last_oracle_timestamp) <= MaxPriceAge
        /\ l.last_oracle_price > price)
       => PriceMove(l, price) <= l.fiat_peg_config.volatility_threshold

AcceptableQuote(l, price, timestamp) ==
    /\ SaturatingSub(now, timestamp) <= l.fiat_peg_config.staleness_threshold
    /\ SaturatingSub(now, timestamp) <= MaxPriceAge
    /\ (/\ l.last_oracle_price # None
        /\ SaturatingSub(now, l.last_oracle_timestamp) <= MaxPriceAge
        /\ l.last_oracle_price > 0)
       => PriceMove(l, price) <= l.fiat_peg_config.volatility_threshold

\* Truncating division of a positive dividend; a negative price gives a
\* result the next guard refuses.
calculate_fiat_pegged_rent(l, price) ==
    IF price > 0 THEN (l.fiat_peg_config.target_usd_amount * OracleUnit) \div price ELSE 0

process_fiat_pegged_rent_payment(id, price, timestamp) ==
    LET l    == leases[id]
        rent == calculate_fiat_pegged_rent(l, price)
    IN
    /\ l.state = "Active"
    /\ l.fiat_peg_config # None
    /\ l.fiat_peg_config.enabled
    /\ price # 0        \* a zero price makes the division panic
    /\ AcceptableQuote(l, price, timestamp)
    /\ rent > 0
    /\ l.total_paid_rent + rent <= MaxPaid
    /\ leases' = [leases EXCEPT ![id] =
          [l EXCEPT !.last_oracle_price = price,
                    !.last_oracle_timestamp = timestamp,
                    !.last_rent_payment_timestamp = now,
                    !.total_paid_rent = @ + rent]]
    /\ UNCHANGED <<now, next_lease_id, escrow_vault, credit_records, refunded>>

-----------------------------------------------------------------------------
\* Wrong: one month's rent is taken as paid.
termination_refund_X(l) ==
    LET calculated == calculate_termination_refund(l.rent_amount, l.start_date,
                          l.end_date, now, l.rent_amount)
    IN  IF calculated = None THEN 0 ELSE calculated

\* What terminate_lease returns: the refund of the unused period, less a
\* tenth within a day of the last rent payment.
termination_refund(l) ==
    LET calculated == calculate_termination_refund(l.rent_amount, l.start_date,
                          l.end_date, now, l.total_paid_rent)
        refund     == IF calculated = None THEN 0 ELSE calculated
    IN  IF SaturatingSub(now, l.last_rent_payment_timestamp) < DaySecs /\ refund > 0
        THEN refund - refund \div 10
        ELSE refund

\* Wrong: a lease in any state can be terminated.
CanTerminate_X(l, caller) == caller \in {l.lessor, l.lessee}

CanTerminate(l, caller) == caller \in {l.lessor, l.lessee} /\ l.state = "Active"

terminate_lease(id, caller) ==
    LET l == leases[id] IN
    /\ CanTerminate(l, caller)
    /\ leases' = [leases EXCEPT ![id] = [l EXCEPT !.state = "Closed"]]
    /\ refunded' = Put(refunded, id, termination_refund(l))
    /\ UNCHANGED <<now, next_lease_id, escrow_vault, credit_records>>

-----------------------------------------------------------------------------
Next ==
    \/ Tick
    \/ initialize
    \/ \E lessor, lessee \in Users, rent \in Rents, deposit \in Deposits,
          term \in Terms, grace \in Graces, rate \in FeeRates, peg \in Pegs :
          create_lease(lessor, lessee, rent, deposit, term, grace, rate, peg)
    \/ \E id \in DOMAIN leases :
          \/ \E user \in Users : activate_lease(id, user)
          \/ \E amount \in Amounts : process_rent_payment(id, amount)
          \/ handle_rent_payment_failure(id)
          \/ check_grace_period_expiry(id)
          \/ \E user \in Users : trigger_grace_period_check(id, user)
          \/ \E price \in Prices, timestamp \in QuoteTimes :
                process_fiat_pegged_rent_payment(id, price, timestamp)
          \/ \E user \in Users : terminate_lease(id, user)

Spec == Init /\ [][Next]_vars

(***************************************************************************)
(* Ledger time advances and someone calls the permissionless grace check:  *)
(* the lessor has the arrears to gain from it.  Nothing else is promised,  *)
(* neither payments nor payment failures.                                  *)
(***************************************************************************)
Fairness ==
    /\ WF_vars(Tick)
    /\ \A id \in 1..MaxLeases :
          WF_vars(id \in DOMAIN leases /\ check_grace_period_expiry(id))

FairSpec == Spec /\ Fairness

-----------------------------------------------------------------------------
\* The variables keep their types: ids are handed out without gaps, every
\* amount is non-negative, and what is stored is a well-formed record.
TypeOK ==
    /\ now \in StartTime..MaxTime
    /\ next_lease_id \in Nat \ {0}
    /\ leases \in [1..(next_lease_id - 1) -> Lease]
    /\ escrow_vault \in EscrowVault
    /\ DOMAIN credit_records \subseteq Users
    /\ \A u \in DOMAIN credit_records : credit_records[u] \in CreditRecord
    /\ DOMAIN refunded \subseteq DOMAIN leases
    /\ \A id \in DOMAIN refunded : refunded[id] \in Int

WithState(states) == {id \in DOMAIN leases : leases[id].state \in states}

Deduction(l) == calculate_deduction_amount(total_arrears(l), l.deposit_amount)

\* The shared vault is exact: what was locked is the deposits of the leases
\* ever activated, what the lessors got is the deductions of the evicted ones,
\* each taken once, and the rest is available (activate_lease,
\* execute_arrears_deduction).
VaultBacksDeposits ==
    /\ escrow_vault.total_locked =
          SumFunctionOnSet([id \in DOMAIN leases |-> leases[id].deposit_amount],
                           WithState(LeaseState \ {"Pending"}))
    /\ escrow_vault.lessor_treasury =
          SumFunctionOnSet([id \in DOMAIN leases |-> Deduction(leases[id])],
                           WithState({"EvictionPending"}))
    /\ escrow_vault.available_balance =
          escrow_vault.total_locked - escrow_vault.lessor_treasury

\* An eviction is never stuck on EscrowVaultUnderflow: whenever a grace period
\* has run out, the shared vault still holds this lease's deduction, whatever
\* the other leases took (check_grace_period_expiry would otherwise roll back
\* and leave the lease in its grace period for good).
DeductionCovered ==
    \A id \in DOMAIN leases :
        GraceExpired(leases[id])
            => escrow_vault.available_balance >= Deduction(leases[id])

\* The shared vault is exact and can always pay the next eviction.
VaultSolvent == VaultBacksDeposits /\ DeductionCovered

\* An evicted lease was evicted after its grace period and had its arrears
\* deducted in the same call; no other lease did.  So a direct call of
\* execute_arrears_deduction always returns an error.
EvictionSettled ==
    \A id \in DOMAIN leases :
        LET l == leases[id] IN
        /\ l.arrears_processed <=> l.state = "EvictionPending"
        /\ l.state = "EvictionPending" =>
              /\ l.dunning_start_timestamp # None
              /\ now > l.dunning_start_timestamp + l.max_grace_period

\* Arrears exist exactly while a lease is in dunning: one rent plus its late
\* fee from the failure to the recovery or the eviction, nothing before,
\* between or after (handle_rent_payment_failure, process_rent_payment).
ArrearsMatchState ==
    \A id \in DOMAIN leases :
        LET l == leases[id] IN
        IF l.state \in {"GracePeriod", "EvictionPending"}
        THEN /\ l.dunning_start_timestamp # None
             /\ l.dunning_start_timestamp <= now
             /\ l.outstanding_balance = l.rent_amount
             /\ l.accumulated_late_fees = calculate_late_fee(l, l.rent_amount)
        ELSE l.dunning_start_timestamp = None /\ total_arrears(l) = 0

Defaulted(u) ==
    {id \in WithState({"EvictionPending"}) :
        leases[id].lessee = u /\ residual_debt(leases[id]) > 0}

\* A lessee's credit record lists exactly the evicted leases whose arrears
\* exceeded the deposit, each once, and counts them (update_credit_record).
CreditListsDefaults ==
    \A u \in Users :
        LET r   == credit_record(u)
            ids == r.associated_lease_ids
        IN  /\ {ids[i] : i \in DOMAIN ids} = Defaulted(u)
            /\ \A i, j \in DOMAIN ids : ids[i] = ids[j] => i = j
            /\ r.default_count = Len(ids)

\* The debt on record is the sum of what the deposits did not cover
\* (update_credit_record).
CreditDebtExact ==
    \A u \in Users :
        credit_record(u).total_debt_amount =
            SumFunctionOnSet([id \in DOMAIN leases |-> residual_debt(leases[id])],
                             Defaulted(u))

\* A lessee's credit record is exact: each default listed once, and the debt their sum.
CreditExact == CreditListsDefaults /\ CreditDebtExact

\* A refund is returned once, for a closed lease, and never exceeds the rent
\* recorded for it (terminate_lease).
RefundWithinPaid ==
    /\ DOMAIN refunded = WithState({"Closed"})
    /\ \A id \in DOMAIN refunded :
          refunded[id] >= 0 /\ refunded[id] <= leases[id].total_paid_rent

-----------------------------------------------------------------------------
\* The leases that are stored both before and after a step.
Kept == DOMAIN leases \cap DOMAIN leases'

\* Arrears are never forgiven: they leave a lease only with a payment that
\* covers them in full (process_rent_payment, terminate_lease).
ArrearsNeverForgiven ==
    [][\A id \in Kept :
          total_arrears(leases'[id]) < total_arrears(leases[id])
              => leases'[id].total_paid_rent
                    >= leases[id].total_paid_rent + total_arrears(leases[id])]_vars

\* A lease that is closed or evicted never changes again: no payment, failure,
\* check or termination revives it.
SettledLeasesFrozen ==
    [][\A id \in Kept :
          leases[id].state \in {"Closed", "EvictionPending"}
              => leases'[id] = leases[id]]_vars

\* The circuit breaker: two successive pegged payments of a lease within the
\* hour after the first price never use prices further apart than the lease's
\* threshold, whatever happened to the lease in between (get_oracle_price).
CircuitBreakerHolds ==
    [][\A id \in Kept :
          LET l == leases[id]
              q == leases'[id].last_oracle_price
          IN  (/\ l.last_oracle_price # None /\ q # l.last_oracle_price
               /\ SaturatingSub(now, l.last_oracle_timestamp) <= MaxPriceAge)
              => PriceMove(l, q) <= l.fiat_peg_config.volatility_threshold]_vars

\* A lease does not stay in its grace period: it recovers, is evicted or is
\* wiped by initialize, as long as the time bound leaves room for the period.
GracePeriodResolves ==
    \A id \in 1..MaxLeases :
        (/\ id \in DOMAIN leases /\ leases[id].state = "GracePeriod"
         /\ leases[id].dunning_start_timestamp + leases[id].max_grace_period < MaxTime)
        ~> (id \in DOMAIN leases => leases[id].state # "GracePeriod")

-----------------------------------------------------------------------------
(***************************************************************************)
(* A statement of the documentation that the code does not keep.           *)
(***************************************************************************)
\* README.md:30: when the lease ends the protocol "releases the remaining
\* deposit to the tenant, and closes the record": the vault holds no deposit
\* of a closed lease.
ClosedDepositReleased ==
    escrow_vault.available_balance <=
        SumFunctionOnSet([id \in DOMAIN leases |-> leases[id].deposit_amount],
                         WithState({"Active", "GracePeriod", "EvictionPending"}))
=============================================================================
