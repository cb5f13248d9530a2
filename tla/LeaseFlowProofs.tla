-------------------------- MODULE LeaseFlowProofs --------------------------
(***************************************************************************)
(* Proofs about LeaseFlow, for every number of users and leases and every  *)
(* choice of amounts, rates, prices and dates.                             *)
(***************************************************************************)
EXTENDS LeaseFlow, SumTheorems, TLAPS

-----------------------------------------------------------------------------
(***************************************************************************)
(* The arithmetic the contract relies on.                                  *)
(***************************************************************************)
\* Whatever calendar arithmetic says, a month has 28 to 31 days: the divisor
\* of the proration is never zero (get_seconds_in_month).
LEMMA MonthLength ==
    ASSUME NEW timestamp
    PROVE  /\ get_days_in_month(timestamp \div DaySecs) \in 28..31
           /\ get_seconds_in_month(timestamp) \in Nat \ {0}
<1> DEFINE days == timestamp \div DaySecs
           year == 1970 + days \div 365
           back == GoBack[<<year, (days % 365) - leap_years_before(year)>>]
           on   == GoOn[back]
           mon  == MonthOf[<<on[1], 1, on[2]>>]
<1> HIDE DEF days, year, back, on, mon
<1>1. \A y, m : days_in_month(y, m) \in 28..31
  BY DEF days_in_month
<1>2. days_in_month(on[1], mon) \in 28..31
  BY <1>1
<1>3. get_days_in_month(days) = days_in_month(on[1], mon)
  BY DEF get_days_in_month, year, back, on, mon
<1>4. get_days_in_month(days) \in 28..31
  BY <1>2, <1>3
<1> QED
  BY <1>4, DaySecsAssumption DEF get_seconds_in_month, days

LEMMA ProratedRent ==
    ASSUME NEW rent \in Int, NEW start \in Int, NEW end \in Int
    PROVE  calculate_prorated_rent(rent, start, end) \in Int \cup {None}
<1> DEFINE month == get_seconds_in_month(start)
<1>1. month \in Nat \ {0}
  BY MonthLength
<1>2. \A x \in Int : x \div month \in Int
  BY <1>1
<1>3. rent * (end - start) \in Int
  OBVIOUS
<1> QED
  BY <1>2, <1>3 DEF calculate_prorated_rent

\* The refund of an unused period lies between nothing and what was paid
\* (calculate_termination_refund).
LEMMA TerminationRefund ==
    ASSUME NEW rent \in Nat, NEW start \in Int, NEW end \in Int,
           NEW time \in Int, NEW paid \in Nat,
           calculate_termination_refund(rent, start, end, time, paid) # None
    PROVE  calculate_termination_refund(rent, start, end, time, paid) \in 0..paid
<1> DEFINE month  == get_seconds_in_month(time)
           unused == end - time
           share  == (rent * unused) \div month
<1>1. month \in Nat \ {0}
  BY MonthLength
<1>2. \A x \in Int : x \div month \in Int
  BY <1>1
<1>3. rent * unused \in Int
  OBVIOUS
<1>4. share \in Int
  BY <1>2, <1>3
<1> QED
  BY <1>4 DEF calculate_termination_refund, MinOf

LEMMA LateFee ==
    ASSUME NEW l \in Lease
    PROVE  calculate_late_fee(l, l.rent_amount) \in Nat
<1>1. l.rent_amount \in Nat /\ l.late_fee_rate \in Nat
  BY DEF Lease
<1>2. \A a, b \in Nat : a * b \in Nat
  OBVIOUS
<1>3. \A a \in Nat : a \div 10000 \in Nat
  OBVIOUS
<1> QED
  BY <1>1, <1>2, <1>3 DEF calculate_late_fee

\* What terminate_lease returns lies between nothing and what was paid.
LEMMA ReturnedRefund ==
    ASSUME NEW l \in Lease, now \in Nat
    PROVE  termination_refund(l) \in 0..l.total_paid_rent
<1> DEFINE calculated == calculate_termination_refund(l.rent_amount, l.start_date,
                             l.end_date, now, l.total_paid_rent)
           refund     == IF calculated = None THEN 0 ELSE calculated
<1>1. refund \in 0..l.total_paid_rent
  BY TerminationRefund DEF Lease
<1>2. \A n \in Nat : n - n \div 10 \in 0..n
  OBVIOUS
<1>3. l.total_paid_rent \in Nat
  BY DEF Lease
<1> HIDE DEF calculated, refund
<1>4. \/ termination_refund(l) = refund
      \/ termination_refund(l) = refund - refund \div 10
  BY DEF termination_refund, calculated, refund
<1> QED
  BY <1>1, <1>2, <1>3, <1>4

-----------------------------------------------------------------------------
(***************************************************************************)
(* The records the actions store.                                          *)
(***************************************************************************)
LEMMA InitialRent ==
    ASSUME NEW rent \in Int, NEW term \in Terms, now \in Nat
    PROVE  initial_rent(rent, term) \in Int
BY ProratedRent, InputAssumption DEF initial_rent

LEMMA PaidLease ==
    ASSUME NEW l \in Lease, NEW amount \in Nat, now \in Nat
    PROVE  Paid(l, amount) \in Lease
<1>1. ASSUME NEW d \in Nat \cup {None}, NEW p \in Nat
      PROVE  [l EXCEPT !.state = "Active", !.last_rent_payment_timestamp = now,
                       !.outstanding_balance = 0, !.accumulated_late_fees = 0,
                       !.dunning_start_timestamp = d, !.total_paid_rent = p] \in Lease
  BY DEF Lease, LeaseState
<1>2. /\ l.dunning_start_timestamp \in Nat \cup {None}
      /\ l.total_paid_rent + amount \in Nat
  BY DEF Lease
<1> QED
  BY <1>1, <1>2 DEF Paid

LEMMA ActivatedLease ==
    ASSUME NEW l \in Lease, now \in Nat
    PROVE  [l EXCEPT !.state = "Active", !.last_rent_payment_timestamp = now] \in Lease
BY DEF Lease, LeaseState

LEMMA OverdueLease ==
    ASSUME NEW l \in Lease, now \in Nat
    PROVE  [l EXCEPT !.state = "GracePeriod",
                     !.dunning_start_timestamp = now,
                     !.outstanding_balance = l.rent_amount,
                     !.accumulated_late_fees = calculate_late_fee(l, l.rent_amount)] \in Lease
<1>1. ASSUME NEW o \in Nat, NEW f \in Nat
      PROVE  [l EXCEPT !.state = "GracePeriod", !.dunning_start_timestamp = now,
                       !.outstanding_balance = o, !.accumulated_late_fees = f] \in Lease
  BY DEF Lease, LeaseState
<1>2. l.rent_amount \in Nat
  BY DEF Lease
<1> QED
  BY <1>1, <1>2, LateFee

LEMMA EvictedLease ==
    ASSUME NEW l \in Lease
    PROVE  /\ [l EXCEPT !.state = "EvictionPending"] \in Lease
           /\ [l EXCEPT !.arrears_processed = TRUE] \in Lease
BY DEF Lease, LeaseState

LEMMA ClosedLease ==
    ASSUME NEW l \in Lease
    PROVE  [l EXCEPT !.state = "Closed"] \in Lease
BY DEF Lease, LeaseState

LEMMA BilledLease ==
    ASSUME NEW l \in Lease, now \in Nat, NEW price \in Int, NEW timestamp \in Nat,
           NEW rent \in Nat
    PROVE  [l EXCEPT !.last_oracle_price = price, !.last_oracle_timestamp = timestamp,
                     !.last_rent_payment_timestamp = now,
                     !.total_paid_rent = @ + rent] \in Lease
<1>1. ASSUME NEW p \in Nat
      PROVE  [l EXCEPT !.last_oracle_price = price, !.last_oracle_timestamp = timestamp,
                       !.last_rent_payment_timestamp = now, !.total_paid_rent = p] \in Lease
  BY DEF Lease
<1>2. l.total_paid_rent + rent \in Nat
  BY DEF Lease
<1> QED
  BY <1>1, <1>2

LEMMA Arrears ==
    ASSUME NEW l \in Lease
    PROVE  /\ total_arrears(l) \in Nat
           /\ Deduction(l) \in Nat
           /\ Deduction(l) <= l.deposit_amount
           /\ residual_debt(l) \in Nat
BY DEF Lease, total_arrears, Deduction, residual_debt, calculate_deduction_amount, MinOf

LEMMA VaultCredit ==
    ASSUME NEW v \in EscrowVault, NEW n \in Nat
    PROVE  [v EXCEPT !.total_locked = @ + n, !.available_balance = @ + n] \in EscrowVault
<1>1. ASSUME NEW a \in Nat, NEW b \in Nat
      PROVE  [v EXCEPT !.total_locked = a, !.available_balance = b] \in EscrowVault
  BY DEF EscrowVault
<1>2. v.total_locked + n \in Nat /\ v.available_balance + n \in Nat
  BY DEF EscrowVault
<1> QED
  BY <1>1, <1>2

LEMMA VaultDebit ==
    ASSUME NEW v \in EscrowVault, NEW n \in Nat, v.available_balance >= n
    PROVE  [v EXCEPT !.available_balance = @ - n, !.lessor_treasury = @ + n] \in EscrowVault
<1>1. ASSUME NEW a \in Nat, NEW b \in Nat
      PROVE  [v EXCEPT !.available_balance = a, !.lessor_treasury = b] \in EscrowVault
  BY DEF EscrowVault
<1>2. v.available_balance - n \in Nat /\ v.lessor_treasury + n \in Nat
  BY DEF EscrowVault
<1> QED
  BY <1>1, <1>2

LEMMA PeggedRent ==
    ASSUME NEW l \in Lease, l.fiat_peg_config # None, NEW price \in Int,
           calculate_fiat_pegged_rent(l, price) > 0
    PROVE  calculate_fiat_pegged_rent(l, price) \in Nat
<1>1. l.fiat_peg_config.target_usd_amount \in Int
  BY DEF Lease, Peg
<1>2. \A a, b \in Int : a * b \in Int
  OBVIOUS
<1>3. l.fiat_peg_config.target_usd_amount * OracleUnit \in Int
  BY <1>1, <1>2, BoundAssumption
<1>4. CASE price > 0
  <2>1. \A a \in Int : a \div price \in Int
    BY <1>4
  <2> QED
    BY <2>1, <1>3, <1>4 DEF calculate_fiat_pegged_rent
<1>5. CASE ~(price > 0)
  BY <1>5 DEF calculate_fiat_pegged_rent
<1> QED
  BY <1>4, <1>5

LEMMA CreditUpdate ==
    ASSUME TypeOK, NEW u \in Users, NEW debt \in Nat, NEW id \in Nat
    PROVE  /\ DOMAIN update_credit_record(u, debt, id) \subseteq Users
           /\ \A v \in DOMAIN update_credit_record(u, debt, id) :
                 update_credit_record(u, debt, id)[v] \in CreditRecord
<1>1. credit_record(u) \in CreditRecord
  BY DEF TypeOK, credit_record, NoDefaults, CreditRecord
<1>2. now \in Nat
  BY BoundAssumption DEF TypeOK
<1> QED
  BY <1>1, <1>2 DEF TypeOK, update_credit_record, CreditRecord, Put

-----------------------------------------------------------------------------
(***************************************************************************)
(* Type correctness, action by action.                                     *)
(***************************************************************************)
LEMMA InitType == Init => TypeOK
BY BoundAssumption DEF Init, TypeOK, Fresh, EmptyVault, EscrowVault

\* Storing a well-formed record under an existing id keeps the map's type.
LEMMA StoreLease ==
    ASSUME TypeOK, NEW id \in DOMAIN leases, NEW m \in Lease,
           leases' = [leases EXCEPT ![id] = m], next_lease_id' = next_lease_id
    PROVE  /\ leases' \in [1..(next_lease_id' - 1) -> Lease]
           /\ DOMAIN leases' = DOMAIN leases
BY DEF TypeOK

LEMMA NextType == TypeOK /\ [Next]_vars => TypeOK'
<1> SUFFICES ASSUME TypeOK, [Next]_vars
             PROVE  TypeOK'
  OBVIOUS
<1>0. now \in Nat /\ \A id \in DOMAIN leases : leases[id] \in Lease
  BY BoundAssumption DEF TypeOK
<1>1. CASE Tick
  BY <1>1, BoundAssumption DEF Tick, TypeOK
<1>2. CASE initialize
  BY <1>2 DEF initialize, Fresh, EmptyVault, EscrowVault, TypeOK
<1>3. ASSUME NEW lessor \in Users, NEW lessee \in Users, NEW rent \in Rents,
             NEW deposit \in Deposits, NEW term \in Terms, NEW grace \in Graces,
             NEW rate \in FeeRates, NEW peg \in Pegs,
             create_lease(lessor, lessee, rent, deposit, term, grace, rate, peg)
      PROVE  TypeOK'
  <2> DEFINE l == [lessor |-> lessor, lessee |-> lessee,
           rent_amount |-> rent, deposit_amount |-> deposit,
           start_date |-> term.start_date, end_date |-> term.end_date,
           state |-> "Pending",
           max_grace_period |-> grace, late_fee_rate |-> rate,
           dunning_start_timestamp |-> None,
           outstanding_balance |-> 0, accumulated_late_fees |-> 0,
           last_rent_payment_timestamp |-> 0, arrears_processed |-> FALSE,
           prorated_initial_rent |-> initial_rent(rent, term),
           total_paid_rent |-> 0, fiat_peg_config |-> peg,
           last_oracle_price |-> None, last_oracle_timestamp |-> None]
  <2>1. initial_rent(rent, term) \in Int
    BY InitialRent, InputAssumption, <1>0
  <2>2. l \in Lease
    BY <1>3, <2>1, InputAssumption DEF create_lease, ValidTerms, Lease, LeaseState
  <2> HIDE DEF l
  <2>3. leases' = Put(leases, next_lease_id, l) /\ next_lease_id' = next_lease_id + 1
    BY <1>3 DEF create_lease, l
  <2>4. leases' \in [1..(next_lease_id' - 1) -> Lease] /\ DOMAIN leases \subseteq DOMAIN leases'
    <3>1. DOMAIN leases = 1..(next_lease_id - 1) /\ next_lease_id \in Nat \ {0}
      BY DEF TypeOK
    <3>2. DOMAIN leases \cup {next_lease_id} = 1..(next_lease_id' - 1)
      BY <2>3, <3>1
    <3> QED
      BY <1>0, <2>2, <2>3, <3>2 DEF Put
  <2>5. UNCHANGED <<now, escrow_vault, credit_records, refunded>>
    BY <1>3 DEF create_lease
  <2>6. next_lease_id' \in Nat \ {0}
    BY <2>3 DEF TypeOK
  <2> QED
    BY <2>4, <2>5, <2>6 DEF TypeOK
<1>4. ASSUME NEW id \in DOMAIN leases, NEW user \in Users, activate_lease(id, user)
      PROVE  TypeOK'
  <2>1. escrow_vault' \in EscrowVault
    <3>1. leases[id].deposit_amount \in Nat
      BY <1>0 DEF Lease
    <3> QED
      BY <1>4, <3>1, VaultCredit DEF activate_lease, TypeOK
  <2> QED
    BY <1>0, <1>4, <2>1, ActivatedLease, StoreLease DEF activate_lease, TypeOK
<1>5. ASSUME NEW id \in DOMAIN leases, NEW amount \in Amounts,
             process_rent_payment(id, amount)
      PROVE  TypeOK'
  <2>1. leases[id].rent_amount \in Nat
    BY <1>0 DEF Lease
  <2>2. amount \in Nat
    BY <1>5, <2>1, InputAssumption DEF process_rent_payment
  <2> QED
    BY <1>0, <1>5, <2>2, PaidLease, StoreLease DEF process_rent_payment, TypeOK
<1>6. ASSUME NEW id \in DOMAIN leases, handle_rent_payment_failure(id)
      PROVE  TypeOK'
  BY <1>0, <1>6, OverdueLease, StoreLease DEF handle_rent_payment_failure, TypeOK
<1>7. ASSUME NEW id \in DOMAIN leases, check_grace_period_expiry(id)
      PROVE  TypeOK'
  <2> DEFINE l == [leases[id] EXCEPT !.state = "EvictionPending"]
             m == [l EXCEPT !.arrears_processed = TRUE]
             cut == Deduction(l)
  <2>1. l \in Lease /\ m \in Lease
    BY <1>0, EvictedLease
  <2>2. cut \in Nat /\ residual_debt(l) \in Nat /\ l.lessee \in Users
    BY <2>1, Arrears DEF Lease
  <2>3. execute_arrears_deduction(id, l) /\ UNCHANGED <<now, next_lease_id, refunded>>
    BY <1>7 DEF check_grace_period_expiry
  <2> HIDE DEF l
  <2>4. /\ leases' = [leases EXCEPT ![id] = m]
        /\ escrow_vault.available_balance >= cut
        /\ escrow_vault' = [escrow_vault EXCEPT !.available_balance = @ - cut,
                                                !.lessor_treasury = @ + cut]
        /\ credit_records' = IF residual_debt(l) > 0
                             THEN update_credit_record(l.lessee, residual_debt(l), id)
                             ELSE credit_records
    BY <2>3 DEF execute_arrears_deduction, DeductedVault, VaultCovers, Deduction
  <2> HIDE DEF m, cut
  <2>5. escrow_vault' \in EscrowVault
    BY <2>2, <2>4, VaultDebit DEF TypeOK
  <2>6. leases' \in [1..(next_lease_id' - 1) -> Lease] /\ DOMAIN leases' = DOMAIN leases
    BY <2>1, <2>3, <2>4, StoreLease
  <2>7. id \in Nat
    BY DEF TypeOK
  <2>8. /\ DOMAIN credit_records' \subseteq Users
        /\ \A u \in DOMAIN credit_records' : credit_records'[u] \in CreditRecord
    BY <2>2, <2>4, <2>7, CreditUpdate DEF TypeOK
  <2> QED
    BY <2>3, <2>5, <2>6, <2>8 DEF TypeOK
<1>8. ASSUME NEW id \in DOMAIN leases, NEW user \in Users,
             trigger_grace_period_check(id, user)
      PROVE  TypeOK'
  BY <1>7, <1>8 DEF trigger_grace_period_check
<1>9. ASSUME NEW id \in DOMAIN leases, NEW price \in Prices, NEW timestamp \in QuoteTimes,
             process_fiat_pegged_rent_payment(id, price, timestamp)
      PROVE  TypeOK'
  <2> DEFINE rent == calculate_fiat_pegged_rent(leases[id], price)
  <2>1. price \in Int /\ timestamp \in Nat
    BY InputAssumption
  <2>2. rent \in Nat
    BY <1>0, <1>9, <2>1, PeggedRent DEF process_fiat_pegged_rent_payment
  <2>3. /\ leases' = [leases EXCEPT ![id] =
              [leases[id] EXCEPT !.last_oracle_price = price,
                                 !.last_oracle_timestamp = timestamp,
                                 !.last_rent_payment_timestamp = now,
                                 !.total_paid_rent = @ + rent]]
        /\ UNCHANGED <<now, next_lease_id, escrow_vault, credit_records, refunded>>
    BY <1>9 DEF process_fiat_pegged_rent_payment
  <2> HIDE DEF rent
  <2> QED
    BY <1>0, <2>1, <2>2, <2>3, BilledLease, StoreLease DEF TypeOK
<1>10. ASSUME NEW id \in DOMAIN leases, NEW user \in Users, terminate_lease(id, user)
       PROVE  TypeOK'
  <2>1. termination_refund(leases[id]) \in Int
    <3>1. leases[id].total_paid_rent \in Nat
      BY <1>0 DEF Lease
    <3> QED
      BY <1>0, <3>1, ReturnedRefund
  <2>2. leases' \in [1..(next_lease_id' - 1) -> Lease] /\ DOMAIN leases' = DOMAIN leases
    BY <1>0, <1>10, ClosedLease, StoreLease DEF terminate_lease
  <2> QED
    BY <1>10, <2>1, <2>2 DEF terminate_lease, Put, TypeOK
<1>11. CASE UNCHANGED vars
  BY <1>11 DEF vars, TypeOK
<1> QED
  BY <1>1, <1>2, <1>3, <1>4, <1>5, <1>6, <1>7, <1>8, <1>9, <1>10, <1>11 DEF Next

\* Every reachable state of the contract is well typed: amounts never go
\* negative and the ids in storage are exactly those handed out.
THEOREM TypeCorrect == Spec => []TypeOK
BY InitType, NextType, PTL DEF Spec

-----------------------------------------------------------------------------
(***************************************************************************)
(* The inductive invariant.  What a lease owes follows from its state and  *)
(* the ledger time alone, so both ArrearsMatchState and EvictionSettled    *)
(* are one predicate of a single lease record.                             *)
(***************************************************************************)
InDunning(l) == l.state \in {"GracePeriod", "EvictionPending"}

DunningOK(l, time) ==
    /\ InDunning(l) =>
          /\ l.dunning_start_timestamp # None
          /\ l.dunning_start_timestamp <= time
          /\ l.outstanding_balance = l.rent_amount
          /\ l.accumulated_late_fees = calculate_late_fee(l, l.rent_amount)
    /\ ~InDunning(l) => l.dunning_start_timestamp = None /\ total_arrears(l) = 0
    /\ l.arrears_processed <=> l.state = "EvictionPending"
    /\ l.state = "EvictionPending" =>
          time > l.dunning_start_timestamp + l.max_grace_period

AllDunningOK == \A id \in DOMAIN leases : DunningOK(leases[id], now)

\* Deductions only move money inside the vault.
VaultConserved ==
    escrow_vault.available_balance + escrow_vault.lessor_treasury
        = escrow_vault.total_locked

IInv ==
    /\ TypeOK
    /\ AllDunningOK
    /\ VaultConserved
    /\ RefundWithinPaid

LEMMA DunningMeaning == AllDunningOK <=> ArrearsMatchState /\ EvictionSettled
BY DEF AllDunningOK, DunningOK, InDunning, ArrearsMatchState, EvictionSettled

LEMMA DunningLater ==
    ASSUME NEW l \in Lease, NEW t \in Nat, NEW u \in Nat, t <= u, DunningOK(l, t)
    PROVE  DunningOK(l, u)
BY DEF DunningOK, InDunning, Lease

LEMMA ActivatedDunning ==
    ASSUME NEW l \in Lease, now \in Nat, DunningOK(l, now), l.state = "Pending"
    PROVE  DunningOK([l EXCEPT !.state = "Active", !.last_rent_payment_timestamp = now], now)
<1> DEFINE m == [l EXCEPT !.state = "Active", !.last_rent_payment_timestamp = now]
<1>1. /\ m.state = "Active" /\ m.dunning_start_timestamp = l.dunning_start_timestamp
      /\ m.outstanding_balance = l.outstanding_balance
      /\ m.accumulated_late_fees = l.accumulated_late_fees
      /\ m.arrears_processed = l.arrears_processed
  BY DEF Lease
<1> HIDE DEF m
<1> QED
  BY <1>1 DEF DunningOK, InDunning, total_arrears, m

LEMMA PaidDunning ==
    ASSUME NEW l \in Lease, NEW amount \in Nat, now \in Nat, DunningOK(l, now),
           l.state \in {"Active", "GracePeriod"}
    PROVE  DunningOK(Paid(l, amount), now)
<1> DEFINE m == Paid(l, amount)
<1>1. /\ m.state = "Active" /\ m.outstanding_balance = 0 /\ m.accumulated_late_fees = 0
      /\ m.dunning_start_timestamp =
             IF l.state = "GracePeriod" THEN None ELSE l.dunning_start_timestamp
      /\ m.arrears_processed = l.arrears_processed
  BY DEF Lease, Paid
<1> HIDE DEF m
<1> QED
  BY <1>1 DEF DunningOK, InDunning, total_arrears, m

LEMMA OverdueDunning ==
    ASSUME NEW l \in Lease, now \in Nat, DunningOK(l, now), l.state = "Active"
    PROVE  DunningOK([l EXCEPT !.state = "GracePeriod",
                     !.dunning_start_timestamp = now,
                     !.outstanding_balance = l.rent_amount,
                     !.accumulated_late_fees = calculate_late_fee(l, l.rent_amount)], now)
<1> DEFINE f == calculate_late_fee(l, l.rent_amount)
           m == [l EXCEPT !.state = "GracePeriod", !.dunning_start_timestamp = now,
                          !.outstanding_balance = l.rent_amount,
                          !.accumulated_late_fees = f]
<1>1. f \in Nat
  BY LateFee
<1> HIDE DEF f
<1>2. /\ m.state = "GracePeriod" /\ m.outstanding_balance = l.rent_amount
      /\ m.rent_amount = l.rent_amount /\ m.late_fee_rate = l.late_fee_rate
      /\ m.accumulated_late_fees = f /\ m.dunning_start_timestamp = now
      /\ m.arrears_processed = l.arrears_processed
  BY <1>1 DEF Lease
<1> HIDE DEF m
<1>3. calculate_late_fee(m, m.rent_amount) = f
  BY <1>2 DEF calculate_late_fee, f
<1>4. DunningOK(m, now)
  BY <1>2, <1>3, NoneAssumption DEF DunningOK, InDunning, Lease
<1> QED
  BY <1>4 DEF m, f

LEMMA EvictedDunning ==
    ASSUME NEW l \in Lease, now \in Nat, DunningOK(l, now), GraceExpired(l)
    PROVE  DunningOK([[l EXCEPT !.state = "EvictionPending"]
                         EXCEPT !.arrears_processed = TRUE], now)
<1> DEFINE m == [[l EXCEPT !.state = "EvictionPending"] EXCEPT !.arrears_processed = TRUE]
<1>1. /\ m.state = "EvictionPending" /\ m.arrears_processed = TRUE
      /\ m.outstanding_balance = l.outstanding_balance
      /\ m.rent_amount = l.rent_amount /\ m.late_fee_rate = l.late_fee_rate
      /\ m.accumulated_late_fees = l.accumulated_late_fees
      /\ m.dunning_start_timestamp = l.dunning_start_timestamp
      /\ m.max_grace_period = l.max_grace_period
  BY DEF Lease
<1> HIDE DEF m
<1>2. calculate_late_fee(m, m.rent_amount) = calculate_late_fee(l, l.rent_amount)
  BY <1>1 DEF calculate_late_fee
<1>3. DunningOK(m, now)
  BY <1>1, <1>2 DEF DunningOK, InDunning, GraceExpired
<1> QED
  BY <1>3 DEF m

LEMMA BilledDunning ==
    ASSUME NEW l \in Lease, now \in Nat, DunningOK(l, now), l.state = "Active",
           NEW price \in Int, NEW timestamp \in Nat, NEW rent \in Nat
    PROVE  DunningOK([l EXCEPT !.last_oracle_price = price,
                               !.last_oracle_timestamp = timestamp,
                               !.last_rent_payment_timestamp = now,
                               !.total_paid_rent = @ + rent], now)
<1> DEFINE m == [l EXCEPT !.last_oracle_price = price, !.last_oracle_timestamp = timestamp,
                          !.last_rent_payment_timestamp = now,
                          !.total_paid_rent = @ + rent]
<1>1. /\ m.state = l.state /\ m.dunning_start_timestamp = l.dunning_start_timestamp
      /\ m.outstanding_balance = l.outstanding_balance
      /\ m.accumulated_late_fees = l.accumulated_late_fees
      /\ m.arrears_processed = l.arrears_processed
  BY DEF Lease
<1> HIDE DEF m
<1> QED
  BY <1>1 DEF DunningOK, InDunning, total_arrears, m

LEMMA ClosedDunning ==
    ASSUME NEW l \in Lease, now \in Nat, DunningOK(l, now), l.state = "Active"
    PROVE  DunningOK([l EXCEPT !.state = "Closed"], now)
<1> DEFINE m == [l EXCEPT !.state = "Closed"]
<1>1. /\ m.state = "Closed" /\ m.dunning_start_timestamp = l.dunning_start_timestamp
      /\ m.outstanding_balance = l.outstanding_balance
      /\ m.accumulated_late_fees = l.accumulated_late_fees
      /\ m.arrears_processed = l.arrears_processed
  BY DEF Lease
<1> HIDE DEF m
<1> QED
  BY <1>1 DEF DunningOK, InDunning, total_arrears, m

LEMMA StoreDunning ==
    ASSUME TypeOK, AllDunningOK, NEW id \in DOMAIN leases, NEW m, DunningOK(m, now),
           leases' = [leases EXCEPT ![id] = m], now' = now
    PROVE  AllDunningOK'
BY DEF TypeOK, AllDunningOK

LEMMA StoreRefund ==
    ASSUME TypeOK, RefundWithinPaid, NEW id \in DOMAIN leases, NEW m,
           leases[id].state # "Closed", m.state # "Closed",
           leases' = [leases EXCEPT ![id] = m], refunded' = refunded
    PROVE  RefundWithinPaid'
<1>1. WithState({"Closed"})' = WithState({"Closed"})
  BY DEF TypeOK, WithState
<1>2. \A i \in DOMAIN refunded : i # id /\ leases'[i] = leases[i]
  BY DEF RefundWithinPaid, WithState, TypeOK
<1> QED
  BY <1>1, <1>2 DEF RefundWithinPaid

LEMMA InitInv == Init => IInv
<1> SUFFICES ASSUME Init
             PROVE  IInv
  OBVIOUS
<1>1. TypeOK
  BY InitType
<1>2. DOMAIN leases = {} /\ DOMAIN refunded = {}
  BY DEF Init, Fresh
<1>3. AllDunningOK
  BY <1>2 DEF AllDunningOK
<1>4. VaultConserved
  BY DEF Init, Fresh, EmptyVault, VaultConserved
<1>5. RefundWithinPaid
  BY <1>2 DEF RefundWithinPaid, WithState
<1> QED
  BY <1>1, <1>3, <1>4, <1>5 DEF IInv

\* An existing lease is replaced by m, and nothing is locked or deducted.
LEMMA StepOnLease ==
    ASSUME IInv, TypeOK', NEW id \in DOMAIN leases, NEW m, DunningOK(m, now),
           leases[id].state # "Closed", m.state # "Closed",
           leases' = [leases EXCEPT ![id] = m],
           UNCHANGED <<now, refunded>>, VaultConserved'
    PROVE  IInv'
BY StoreDunning, StoreRefund DEF IInv

LEMMA NextInv == IInv /\ [Next]_vars => IInv'
<1> SUFFICES ASSUME IInv, [Next]_vars
             PROVE  IInv'
  OBVIOUS
<1>0. /\ TypeOK /\ TypeOK' /\ AllDunningOK /\ VaultConserved /\ RefundWithinPaid
      /\ now \in Nat
      /\ \A id \in DOMAIN leases : leases[id] \in Lease /\ DunningOK(leases[id], now)
  <2>1. TypeOK /\ AllDunningOK /\ VaultConserved /\ RefundWithinPaid
    BY DEF IInv
  <2>2. TypeOK'
    BY <2>1, NextType
  <2>3. now \in Nat /\ \A id \in DOMAIN leases : leases[id] \in Lease
    BY <2>1, BoundAssumption DEF TypeOK
  <2>4. \A id \in DOMAIN leases : DunningOK(leases[id], now)
    BY <2>1 DEF AllDunningOK
  <2> QED
    BY <2>1, <2>2, <2>3, <2>4
<1>a. (UNCHANGED escrow_vault) => VaultConserved'
  BY <1>0 DEF VaultConserved
<1>1. CASE Tick
  <2>1. now' \in Nat /\ now <= now' /\ UNCHANGED <<leases, escrow_vault, refunded>>
    BY <1>0, <1>1 DEF Tick
  <2>2. AllDunningOK'
    BY <1>0, <2>1, DunningLater DEF AllDunningOK
  <2> QED
    BY <1>0, <1>a, <2>1, <2>2 DEF IInv, RefundWithinPaid, WithState
<1>2. CASE initialize
  <2>1. DOMAIN leases' = {} /\ DOMAIN refunded' = {}
    BY <1>2 DEF initialize, Fresh
  <2>2. VaultConserved'
    BY <1>2 DEF initialize, Fresh, EmptyVault, VaultConserved
  <2> QED
    BY <1>0, <2>1, <2>2 DEF IInv, AllDunningOK, RefundWithinPaid, WithState
<1>3. ASSUME NEW lessor \in Users, NEW lessee \in Users, NEW rent \in Rents,
             NEW deposit \in Deposits, NEW term \in Terms, NEW grace \in Graces,
             NEW rate \in FeeRates, NEW peg \in Pegs,
             create_lease(lessor, lessee, rent, deposit, term, grace, rate, peg)
      PROVE  IInv'
  <2> DEFINE n == next_lease_id
             l == leases'[n]
  <2>1. /\ DOMAIN leases' = DOMAIN leases \cup {n}
        /\ \A id \in DOMAIN leases : id # n => leases'[id] = leases[id]
        /\ n \notin DOMAIN leases
        /\ UNCHANGED <<now, escrow_vault, refunded>>
    BY <1>0, <1>3 DEF create_lease, Put, TypeOK
  <2>2. /\ l.state = "Pending" /\ l.dunning_start_timestamp = None
        /\ l.outstanding_balance = 0 /\ l.accumulated_late_fees = 0
        /\ l.arrears_processed = FALSE
    BY <1>3 DEF create_lease, Put
  <2> HIDE DEF l
  <2>3. DunningOK(l, now)
    BY <2>2 DEF DunningOK, InDunning, total_arrears
  <2>4. AllDunningOK'
    BY <1>0, <2>1, <2>3 DEF AllDunningOK, l
  <2>5. WithState({"Closed"})' = WithState({"Closed"})
    BY <2>1, <2>2 DEF WithState, l
  <2>6. RefundWithinPaid'
    BY <1>0, <2>1, <2>5 DEF RefundWithinPaid, WithState
  <2> QED
    BY <1>0, <1>a, <2>1, <2>4, <2>6 DEF IInv
<1>4. ASSUME NEW id \in DOMAIN leases, NEW user \in Users, activate_lease(id, user)
      PROVE  IInv'
  <2> DEFINE l == leases[id]
             m == [l EXCEPT !.state = "Active", !.last_rent_payment_timestamp = now]
             v == escrow_vault
             n == l.deposit_amount
  <2>1. /\ l.state = "Pending" /\ leases' = [leases EXCEPT ![id] = m]
        /\ v' = [v EXCEPT !.total_locked = @ + n, !.available_balance = @ + n]
        /\ UNCHANGED <<now, refunded>>
    BY <1>4 DEF activate_lease, CanActivate
  <2>2. l \in Lease /\ DunningOK(m, now) /\ n \in Nat /\ v \in EscrowVault
    BY <1>0, <2>1, ActivatedDunning DEF Lease, TypeOK
  <2>3. m.state = "Active"
    BY <2>2 DEF Lease
  <2> HIDE DEF l, m, n
  <2>4. VaultConserved'
    BY <1>0, <2>1, <2>2 DEF VaultConserved, EscrowVault
  <2> QED
    BY <1>0, <2>1, <2>2, <2>3, <2>4, StepOnLease DEF l
<1>5. ASSUME NEW id \in DOMAIN leases, NEW amount \in Amounts,
             process_rent_payment(id, amount)
      PROVE  IInv'
  <2> DEFINE l == leases[id]
             m == Paid(l, amount)
  <2>1. /\ l.state \in {"Active", "GracePeriod"} /\ amount >= l.rent_amount
        /\ leases' = [leases EXCEPT ![id] = m]
        /\ UNCHANGED <<now, escrow_vault, refunded>>
    BY <1>5 DEF process_rent_payment
  <2>2. l \in Lease /\ l.rent_amount \in Nat
    BY <1>0 DEF Lease
  <2>3. amount \in Nat
    BY <2>1, <2>2, InputAssumption
  <2>4. DunningOK(m, now)
    BY <1>0, <2>1, <2>2, <2>3, PaidDunning
  <2>5. m.state = "Active"
    BY <2>2 DEF Paid, Lease
  <2> HIDE DEF m
  <2> QED
    BY <1>0, <1>a, <2>1, <2>4, <2>5, StepOnLease
<1>6. ASSUME NEW id \in DOMAIN leases, handle_rent_payment_failure(id)
      PROVE  IInv'
  <2> DEFINE l == leases[id]
             m == [l EXCEPT !.state = "GracePeriod", !.dunning_start_timestamp = now,
                       !.outstanding_balance = l.rent_amount,
                       !.accumulated_late_fees = calculate_late_fee(l, l.rent_amount)]
  <2>1. /\ l.state = "Active" /\ leases' = [leases EXCEPT ![id] = m]
        /\ UNCHANGED <<now, escrow_vault, refunded>>
    BY <1>6 DEF handle_rent_payment_failure
  <2>2. l \in Lease /\ DunningOK(m, now)
    BY <1>0, <2>1, OverdueDunning
  <2>3. m.state = "GracePeriod"
    BY <2>2 DEF Lease
  <2> HIDE DEF m
  <2> QED
    BY <1>0, <1>a, <2>1, <2>2, <2>3, StepOnLease
<1>7. ASSUME NEW id \in DOMAIN leases, check_grace_period_expiry(id)
      PROVE  IInv'
  <2> DEFINE k == leases[id]
             l == [k EXCEPT !.state = "EvictionPending"]
             m == [l EXCEPT !.arrears_processed = TRUE]
             v == escrow_vault
             n == Deduction(l)
  <2>1. /\ GraceExpired(k) /\ k.state = "GracePeriod" /\ UNCHANGED <<now, refunded>>
        /\ execute_arrears_deduction(id, l)
    BY <1>7 DEF check_grace_period_expiry, GraceExpired
  <2>2. k \in Lease /\ l \in Lease /\ DunningOK(m, now) /\ v \in EscrowVault
    BY <1>0, <2>1, EvictedDunning, EvictedLease DEF TypeOK
  <2>3. n \in Nat
    BY <2>2, Arrears
  <2>4. m.state = "EvictionPending"
    BY <2>2 DEF Lease
  <2> HIDE DEF l
  <2>5. /\ leases' = [leases EXCEPT ![id] = m]
        /\ v' = [v EXCEPT !.available_balance = @ - n, !.lessor_treasury = @ + n]
    BY <2>1 DEF execute_arrears_deduction, DeductedVault, VaultCovers, Deduction
  <2> HIDE DEF m, n
  <2>6. VaultConserved'
    BY <1>0, <2>2, <2>3, <2>5 DEF VaultConserved, EscrowVault
  <2> QED
    BY <1>0, <2>1, <2>2, <2>4, <2>5, <2>6, StepOnLease
<1>8. ASSUME NEW id \in DOMAIN leases, NEW user \in Users,
             trigger_grace_period_check(id, user)
      PROVE  IInv'
  BY <1>7, <1>8 DEF trigger_grace_period_check
<1>9. ASSUME NEW id \in DOMAIN leases, NEW price \in Prices, NEW timestamp \in QuoteTimes,
             process_fiat_pegged_rent_payment(id, price, timestamp)
      PROVE  IInv'
  <2> DEFINE l == leases[id]
             rent == calculate_fiat_pegged_rent(l, price)
             m == [l EXCEPT !.last_oracle_price = price, !.last_oracle_timestamp = timestamp,
                            !.last_rent_payment_timestamp = now,
                            !.total_paid_rent = @ + rent]
  <2>1. price \in Int /\ timestamp \in Nat /\ l \in Lease
    BY <1>0, InputAssumption
  <2>2. /\ l.state = "Active" /\ l.fiat_peg_config # None /\ rent > 0
        /\ leases' = [leases EXCEPT ![id] = m]
        /\ UNCHANGED <<now, escrow_vault, refunded>>
    BY <1>9 DEF process_fiat_pegged_rent_payment
  <2>3. rent \in Nat
    BY <2>1, <2>2, PeggedRent
  <2> HIDE DEF rent
  <2>4. DunningOK(m, now)
    BY <1>0, <2>1, <2>2, <2>3, BilledDunning
  <2>5. m.state = "Active"
    BY <2>1, <2>2 DEF Lease
  <2> HIDE DEF m
  <2> QED
    BY <1>0, <1>a, <2>2, <2>4, <2>5, StepOnLease
<1>10. ASSUME NEW id \in DOMAIN leases, NEW user \in Users, terminate_lease(id, user)
       PROVE  IInv'
  <2> DEFINE l == leases[id]
             m == [l EXCEPT !.state = "Closed"]
             r == termination_refund(l)
  <2>1. /\ l.state = "Active" /\ leases' = [leases EXCEPT ![id] = m]
        /\ refunded' = Put(refunded, id, r)
        /\ UNCHANGED <<now, escrow_vault>>
    BY <1>10 DEF terminate_lease, CanTerminate
  <2>2. l \in Lease /\ r \in 0..l.total_paid_rent /\ l.total_paid_rent \in Nat
    BY <1>0, ReturnedRefund DEF Lease
  <2>3. DunningOK(m, now)
    BY <1>0, <2>1, <2>2, ClosedDunning
  <2>4. m.state = "Closed" /\ m.total_paid_rent = l.total_paid_rent
    BY <2>2 DEF Lease
  <2> HIDE DEF m, r
  <2>5. AllDunningOK'
    BY <1>0, <2>1, <2>3, StoreDunning
  <2>6. /\ DOMAIN refunded' = WithState({"Closed"}) \cup {id}
        /\ \A i \in DOMAIN refunded : i # id /\ refunded'[i] = refunded[i]
        /\ refunded'[id] = r
    BY <1>0, <2>1 DEF RefundWithinPaid, Put, WithState
  <2>7. WithState({"Closed"})' = WithState({"Closed"}) \cup {id}
    BY <1>0, <2>1, <2>4 DEF WithState, TypeOK
  <2>8. leases'[id] = m /\ \A i \in DOMAIN leases : i # id => leases'[i] = leases[i]
    BY <1>0, <2>1 DEF TypeOK
  <2>9. RefundWithinPaid'
    BY <1>0, <2>2, <2>4, <2>6, <2>7, <2>8 DEF RefundWithinPaid, WithState
  <2> QED
    BY <1>0, <1>a, <2>1, <2>5, <2>9 DEF IInv
<1>11. CASE UNCHANGED vars
  BY <1>0, <1>a, <1>11 DEF vars, IInv, AllDunningOK, RefundWithinPaid, WithState
<1> QED
  BY <1>1, <1>2, <1>3, <1>4, <1>5, <1>6, <1>7, <1>8, <1>9, <1>10, <1>11 DEF Next

\* IInv is an invariant of the contract.
THEOREM Invariance == Spec => []IInv
BY InitInv, NextInv, PTL DEF Spec

\* No lease is evicted inside its grace period, and an evicted lease has had
\* its arrears deducted.
THEOREM EvictionIsSettled == Spec => []EvictionSettled
<1>1. IInv => EvictionSettled
  BY DunningMeaning DEF IInv
<1> QED
  BY <1>1, Invariance, PTL

\* A lease owes one rent and its late fee while in dunning and nothing else.
THEOREM ArrearsAlwaysMatch == Spec => []ArrearsMatchState
<1>1. IInv => ArrearsMatchState
  BY DunningMeaning DEF IInv
<1> QED
  BY <1>1, Invariance, PTL

\* The refund of a terminated lease never exceeds the rent paid for it.
THEOREM RefundIsBounded == Spec => []RefundWithinPaid
<1>1. IInv => RefundWithinPaid
  BY DEF IInv
<1> QED
  BY <1>1, Invariance, PTL

-----------------------------------------------------------------------------
(***************************************************************************)
(* Action properties.  A step writes at most one stored lease, and that    *)
(* lease is neither closed nor evicted.                                    *)
(***************************************************************************)
Owed(l, m) ==
    total_arrears(m) < total_arrears(l)
        => m.total_paid_rent >= l.total_paid_rent + total_arrears(l)

LeaseStep(l, m) ==
    /\ l.state \in {"Closed", "EvictionPending"} => m = l
    /\ Owed(l, m)

LEMMA SameLease ==
    ASSUME NEW l \in Lease
    PROVE  LeaseStep(l, l)
<1>1. total_arrears(l) \in Nat
  BY Arrears
<1> QED
  BY <1>1 DEF LeaseStep, Owed

\* A step that replaces the lease of id by m.
LEMMA StoreStep ==
    ASSUME TypeOK, NEW id \in DOMAIN leases, NEW m, LeaseStep(leases[id], m),
           leases' = [leases EXCEPT ![id] = m]
    PROVE  \A i \in Kept : LeaseStep(leases[i], leases'[i])
<1> SUFFICES ASSUME NEW i \in Kept
             PROVE  LeaseStep(leases[i], leases'[i])
  OBVIOUS
<1>1. i \in DOMAIN leases /\ leases[i] \in Lease
  BY DEF Kept, TypeOK
<1>2. CASE i = id
  BY <1>2 DEF TypeOK
<1>3. CASE i # id
  BY <1>1, <1>3, SameLease DEF TypeOK
<1> QED
  BY <1>2, <1>3

LEMMA PaidStep ==
    ASSUME NEW l \in Lease, NEW amount \in Nat, DunningOK(l, now),
           l.state \in {"Active", "GracePeriod"}, amount >= required_amount(l)
    PROVE  LeaseStep(l, Paid(l, amount))
<1>1. Paid(l, amount).total_paid_rent = l.total_paid_rent + amount
  BY DEF Paid, Lease
<1>2. l.total_paid_rent \in Nat /\ l.rent_amount \in Nat /\ l.accumulated_late_fees \in Nat
  BY DEF Lease
<1>3. CASE l.state = "GracePeriod"
  <2>1. total_arrears(l) = l.rent_amount + l.accumulated_late_fees
    BY <1>3 DEF DunningOK, InDunning, total_arrears
  <2>2. amount >= total_arrears(l)
    BY <1>3, <2>1 DEF required_amount
  <2> QED
    BY <1>1, <1>2, <1>3, <2>1, <2>2 DEF LeaseStep, Owed
<1>4. CASE l.state = "Active"
  <2>1. total_arrears(l) = 0
    BY <1>4 DEF DunningOK, InDunning
  <2> QED
    BY <1>1, <1>2, <1>4, <2>1 DEF LeaseStep, Owed
<1> QED
  BY <1>3, <1>4

\* A record that keeps the balances of a lease that is not settled.
LEMMA SameArrearsStep ==
    ASSUME NEW l \in Lease, NEW m, l.state \notin {"Closed", "EvictionPending"},
           m.outstanding_balance = l.outstanding_balance,
           m.accumulated_late_fees = l.accumulated_late_fees
    PROVE  LeaseStep(l, m)
<1>1. total_arrears(m) = total_arrears(l) /\ total_arrears(l) \in Nat
  BY Arrears DEF total_arrears
<1> QED
  BY <1>1 DEF LeaseStep, Owed

LEMMA NextLeaseStep ==
    IInv /\ [Next]_vars => \A id \in Kept : LeaseStep(leases[id], leases'[id])
<1> SUFFICES ASSUME IInv, [Next]_vars
             PROVE  \A id \in Kept : LeaseStep(leases[id], leases'[id])
  OBVIOUS
<1> DEFINE Goal == \A id \in Kept : LeaseStep(leases[id], leases'[id])
<1>0. /\ TypeOK /\ now \in Nat
      /\ \A id \in DOMAIN leases : leases[id] \in Lease /\ DunningOK(leases[id], now)
  <2>1. TypeOK /\ AllDunningOK
    BY DEF IInv
  <2>2. now \in Nat /\ \A id \in DOMAIN leases : leases[id] \in Lease
    BY <2>1, BoundAssumption DEF TypeOK
  <2> QED
    BY <2>1, <2>2 DEF AllDunningOK
<1>1. ASSUME \A id \in Kept : leases'[id] = leases[id]
      PROVE  Goal
  BY <1>0, <1>1, SameLease DEF Kept
<1>2. CASE Tick \/ UNCHANGED vars
  BY <1>1, <1>2 DEF Tick, vars
<1>3. CASE initialize
  <2>1. Kept = {}
    BY <1>3 DEF initialize, Fresh, Kept
  <2> QED
    BY <2>1
<1>4. ASSUME NEW lessor \in Users, NEW lessee \in Users, NEW rent \in Rents,
             NEW deposit \in Deposits, NEW term \in Terms, NEW grace \in Graces,
             NEW rate \in FeeRates, NEW peg \in Pegs,
             create_lease(lessor, lessee, rent, deposit, term, grace, rate, peg)
      PROVE  Goal
  <2>1. next_lease_id \notin DOMAIN leases
    BY <1>0 DEF TypeOK
  <2>2. \A id \in Kept : leases'[id] = leases[id]
    BY <1>4, <2>1 DEF create_lease, Put, Kept
  <2> QED
    BY <1>1, <2>2
<1>5. ASSUME NEW id \in DOMAIN leases, NEW user \in Users, activate_lease(id, user)
      PROVE  Goal
  <2> DEFINE l == leases[id]
             m == [l EXCEPT !.state = "Active", !.last_rent_payment_timestamp = now]
  <2>1. l \in Lease /\ l.state = "Pending" /\ leases' = [leases EXCEPT ![id] = m]
    BY <1>0, <1>5 DEF activate_lease, CanActivate
  <2>2. /\ m.outstanding_balance = l.outstanding_balance
        /\ m.accumulated_late_fees = l.accumulated_late_fees
    BY <2>1 DEF Lease
  <2> HIDE DEF m
  <2>3. LeaseStep(l, m)
    BY <2>1, <2>2, SameArrearsStep
  <2> QED
    BY <1>0, <2>1, <2>3, StoreStep
<1>6. ASSUME NEW id \in DOMAIN leases, NEW amount \in Amounts,
             process_rent_payment(id, amount)
      PROVE  Goal
  <2> DEFINE l == leases[id]
             m == Paid(l, amount)
  <2>1. /\ l.state \in {"Active", "GracePeriod"} /\ amount >= l.rent_amount
        /\ amount >= required_amount(l)
        /\ leases' = [leases EXCEPT ![id] = m]
    BY <1>6 DEF process_rent_payment
  <2>2. l \in Lease /\ l.rent_amount \in Nat
    BY <1>0 DEF Lease
  <2>3. amount \in Nat
    BY <2>1, <2>2, InputAssumption
  <2>4. LeaseStep(l, m)
    BY <1>0, <2>1, <2>2, <2>3, PaidStep
  <2> HIDE DEF m
  <2> QED
    BY <1>0, <2>1, <2>4, StoreStep
<1>7. ASSUME NEW id \in DOMAIN leases, handle_rent_payment_failure(id)
      PROVE  Goal
  <2> DEFINE l == leases[id]
             f == calculate_late_fee(l, l.rent_amount)
             m == [l EXCEPT !.state = "GracePeriod", !.dunning_start_timestamp = now,
                       !.outstanding_balance = l.rent_amount,
                       !.accumulated_late_fees = f]
  <2>1. l \in Lease /\ l.state = "Active" /\ leases' = [leases EXCEPT ![id] = m]
    BY <1>0, <1>7 DEF handle_rent_payment_failure
  <2>2. f \in Nat /\ l.rent_amount \in Nat
    BY <2>1, LateFee DEF Lease
  <2> HIDE DEF f
  <2>3. total_arrears(m) = l.rent_amount + f
    BY <2>1, <2>2 DEF total_arrears, Lease
  <2>4. total_arrears(l) = 0
    BY <1>0, <2>1 DEF DunningOK, InDunning
  <2> HIDE DEF m
  <2>5. LeaseStep(l, m)
    BY <2>1, <2>2, <2>3, <2>4 DEF LeaseStep, Owed
  <2> QED
    BY <1>0, <2>1, <2>5, StoreStep
<1>8. ASSUME NEW id \in DOMAIN leases, check_grace_period_expiry(id)
      PROVE  Goal
  <2> DEFINE k == leases[id]
             l == [k EXCEPT !.state = "EvictionPending"]
             m == [l EXCEPT !.arrears_processed = TRUE]
  <2>1. k \in Lease /\ k.state = "GracePeriod" /\ execute_arrears_deduction(id, l)
    BY <1>0, <1>8 DEF check_grace_period_expiry, GraceExpired
  <2>2. /\ m.outstanding_balance = k.outstanding_balance
        /\ m.accumulated_late_fees = k.accumulated_late_fees
    BY <2>1 DEF Lease
  <2>3. leases' = [leases EXCEPT ![id] = m]
    BY <2>1 DEF execute_arrears_deduction
  <2> HIDE DEF m
  <2>4. LeaseStep(k, m)
    BY <2>1, <2>2, SameArrearsStep
  <2> QED
    BY <1>0, <2>3, <2>4, StoreStep
<1>9. ASSUME NEW id \in DOMAIN leases, NEW user \in Users,
             trigger_grace_period_check(id, user)
      PROVE  Goal
  BY <1>8, <1>9 DEF trigger_grace_period_check
<1>10. ASSUME NEW id \in DOMAIN leases, NEW price \in Prices, NEW timestamp \in QuoteTimes,
              process_fiat_pegged_rent_payment(id, price, timestamp)
       PROVE  Goal
  <2> DEFINE l == leases[id]
             rent == calculate_fiat_pegged_rent(l, price)
             m == [l EXCEPT !.last_oracle_price = price, !.last_oracle_timestamp = timestamp,
                            !.last_rent_payment_timestamp = now,
                            !.total_paid_rent = @ + rent]
  <2>1. l \in Lease /\ l.state = "Active" /\ leases' = [leases EXCEPT ![id] = m]
    BY <1>0, <1>10 DEF process_fiat_pegged_rent_payment
  <2> HIDE DEF rent
  <2>2. /\ m.outstanding_balance = l.outstanding_balance
        /\ m.accumulated_late_fees = l.accumulated_late_fees
    BY <2>1 DEF Lease
  <2> HIDE DEF m
  <2>3. LeaseStep(l, m)
    BY <2>1, <2>2, SameArrearsStep
  <2> QED
    BY <1>0, <2>1, <2>3, StoreStep
<1>11. ASSUME NEW id \in DOMAIN leases, NEW user \in Users, terminate_lease(id, user)
       PROVE  Goal
  <2> DEFINE l == leases[id]
             m == [l EXCEPT !.state = "Closed"]
  <2>1. l \in Lease /\ l.state = "Active" /\ leases' = [leases EXCEPT ![id] = m]
    BY <1>0, <1>11 DEF terminate_lease, CanTerminate
  <2>2. /\ m.outstanding_balance = l.outstanding_balance
        /\ m.accumulated_late_fees = l.accumulated_late_fees
    BY <2>1 DEF Lease
  <2> HIDE DEF m
  <2>3. LeaseStep(l, m)
    BY <2>1, <2>2, SameArrearsStep
  <2> QED
    BY <1>0, <2>1, <2>3, StoreStep
<1> QED
  BY <1>2, <1>3, <1>4, <1>5, <1>6, <1>7, <1>8, <1>9, <1>10, <1>11 DEF Next

\* A closed or evicted lease is never written again.
THEOREM SettledStaysFrozen == Spec => SettledLeasesFrozen
<1>1. IInv /\ [Next]_vars =>
        [\A id \in Kept : leases[id].state \in {"Closed", "EvictionPending"}
                              => leases'[id] = leases[id]]_vars
  BY NextLeaseStep DEF LeaseStep
<1> QED
  BY <1>1, Invariance, PTL DEF Spec, SettledLeasesFrozen

\* Arrears leave a lease only with a payment that covers them.
THEOREM ArrearsAreNeverForgiven == Spec => ArrearsNeverForgiven
<1>1. IInv /\ [Next]_vars =>
        [\A id \in Kept :
            total_arrears(leases'[id]) < total_arrears(leases[id])
                => leases'[id].total_paid_rent
                      >= leases[id].total_paid_rent + total_arrears(leases[id])]_vars
  BY NextLeaseStep DEF LeaseStep, Owed
<1> QED
  BY <1>1, Invariance, PTL DEF Spec, ArrearsNeverForgiven

-----------------------------------------------------------------------------
(***************************************************************************)
(* The books.  What a lease contributes to the vault, to the treasury and  *)
(* to the debt of a lessee follows from its record, so a step changes the  *)
(* three totals by the change of one lease.                                *)
(***************************************************************************)
LockedFor(l) == IF l.state = "Pending" THEN 0 ELSE l.deposit_amount

TakenFrom(l) == IF l.state = "EvictionPending" THEN Deduction(l) ELSE 0

IsDefault(l, u) == l.state = "EvictionPending" /\ l.lessee = u /\ residual_debt(l) > 0

DebtOf(l, u) == IF IsDefault(l, u) THEN residual_debt(l) ELSE 0

\* The same as functions on the stored leases ls, the form SumTheorems speaks about.
Locked(ls) == [id \in DOMAIN ls |-> LockedFor(ls[id])]
Taken(ls) == [id \in DOMAIN ls |-> TakenFrom(ls[id])]
Debts(ls, u) == [id \in DOMAIN ls |-> DebtOf(ls[id], u)]

VaultBooks ==
    /\ escrow_vault.total_locked = SumFunctionOnSet(Locked(leases), DOMAIN leases)
    /\ escrow_vault.lessor_treasury = SumFunctionOnSet(Taken(leases), DOMAIN leases)

DebtBooks ==
    \A u \in Users :
       credit_record(u).total_debt_amount = SumFunctionOnSet(Debts(leases, u), DOMAIN leases)

BooksInv == VaultBooks /\ DebtBooks /\ CreditListsDefaults

LEMMA Shares ==
    ASSUME NEW l \in Lease
    PROVE  /\ Deduction(l) \in Nat /\ Deduction(l) <= l.deposit_amount
           /\ residual_debt(l) \in Nat
           /\ LockedFor(l) \in Nat /\ TakenFrom(l) \in Nat /\ TakenFrom(l) <= LockedFor(l)
           /\ \A u : DebtOf(l, u) \in Nat
<1>1. total_arrears(l) \in Nat /\ l.deposit_amount \in Nat
  BY Arrears DEF Lease
<1>2. Deduction(l) \in Nat /\ Deduction(l) <= l.deposit_amount /\ residual_debt(l) \in Nat
  BY <1>1 DEF Deduction, residual_debt, calculate_deduction_amount, MinOf
<1>3. LockedFor(l) \in Nat /\ TakenFrom(l) \in Nat /\ TakenFrom(l) <= LockedFor(l)
  BY <1>1, <1>2 DEF LockedFor, TakenFrom
<1>4. \A u : DebtOf(l, u) \in Nat
  BY <1>2 DEF DebtOf
<1> QED
  BY <1>2, <1>3, <1>4

LEMMA FiniteLeases ==
    ASSUME TypeOK
    PROVE  IsFiniteSet(DOMAIN leases) /\ \A id \in DOMAIN leases : leases[id] \in Lease
<1>1. next_lease_id \in Nat \ {0} /\ leases \in [1..(next_lease_id - 1) -> Lease]
  BY DEF TypeOK
<1>2. DOMAIN leases = 1..(next_lease_id - 1) /\ next_lease_id - 1 \in Int /\ 1 \in Int
  BY <1>1
<1>3. IsFiniteSet(1..(next_lease_id - 1))
  BY <1>2, FS_Interval
<1> QED
  BY <1>1, <1>2, <1>3

\* The totals follow the one lease a step rewrites.
LEMMA TotalsChange ==
    ASSUME NEW ls, IsFiniteSet(DOMAIN ls), \A x \in DOMAIN ls : ls[x] \in Lease,
           NEW id \in DOMAIN ls, NEW m \in Lease, NEW ms, ms = [ls EXCEPT ![id] = m]
    PROVE  /\ DOMAIN ms = DOMAIN ls
           /\ SumFunctionOnSet(Locked(ms), DOMAIN ls) =
                 SumFunctionOnSet(Locked(ls), DOMAIN ls) + (LockedFor(m) - LockedFor(ls[id]))
           /\ SumFunctionOnSet(Taken(ms), DOMAIN ls) =
                 SumFunctionOnSet(Taken(ls), DOMAIN ls) + (TakenFrom(m) - TakenFrom(ls[id]))
<1> DEFINE D == DOMAIN ls
<1>0. IsFiniteSet(D) /\ id \in D
  OBVIOUS
<1>1. /\ DOMAIN ms = D
      /\ \A x \in D : ms[x] = IF x = id THEN m ELSE ls[x]
      /\ \A x \in D : ms[x] \in Lease
  OBVIOUS
<1>2. SumFunctionOnSet(Locked(ms), D) =
         SumFunctionOnSet(Locked(ls), D) + (LockedFor(m) - LockedFor(ls[id]))
  <2> DEFINE g == Locked(ls)
             h == Locked(ms)
  <2>1. /\ \A x \in D : g[x] \in Int /\ h[x] \in Int
        /\ \A x \in D \ {id} : h[x] = g[x]
        /\ g[id] = LockedFor(ls[id]) /\ h[id] = LockedFor(m)
    <3>1. \A x \in D : LockedFor(ls[x]) \in Int /\ LockedFor(ms[x]) \in Int
      BY <1>1, Shares
    <3> QED
      BY <1>1, <3>1 DEF Locked
  <2> HIDE DEF g, h, D
  <2>2. SumFunctionOnSet(h, D) = SumFunctionOnSet(g, D) + (h[id] - g[id])
    BY <1>0, <2>1, SumChange
  <2> QED
    BY <2>1, <2>2 DEF g, h
<1>3. SumFunctionOnSet(Taken(ms), D) =
         SumFunctionOnSet(Taken(ls), D) + (TakenFrom(m) - TakenFrom(ls[id]))
  <2> DEFINE g == Taken(ls)
             h == Taken(ms)
  <2>1. /\ \A x \in D : g[x] \in Int /\ h[x] \in Int
        /\ \A x \in D \ {id} : h[x] = g[x]
        /\ g[id] = TakenFrom(ls[id]) /\ h[id] = TakenFrom(m)
    <3>1. \A x \in D : TakenFrom(ls[x]) \in Int /\ TakenFrom(ms[x]) \in Int
      BY <1>1, Shares
    <3> QED
      BY <1>1, <3>1 DEF Taken
  <2> HIDE DEF g, h, D
  <2>2. SumFunctionOnSet(h, D) = SumFunctionOnSet(g, D) + (h[id] - g[id])
    BY <1>0, <2>1, SumChange
  <2> QED
    BY <2>1, <2>2 DEF g, h
<1> QED
  BY <1>1, <1>2, <1>3

\* The vault is credited or debited by what the rewritten lease contributes.
LEMMA VaultFollows ==
    ASSUME TypeOK, VaultBooks, NEW id \in DOMAIN leases, NEW m \in Lease,
           leases' = [leases EXCEPT ![id] = m],
           escrow_vault'.total_locked =
              escrow_vault.total_locked + (LockedFor(m) - LockedFor(leases[id])),
           escrow_vault'.lessor_treasury =
              escrow_vault.lessor_treasury + (TakenFrom(m) - TakenFrom(leases[id]))
    PROVE  VaultBooks'
<1>1. IsFiniteSet(DOMAIN leases) /\ \A x \in DOMAIN leases : leases[x] \in Lease
  BY FiniteLeases
<1>2. /\ DOMAIN leases' = DOMAIN leases
      /\ SumFunctionOnSet(Locked(leases'), DOMAIN leases) =
            SumFunctionOnSet(Locked(leases), DOMAIN leases)
               + (LockedFor(m) - LockedFor(leases[id]))
      /\ SumFunctionOnSet(Taken(leases'), DOMAIN leases) =
            SumFunctionOnSet(Taken(leases), DOMAIN leases)
               + (TakenFrom(m) - TakenFrom(leases[id]))
  BY <1>1, TotalsChange
<1> QED
  BY <1>2 DEF VaultBooks

LEMMA DebtTotals ==
    ASSUME TypeOK, NEW id \in DOMAIN leases, NEW m \in Lease,
           leases' = [leases EXCEPT ![id] = m], NEW u
    PROVE  SumFunctionOnSet(Debts(leases', u), DOMAIN leases) =
              SumFunctionOnSet(Debts(leases, u), DOMAIN leases)
                 + (DebtOf(m, u) - DebtOf(leases[id], u))
<1> DEFINE D == DOMAIN leases
           g == Debts(leases, u)
           h == Debts(leases', u)
<1>0. IsFiniteSet(D) /\ id \in D /\ \A x \in D : leases[x] \in Lease
  BY FiniteLeases
<1>1. /\ DOMAIN leases' = D
      /\ \A x \in D : leases'[x] = IF x = id THEN m ELSE leases[x]
      /\ \A x \in D : leases'[x] \in Lease
  BY <1>0
<1>2. /\ \A x \in D : g[x] \in Int /\ h[x] \in Int
      /\ \A x \in D \ {id} : h[x] = g[x]
      /\ g[id] = DebtOf(leases[id], u) /\ h[id] = DebtOf(m, u)
  <2>1. \A x \in D : DebtOf(leases[x], u) \in Int /\ DebtOf(leases'[x], u) \in Int
    BY <1>0, <1>1, Shares
  <2> QED
    BY <1>1, <2>1 DEF Debts
<1> HIDE DEF g, h, D
<1>3. SumFunctionOnSet(h, D) = SumFunctionOnSet(g, D) + (h[id] - g[id])
  BY <1>0, <1>2, SumChange
<1> QED
  BY <1>2, <1>3 DEF g, h, D

LEMMA DebtFollows ==
    ASSUME TypeOK, DebtBooks, NEW id \in DOMAIN leases, NEW m \in Lease,
           leases' = [leases EXCEPT ![id] = m],
           \A u \in Users : credit_record(u)'.total_debt_amount =
              credit_record(u).total_debt_amount + (DebtOf(m, u) - DebtOf(leases[id], u))
    PROVE  DebtBooks'
<1>2. DOMAIN leases' = DOMAIN leases
  OBVIOUS
<1>3. ASSUME NEW u \in Users
      PROVE  (credit_record(u).total_debt_amount
                 = SumFunctionOnSet(Debts(leases, u), DOMAIN leases))'
  <2>1. credit_record(u).total_debt_amount
           = SumFunctionOnSet(Debts(leases, u), DOMAIN leases)
    BY DEF DebtBooks
  <2>2. credit_record(u)'.total_debt_amount =
           credit_record(u).total_debt_amount + (DebtOf(m, u) - DebtOf(leases[id], u))
    OBVIOUS
  <2>3. SumFunctionOnSet(Debts(leases', u), DOMAIN leases) =
           SumFunctionOnSet(Debts(leases, u), DOMAIN leases)
              + (DebtOf(m, u) - DebtOf(leases[id], u))
    BY DebtTotals
  <2>4. credit_record(u)'.total_debt_amount = SumFunctionOnSet(Debts(leases', u), DOMAIN leases)
    BY <2>1, <2>2, <2>3, Zenon
  <2> QED
    BY <1>2, <2>4
<1> QED
  BY <1>3 DEF DebtBooks

LEMMA DefaultedMeaning ==
    \A u : Defaulted(u) = {id \in DOMAIN leases : IsDefault(leases[id], u)}
BY DEF Defaulted, WithState, IsDefault

\* A lease that does not default leaves the credit records alone.
LEMMA CreditUntouched ==
    ASSUME TypeOK, BooksInv, NEW id \in DOMAIN leases, NEW m \in Lease,
           leases' = [leases EXCEPT ![id] = m],
           \A u : ~IsDefault(m, u) /\ ~IsDefault(leases[id], u),
           UNCHANGED credit_records
    PROVE  DebtBooks' /\ CreditListsDefaults'
<1>3. \A u : /\ DebtOf(m, u) = DebtOf(leases[id], u) /\ DebtOf(m, u) \in Int
             /\ ~IsDefault(m, u) /\ ~IsDefault(leases[id], u)
  BY DEF DebtOf
<1>5. \A u \in Users : credit_record(u)' = credit_record(u)
  BY DEF credit_record
<1>6. DebtBooks'
  <2>1. ASSUME NEW u \in Users PROVE credit_record(u).total_debt_amount \in Int
    BY DEF credit_record, NoDefaults, TypeOK, CreditRecord
  <2>2. \A u \in Users : credit_record(u)'.total_debt_amount =
              credit_record(u).total_debt_amount + (DebtOf(m, u) - DebtOf(leases[id], u))
    BY <1>3, <1>5, <2>1
  <2> QED
    BY <2>2, DebtFollows DEF BooksInv
<1>7. CreditListsDefaults'
  <2>1. \A u : Defaulted(u)' = Defaulted(u)
    <3>1. DOMAIN leases' = DOMAIN leases /\ leases'[id] = m
          /\ \A x \in DOMAIN leases \ {id} : leases'[x] = leases[x]
      OBVIOUS
    <3>2. \A u : {x \in DOMAIN leases' : IsDefault(leases'[x], u)}
                    = {x \in DOMAIN leases : IsDefault(leases[x], u)}
      BY <1>3, <3>1
    <3>3. \A u : Defaulted(u)' = {x \in DOMAIN leases' : IsDefault(leases'[x], u)}
      BY DEF Defaulted, WithState, IsDefault
    <3> QED
      BY <3>2, <3>3, DefaultedMeaning
  <2> QED
    BY <1>5, <2>1 DEF BooksInv, CreditListsDefaults
<1> QED
  BY <1>6, <1>7

\* A step that neither activates nor evicts leaves the books alone.
LEMMA BooksUntouched ==
    ASSUME TypeOK, BooksInv, NEW id \in DOMAIN leases, NEW m \in Lease,
           leases' = [leases EXCEPT ![id] = m],
           leases[id].state \in {"Active", "GracePeriod"},
           m.state \in {"Active", "GracePeriod", "Closed"},
           m.deposit_amount = leases[id].deposit_amount,
           UNCHANGED <<escrow_vault, credit_records>>
    PROVE  BooksInv'
<1>1. leases[id] \in Lease /\ escrow_vault \in EscrowVault
  BY FiniteLeases DEF TypeOK
<1>2. /\ LockedFor(m) = LockedFor(leases[id]) /\ LockedFor(m) \in Int
      /\ TakenFrom(m) = TakenFrom(leases[id]) /\ TakenFrom(m) \in Int
  BY <1>1, Shares DEF LockedFor, TakenFrom
<1>3. \A u : ~IsDefault(m, u) /\ ~IsDefault(leases[id], u)
  BY DEF IsDefault
<1>4. VaultBooks'
  <2>1. VaultBooks /\ escrow_vault' = escrow_vault
    BY DEF BooksInv
  <2>2. escrow_vault.total_locked \in Int /\ escrow_vault.lessor_treasury \in Int
    BY <1>1 DEF EscrowVault
  <2>3. /\ escrow_vault'.total_locked =
              escrow_vault.total_locked + (LockedFor(m) - LockedFor(leases[id]))
        /\ escrow_vault'.lessor_treasury =
              escrow_vault.lessor_treasury + (TakenFrom(m) - TakenFrom(leases[id]))
    BY <1>2, <2>1, <2>2
  <2> QED
    BY <2>1, <2>3, VaultFollows
<1>5. DebtBooks' /\ CreditListsDefaults'
  BY <1>3, CreditUntouched
<1> QED
  BY <1>4, <1>5 DEF BooksInv

\* A new lease contributes nothing yet.
LEMMA BooksWithNewLease ==
    ASSUME TypeOK, BooksInv, NEW n, n \notin DOMAIN leases, NEW l \in Lease, l.state = "Pending",
           leases' = Put(leases, n, l), UNCHANGED <<escrow_vault, credit_records>>
    PROVE  BooksInv'
<1> DEFINE D == DOMAIN leases
<1>1. IsFiniteSet(D) /\ \A x \in D : leases[x] \in Lease
  BY FiniteLeases
<1>2. /\ DOMAIN leases' = D \cup {n} /\ leases'[n] = l
      /\ \A x \in D : leases'[x] = leases[x]
  BY DEF Put
<1>3. LockedFor(l) = 0 /\ TakenFrom(l) = 0 /\ \A u : DebtOf(l, u) = 0 /\ ~IsDefault(l, u)
  BY DEF LockedFor, TakenFrom, DebtOf, IsDefault
<1>4. IsFiniteSet(D \cup {n})
  BY <1>1, FS_AddElement
<1>5. SumFunctionOnSet(Locked(leases'), D \cup {n}) = SumFunctionOnSet(Locked(leases), D)
  <2> DEFINE g == Locked(leases)
             h == Locked(leases')
             S == D \cup {n}
  <2>1. /\ \A x \in S : h[x] \in Int
        /\ \A x \in D : g[x] = h[x]
        /\ \A x \in S \ D : h[x] = 0
    <3>1. \A x \in D : LockedFor(leases[x]) \in Int
      BY <1>1, Shares
    <3> QED
      BY <1>2, <1>3, <3>1 DEF Locked
  <2>2. D \in SUBSET S /\ IsFiniteSet(S)
    BY <1>4
  <2> HIDE DEF g, h, S, D
  <2>3. SumFunctionOnSet(h, S) = SumFunctionOnSet(g, D)
    BY <2>1, <2>2, SumFilter
  <2> QED
    BY <2>3 DEF g, h, S
<1>6. SumFunctionOnSet(Taken(leases'), D \cup {n}) = SumFunctionOnSet(Taken(leases), D)
  <2> DEFINE g == Taken(leases)
             h == Taken(leases')
             S == D \cup {n}
  <2>1. /\ \A x \in S : h[x] \in Int
        /\ \A x \in D : g[x] = h[x]
        /\ \A x \in S \ D : h[x] = 0
    <3>1. \A x \in D : TakenFrom(leases[x]) \in Int
      BY <1>1, Shares
    <3> QED
      BY <1>2, <1>3, <3>1 DEF Taken
  <2>2. D \in SUBSET S /\ IsFiniteSet(S)
    BY <1>4
  <2> HIDE DEF g, h, S, D
  <2>3. SumFunctionOnSet(h, S) = SumFunctionOnSet(g, D)
    BY <2>1, <2>2, SumFilter
  <2> QED
    BY <2>3 DEF g, h, S
<1>7. ASSUME NEW u
      PROVE  SumFunctionOnSet(Debts(leases', u), D \cup {n})
                = SumFunctionOnSet(Debts(leases, u), D)
  <2> DEFINE g == Debts(leases, u)
             h == Debts(leases', u)
             S == D \cup {n}
  <2>1. /\ \A x \in S : h[x] \in Int
        /\ \A x \in D : g[x] = h[x]
        /\ \A x \in S \ D : h[x] = 0
    <3>1. \A x \in D : DebtOf(leases[x], u) \in Int
      BY <1>1, Shares
    <3> QED
      BY <1>2, <1>3, <3>1 DEF Debts
  <2>2. D \in SUBSET S /\ IsFiniteSet(S)
    BY <1>4
  <2> HIDE DEF g, h, S, D
  <2>3. SumFunctionOnSet(h, S) = SumFunctionOnSet(g, D)
    BY <2>1, <2>2, SumFilter
  <2> QED
    BY <2>3 DEF g, h, S
<1>8. \A u \in Users : credit_record(u)' = credit_record(u)
  BY DEF credit_record
<1>9. CreditListsDefaults'
  <2>1. \A u : Defaulted(u)' = Defaulted(u)
    <3>1. \A u : {x \in DOMAIN leases' : IsDefault(leases'[x], u)}
                    = {x \in DOMAIN leases : IsDefault(leases[x], u)}
      BY <1>2, <1>3
    <3>2. \A u : Defaulted(u)' = {x \in DOMAIN leases' : IsDefault(leases'[x], u)}
      BY DEF Defaulted, WithState, IsDefault
    <3> QED
      BY <3>1, <3>2, DefaultedMeaning
  <2> QED
    BY <1>8, <2>1 DEF BooksInv, CreditListsDefaults
<1>10. VaultBooks'
  BY <1>2, <1>5, <1>6 DEF BooksInv, VaultBooks
<1>11. DebtBooks'
  BY <1>2, <1>7, <1>8 DEF BooksInv, DebtBooks
<1> QED
  BY <1>9, <1>10, <1>11 DEF BooksInv

\* Nothing is stored, so nothing is locked, taken or owed.
LEMMA BooksEmpty ==
    ASSUME DOMAIN leases = {}, DOMAIN credit_records = {}, escrow_vault = EmptyVault
    PROVE  BooksInv
<1>1. VaultBooks
  BY SumEmpty DEF VaultBooks, EmptyVault
<1>2. \A u : credit_record(u) = NoDefaults /\ Defaulted(u) = {}
  BY DEF credit_record, Defaulted, WithState
<1>3. DebtBooks
  BY <1>2, SumEmpty DEF DebtBooks, NoDefaults
<1>4. CreditListsDefaults
  <2>1. NoDefaults.associated_lease_ids = << >> /\ NoDefaults.default_count = 0
    BY DEF NoDefaults
  <2>2. DOMAIN << >> = {} /\ Len(<< >>) = 0
    OBVIOUS
  <2> QED
    BY <1>2, <2>1, <2>2 DEF CreditListsDefaults
<1> QED
  BY <1>1, <1>3, <1>4 DEF BooksInv

\* initialize forgets every lease, deposit and default at once.
LEMMA BooksWiped ==
    ASSUME DOMAIN leases' = {}, DOMAIN credit_records' = {}, escrow_vault' = EmptyVault
    PROVE  BooksInv'
<1>1. VaultBooks'
  BY SumEmpty DEF VaultBooks, EmptyVault
<1>2. \A u : credit_record(u)' = NoDefaults /\ Defaulted(u)' = {}
  BY DEF credit_record, Defaulted, WithState
<1>3. DebtBooks'
  BY <1>2, SumEmpty DEF DebtBooks, NoDefaults
<1>4. CreditListsDefaults'
  <2>1. NoDefaults.associated_lease_ids = << >> /\ NoDefaults.default_count = 0
    BY DEF NoDefaults
  <2>2. DOMAIN << >> = {} /\ Len(<< >>) = 0
    OBVIOUS
  <2> QED
    BY <1>2, <2>1, <2>2 DEF CreditListsDefaults
<1> QED
  BY <1>1, <1>3, <1>4 DEF BooksInv

\* Activation locks the deposit.
LEMMA BooksActivated ==
    ASSUME TypeOK, BooksInv, NEW id \in DOMAIN leases, NEW m \in Lease,
           leases' = [leases EXCEPT ![id] = m],
           leases[id].state = "Pending", m.state = "Active",
           m.deposit_amount = leases[id].deposit_amount,
           escrow_vault'.total_locked = escrow_vault.total_locked + leases[id].deposit_amount,
           escrow_vault'.lessor_treasury = escrow_vault.lessor_treasury,
           UNCHANGED credit_records
    PROVE  BooksInv'
<1>1. leases[id] \in Lease /\ escrow_vault \in EscrowVault
  BY FiniteLeases DEF TypeOK
<1>2. /\ leases[id].deposit_amount \in Int
      /\ LockedFor(m) = leases[id].deposit_amount /\ LockedFor(leases[id]) = 0
      /\ TakenFrom(m) = 0 /\ TakenFrom(leases[id]) = 0
      /\ escrow_vault.lessor_treasury \in Int
  BY <1>1 DEF LockedFor, TakenFrom, Lease, EscrowVault
<1>3. \A u : ~IsDefault(m, u) /\ ~IsDefault(leases[id], u)
  BY DEF IsDefault
<1>4. VaultBooks'
  <2>1. /\ escrow_vault'.total_locked =
              escrow_vault.total_locked + (LockedFor(m) - LockedFor(leases[id]))
        /\ escrow_vault'.lessor_treasury =
              escrow_vault.lessor_treasury + (TakenFrom(m) - TakenFrom(leases[id]))
    BY <1>2
  <2>2. VaultBooks
    BY DEF BooksInv
  <2> QED
    BY <2>1, <2>2, VaultFollows
<1>5. DebtBooks' /\ CreditListsDefaults'
  BY <1>3, CreditUntouched
<1> QED
  BY <1>4, <1>5 DEF BooksInv

\* An eviction moves the deduction to the lessors and, where the deposit does
\* not cover the arrears, appends the lease to the lessee's record.
LEMMA BooksEvicted ==
    ASSUME TypeOK, BooksInv, NEW id \in DOMAIN leases, NEW m \in Lease,
           leases' = [leases EXCEPT ![id] = m],
           leases[id].state = "GracePeriod", m.state = "EvictionPending",
           m.deposit_amount = leases[id].deposit_amount,
           escrow_vault'.total_locked = escrow_vault.total_locked,
           escrow_vault'.lessor_treasury = escrow_vault.lessor_treasury + Deduction(m),
           credit_records' = IF residual_debt(m) > 0
                             THEN update_credit_record(m.lessee, residual_debt(m), id)
                             ELSE credit_records
    PROVE  BooksInv'
<1>1. /\ leases[id] \in Lease /\ escrow_vault \in EscrowVault
      /\ Deduction(m) \in Int /\ residual_debt(m) \in Nat /\ m.lessee \in Users
  <2>1. leases[id] \in Lease
    BY FiniteLeases
  <2>2. Deduction(m) \in Nat /\ residual_debt(m) \in Nat
    BY Shares
  <2>3. escrow_vault \in EscrowVault /\ m.lessee \in Users
    BY DEF TypeOK, Lease
  <2> QED
    BY <2>1, <2>2, <2>3
<1>2. /\ leases[id].deposit_amount \in Int
      /\ LockedFor(m) = leases[id].deposit_amount
      /\ LockedFor(leases[id]) = leases[id].deposit_amount
      /\ TakenFrom(m) = Deduction(m) /\ TakenFrom(leases[id]) = 0
      /\ escrow_vault.lessor_treasury \in Int /\ escrow_vault.total_locked \in Int
  BY <1>1 DEF LockedFor, TakenFrom, Lease, EscrowVault
<1>3. VaultBooks'
  <2>1. /\ escrow_vault'.total_locked =
              escrow_vault.total_locked + (LockedFor(m) - LockedFor(leases[id]))
        /\ escrow_vault'.lessor_treasury =
              escrow_vault.lessor_treasury + (TakenFrom(m) - TakenFrom(leases[id]))
    BY <1>1, <1>2
  <2>2. VaultBooks
    BY DEF BooksInv
  <2> QED
    BY <2>1, <2>2, VaultFollows
<1>4. CASE residual_debt(m) = 0
  <2>1. UNCHANGED credit_records /\ \A u : ~IsDefault(m, u) /\ ~IsDefault(leases[id], u)
    BY <1>4 DEF IsDefault
  <2>2. DebtBooks' /\ CreditListsDefaults'
    BY <2>1, CreditUntouched
  <2> QED
    BY <1>3, <2>2 DEF BooksInv
<1>5. CASE residual_debt(m) > 0
  <2> DEFINE w == m.lessee
             d == residual_debt(m)
             r == credit_record(w)
             ids == r.associated_lease_ids
  <2>1. \A u \in Users : credit_record(u) \in CreditRecord
    BY DEF TypeOK, credit_record, NoDefaults, CreditRecord
  <2>2. /\ r.total_debt_amount \in Nat /\ r.default_count \in Nat /\ ids \in Seq(Nat)
        /\ id \in Nat /\ d \in Nat /\ d > 0
    BY <1>1, <1>5, <2>1 DEF CreditRecord, TypeOK
  <2>3. \A u : ~IsDefault(leases[id], u) /\ (IsDefault(m, u) <=> u = w)
    BY <1>5 DEF IsDefault
  <2>4. /\ {ids[i] : i \in DOMAIN ids} = Defaulted(w)
        /\ \A i, j \in DOMAIN ids : ids[i] = ids[j] => i = j
        /\ r.default_count = Len(ids)
    BY <1>1 DEF BooksInv, CreditListsDefaults
  <2>5. id \notin Defaulted(w)
    BY <2>3, DefaultedMeaning
  <2>6. ~\E i \in DOMAIN ids : ids[i] = id
    BY <2>4, <2>5
  <2> DEFINE q == [total_debt_amount |-> r.total_debt_amount + d,
                   default_count |-> r.default_count + 1,
                   last_default_timestamp |-> now,
                   associated_lease_ids |-> Append(ids, id)]
  <2>7. credit_records' = Put(credit_records, w, q)
    BY <1>5, <2>6 DEF update_credit_record
  <2>8. /\ q.total_debt_amount = r.total_debt_amount + d
        /\ q.default_count = r.default_count + 1
        /\ q.associated_lease_ids = Append(ids, id)
    OBVIOUS
  <2> HIDE DEF q
  <2>9. /\ credit_record(w)' = q
        /\ \A u : u # w => credit_record(u)' = credit_record(u)
    BY <2>7 DEF credit_record, Put
  <2>10. DebtBooks'
    <3>1. ASSUME NEW u \in Users
          PROVE  credit_record(u)'.total_debt_amount =
                    credit_record(u).total_debt_amount + (DebtOf(m, u) - DebtOf(leases[id], u))
      <4>1. DebtOf(leases[id], u) = 0 /\ DebtOf(m, u) = IF u = w THEN d ELSE 0
        BY <2>3 DEF DebtOf
      <4>2. credit_record(u).total_debt_amount \in Int
        BY <2>1 DEF CreditRecord
      <4>3. CASE u = w
        BY <2>2, <2>8, <2>9, <4>1, <4>3
      <4>4. CASE u # w
        BY <2>9, <4>1, <4>2, <4>4
      <4> QED
        BY <4>3, <4>4
    <3>2. DebtBooks
      BY DEF BooksInv
    <3> QED
      BY <3>1, <3>2, DebtFollows
  <2>11. CreditListsDefaults'
    <3>1. \A u : Defaulted(u)' = IF u = w THEN Defaulted(u) \cup {id} ELSE Defaulted(u)
      <4>1. DOMAIN leases' = DOMAIN leases /\ leases'[id] = m
            /\ \A x \in DOMAIN leases \ {id} : leases'[x] = leases[x]
        OBVIOUS
      <4>2. \A u : {x \in DOMAIN leases' : IsDefault(leases'[x], u)}
                      = IF u = w THEN {x \in DOMAIN leases : IsDefault(leases[x], u)} \cup {id}
                                 ELSE {x \in DOMAIN leases : IsDefault(leases[x], u)}
        BY <2>3, <4>1
      <4>3. \A u : Defaulted(u)' = {x \in DOMAIN leases' : IsDefault(leases'[x], u)}
        BY DEF Defaulted, WithState, IsDefault
      <4> QED
        BY <4>2, <4>3, DefaultedMeaning
    <3> DEFINE new == Append(ids, id)
    <3>2. /\ DOMAIN new = DOMAIN ids \cup {Len(ids) + 1} /\ Len(new) = Len(ids) + 1
          /\ \A i \in DOMAIN ids : new[i] = ids[i]
          /\ new[Len(ids) + 1] = id /\ Len(ids) + 1 \notin DOMAIN ids
      BY <2>2
    <3>3. {new[i] : i \in DOMAIN new} = Defaulted(w) \cup {id}
      BY <2>4, <3>2
    <3>4. \A i, j \in DOMAIN new : new[i] = new[j] => i = j
      BY <2>4, <2>6, <3>2
    <3> HIDE DEF new
    <3>5. ASSUME NEW u \in Users
          PROVE  (LET c == credit_record(u)
                      l == c.associated_lease_ids
                  IN  /\ {l[i] : i \in DOMAIN l} = Defaulted(u)
                      /\ \A i, j \in DOMAIN l : l[i] = l[j] => i = j
                      /\ c.default_count = Len(l))'
      <4>1. CASE u = w
        <5>1. credit_record(u)' = q /\ q.associated_lease_ids = new /\ q.default_count = Len(new)
          BY <2>4, <2>8, <2>9, <3>2, <4>1 DEF new
        <5>2. Defaulted(u)' = Defaulted(w) \cup {id}
          BY <3>1, <4>1
        <5> QED
          BY <3>3, <3>4, <5>1, <5>2
      <4>2. CASE u # w
        <5>1. credit_record(u)' = credit_record(u) /\ Defaulted(u)' = Defaulted(u)
          BY <2>9, <3>1, <4>2
        <5> QED
          BY <5>1 DEF BooksInv, CreditListsDefaults
      <4> QED
        BY <4>1, <4>2
    <3> QED
      BY <3>5 DEF CreditListsDefaults
  <2> QED
    BY <1>3, <2>10, <2>11 DEF BooksInv
<1> QED
  BY <1>1, <1>4, <1>5

LEMMA InitBooks == Init => BooksInv
<1>1. Init => DOMAIN leases = {} /\ DOMAIN credit_records = {} /\ escrow_vault = EmptyVault
  BY DEF Init, Fresh
<1> QED
  BY <1>1, BooksEmpty

LEMMA NextBooks == TypeOK /\ BooksInv /\ [Next]_vars => BooksInv'
<1> SUFFICES ASSUME TypeOK, BooksInv, [Next]_vars
             PROVE  BooksInv'
  OBVIOUS
<1>0. /\ TypeOK' /\ now \in Nat /\ \A id \in DOMAIN leases : leases[id] \in Lease
      /\ \A id \in DOMAIN leases' : leases'[id] \in Lease
  <2>1. TypeOK'
    BY NextType
  <2>2. now \in Nat /\ \A id \in DOMAIN leases : leases[id] \in Lease
    BY FiniteLeases, BoundAssumption DEF TypeOK
  <2>3. \A id \in DOMAIN leases' : leases'[id] \in Lease
    BY <2>1 DEF TypeOK
  <2> QED
    BY <2>1, <2>2, <2>3
<1>1. CASE UNCHANGED <<leases, escrow_vault, credit_records>>
  <2>1. \A u : credit_record(u)' = credit_record(u) /\ Defaulted(u)' = Defaulted(u)
    BY <1>1 DEF credit_record, Defaulted, WithState
  <2> QED
    BY <1>1, <2>1 DEF BooksInv, VaultBooks, DebtBooks, CreditListsDefaults
<1>2. CASE initialize
  <2>1. DOMAIN leases' = {} /\ DOMAIN credit_records' = {} /\ escrow_vault' = EmptyVault
    BY <1>2 DEF initialize, Fresh
  <2> QED
    BY <2>1, BooksWiped
<1>3. ASSUME NEW lessor \in Users, NEW lessee \in Users, NEW rent \in Rents,
             NEW deposit \in Deposits, NEW term \in Terms, NEW grace \in Graces,
             NEW rate \in FeeRates, NEW peg \in Pegs,
             create_lease(lessor, lessee, rent, deposit, term, grace, rate, peg)
      PROVE  BooksInv'
  <2> DEFINE n == next_lease_id
             l == leases'[n]
  <2>1. /\ leases' = Put(leases, n, l) /\ n \in DOMAIN leases' /\ l.state = "Pending"
        /\ UNCHANGED <<escrow_vault, credit_records>>
    BY <1>3 DEF create_lease, Put
  <2>2. n \notin DOMAIN leases
    BY DEF TypeOK
  <2>3. l \in Lease
    BY <1>0, <2>1
  <2> HIDE DEF l, n
  <2> QED
    BY <2>1, <2>2, <2>3, BooksWithNewLease
<1>4. ASSUME NEW id \in DOMAIN leases, NEW user \in Users, activate_lease(id, user)
      PROVE  BooksInv'
  <2> DEFINE l == leases[id]
             m == [l EXCEPT !.state = "Active", !.last_rent_payment_timestamp = now]
             n == l.deposit_amount
  <2>1. /\ l.state = "Pending" /\ leases' = [leases EXCEPT ![id] = m]
        /\ escrow_vault' = [escrow_vault EXCEPT !.total_locked = @ + n,
                                                !.available_balance = @ + n]
        /\ UNCHANGED credit_records
    BY <1>4 DEF activate_lease, CanActivate
  <2>2. l \in Lease /\ m \in Lease /\ escrow_vault \in EscrowVault
    BY <1>0, ActivatedLease DEF TypeOK
  <2>3. m.state = "Active" /\ m.deposit_amount = n
    BY <2>2 DEF Lease
  <2>4. /\ escrow_vault'.total_locked = escrow_vault.total_locked + n
        /\ escrow_vault'.lessor_treasury = escrow_vault.lessor_treasury
    BY <2>1, <2>2 DEF EscrowVault
  <2> HIDE DEF m
  <2> QED
    BY <2>1, <2>2, <2>3, <2>4, BooksActivated
<1>5. ASSUME NEW id \in DOMAIN leases, NEW amount \in Amounts,
             process_rent_payment(id, amount)
      PROVE  BooksInv'
  <2> DEFINE l == leases[id]
             m == Paid(l, amount)
  <2>1. /\ l.state \in {"Active", "GracePeriod"} /\ leases' = [leases EXCEPT ![id] = m]
        /\ UNCHANGED <<escrow_vault, credit_records>>
    BY <1>5 DEF process_rent_payment
  <2>2. l \in Lease
    BY <1>0
  <2>3. m.state = "Active" /\ m.deposit_amount = l.deposit_amount
    BY <2>2 DEF Paid, Lease
  <2> HIDE DEF m
  <2>4. m \in Lease
    BY <1>0, <2>1
  <2> QED
    BY <2>1, <2>3, <2>4, BooksUntouched
<1>6. ASSUME NEW id \in DOMAIN leases, handle_rent_payment_failure(id)
      PROVE  BooksInv'
  <2> DEFINE l == leases[id]
             m == [l EXCEPT !.state = "GracePeriod", !.dunning_start_timestamp = now,
                       !.outstanding_balance = l.rent_amount,
                       !.accumulated_late_fees = calculate_late_fee(l, l.rent_amount)]
  <2>1. /\ l.state = "Active" /\ leases' = [leases EXCEPT ![id] = m]
        /\ UNCHANGED <<escrow_vault, credit_records>>
    BY <1>6 DEF handle_rent_payment_failure
  <2>2. l \in Lease
    BY <1>0
  <2>3. m.state = "GracePeriod" /\ m.deposit_amount = l.deposit_amount
    BY <2>2 DEF Lease
  <2> HIDE DEF m
  <2>4. m \in Lease
    BY <1>0, <2>1
  <2> QED
    BY <2>1, <2>3, <2>4, BooksUntouched
<1>7. ASSUME NEW id \in DOMAIN leases, check_grace_period_expiry(id)
      PROVE  BooksInv'
  <2> DEFINE k == leases[id]
             l == [k EXCEPT !.state = "EvictionPending"]
             m == [l EXCEPT !.arrears_processed = TRUE]
             v == escrow_vault
  <2>1. k.state = "GracePeriod" /\ execute_arrears_deduction(id, l)
    BY <1>7 DEF check_grace_period_expiry, GraceExpired
  <2>2. k \in Lease /\ l \in Lease /\ m \in Lease /\ v \in EscrowVault
    BY <1>0, EvictedLease DEF TypeOK
  <2>3. m.state = "EvictionPending" /\ l.deposit_amount = k.deposit_amount
    BY <2>2 DEF Lease
  <2> HIDE DEF l
  <2>4. /\ m.deposit_amount = l.deposit_amount /\ m.lessee = l.lessee
        /\ total_arrears(m) = total_arrears(l)
    BY <2>2 DEF Lease, total_arrears
  <2>5. Deduction(m) = Deduction(l) /\ residual_debt(m) = residual_debt(l)
    BY <2>4 DEF Deduction, residual_debt
  <2>6. /\ leases' = [leases EXCEPT ![id] = m]
        /\ v' = [v EXCEPT !.available_balance = @ - Deduction(l),
                          !.lessor_treasury = @ + Deduction(l)]
        /\ credit_records' = IF residual_debt(l) > 0
                             THEN update_credit_record(l.lessee, residual_debt(l), id)
                             ELSE credit_records
    BY <2>1 DEF execute_arrears_deduction, DeductedVault, VaultCovers, Deduction
  <2> HIDE DEF m
  <2>7. /\ v'.total_locked = v.total_locked
        /\ v'.lessor_treasury = v.lessor_treasury + Deduction(m)
    BY <2>2, <2>5, <2>6 DEF EscrowVault
  <2>8. credit_records' = IF residual_debt(m) > 0
                          THEN update_credit_record(m.lessee, residual_debt(m), id)
                          ELSE credit_records
    BY <2>4, <2>5, <2>6
  <2>9. m.deposit_amount = k.deposit_amount
    BY <2>3, <2>4
  <2> QED
    BY <2>1, <2>2, <2>3, <2>6, <2>7, <2>8, <2>9, BooksEvicted
<1>8. ASSUME NEW id \in DOMAIN leases, NEW user \in Users,
             trigger_grace_period_check(id, user)
      PROVE  BooksInv'
  BY <1>7, <1>8 DEF trigger_grace_period_check
<1>9. ASSUME NEW id \in DOMAIN leases, NEW price \in Prices, NEW timestamp \in QuoteTimes,
             process_fiat_pegged_rent_payment(id, price, timestamp)
      PROVE  BooksInv'
  <2> DEFINE l == leases[id]
             rent == calculate_fiat_pegged_rent(l, price)
             m == [l EXCEPT !.last_oracle_price = price, !.last_oracle_timestamp = timestamp,
                            !.last_rent_payment_timestamp = now,
                            !.total_paid_rent = @ + rent]
  <2>1. /\ l.state = "Active" /\ leases' = [leases EXCEPT ![id] = m]
        /\ UNCHANGED <<escrow_vault, credit_records>>
    BY <1>9 DEF process_fiat_pegged_rent_payment
  <2>2. l \in Lease
    BY <1>0
  <2> HIDE DEF rent
  <2>3. m.state = "Active" /\ m.deposit_amount = l.deposit_amount
    BY <2>1, <2>2 DEF Lease
  <2> HIDE DEF m
  <2>4. m \in Lease
    BY <1>0, <2>1
  <2> QED
    BY <2>1, <2>3, <2>4, BooksUntouched
<1>10. ASSUME NEW id \in DOMAIN leases, NEW user \in Users, terminate_lease(id, user)
       PROVE  BooksInv'
  <2> DEFINE l == leases[id]
             m == [l EXCEPT !.state = "Closed"]
  <2>1. /\ l.state = "Active" /\ leases' = [leases EXCEPT ![id] = m]
        /\ UNCHANGED <<escrow_vault, credit_records>>
    BY <1>10 DEF terminate_lease, CanTerminate
  <2>2. l \in Lease
    BY <1>0
  <2>3. m.state = "Closed" /\ m.deposit_amount = l.deposit_amount
    BY <2>2 DEF Lease
  <2> HIDE DEF m
  <2>4. m \in Lease
    BY <1>0, <2>1
  <2> QED
    BY <2>1, <2>3, <2>4, BooksUntouched
<1>11. CASE Tick
  BY <1>1, <1>11 DEF Tick
<1>12. CASE UNCHANGED vars
  BY <1>1, <1>12 DEF vars
<1> QED
  BY <1>2, <1>3, <1>4, <1>5, <1>6, <1>7, <1>8, <1>9, <1>10, <1>11, <1>12 DEF Next

\* The totals over all leases are the sums the properties speak of.
LEMMA BooksMeanVault ==
    ASSUME IInv, BooksInv
    PROVE  VaultBacksDeposits
<1> DEFINE D == DOMAIN leases
           A == WithState(LeaseState \ {"Pending"})
           E == WithState({"EvictionPending"})
<1>1. TypeOK /\ VaultConserved /\ VaultBooks
  BY DEF IInv, BooksInv
<1>2. IsFiniteSet(D) /\ \A x \in D : leases[x] \in Lease
  BY <1>1, FiniteLeases
<1>3. A \in SUBSET D /\ E \in SUBSET D
  BY DEF WithState
<1>4. SumFunctionOnSet(Locked(leases), D)
         = SumFunctionOnSet([id \in D |-> leases[id].deposit_amount], A)
  <2> DEFINE h == Locked(leases)
             g == [id \in D |-> leases[id].deposit_amount]
  <2>1. \A x \in D : h[x] \in Int
    BY <1>2, Shares DEF Locked
  <2>2. \A x \in A : g[x] = h[x]
    BY DEF WithState, Locked, LockedFor
  <2>3. \A x \in D \ A : h[x] = 0
    BY <1>2 DEF WithState, Locked, LockedFor, Lease
  <2> HIDE DEF g, h, A, D
  <2>4. SumFunctionOnSet(h, D) = SumFunctionOnSet(g, A)
    BY <1>2, <1>3, <2>1, <2>2, <2>3, SumFilter
  <2> QED
    BY <2>4 DEF g, h
<1>5. SumFunctionOnSet(Taken(leases), D)
         = SumFunctionOnSet([id \in D |-> Deduction(leases[id])], E)
  <2> DEFINE h == Taken(leases)
             g == [id \in D |-> Deduction(leases[id])]
  <2>1. \A x \in D : h[x] \in Int
    BY <1>2, Shares DEF Taken
  <2>2. \A x \in E : g[x] = h[x]
    BY DEF WithState, Taken, TakenFrom
  <2>3. \A x \in D \ E : h[x] = 0
    BY <1>2 DEF WithState, Taken, TakenFrom
  <2> HIDE DEF g, h, E, D
  <2>4. SumFunctionOnSet(h, D) = SumFunctionOnSet(g, E)
    BY <1>2, <1>3, <2>1, <2>2, <2>3, SumFilter
  <2> QED
    BY <2>4 DEF g, h
<1>6. escrow_vault.available_balance = escrow_vault.total_locked - escrow_vault.lessor_treasury
  BY <1>1 DEF VaultConserved, TypeOK, EscrowVault
<1> QED
  BY <1>1, <1>4, <1>5, <1>6 DEF VaultBooks, VaultBacksDeposits

\* The deposit of a lease in its grace period is still whole: no other lease
\* took more than its own.
LEMMA BooksCoverDeductions ==
    ASSUME IInv, BooksInv
    PROVE  DeductionCovered
<1>1. TypeOK /\ VaultConserved /\ VaultBooks
  BY DEF IInv, BooksInv
<1> DEFINE D == DOMAIN leases
<1>2. IsFiniteSet(D) /\ \A x \in D : leases[x] \in Lease
  BY <1>1, FiniteLeases
<1>3. ASSUME NEW id \in D, GraceExpired(leases[id])
      PROVE  escrow_vault.available_balance >= Deduction(leases[id])
  <2> DEFINE g == Taken(leases)
             n == Deduction(leases[id])
             h == [x \in D |-> IF x = id THEN n ELSE g[x]]
             c == Locked(leases)
  <2>1. \A x \in D : g[x] \in Int /\ c[x] \in Int /\ g[x] <= c[x]
    BY <1>2, Shares DEF Taken, Locked
  <2>2. n \in Int /\ n <= c[id] /\ g[id] = 0
    <3>1. leases[id] \in Lease /\ leases[id].state = "GracePeriod"
      BY <1>2, <1>3 DEF GraceExpired
    <3>2. n \in Nat /\ n <= leases[id].deposit_amount
      BY <3>1, Shares
    <3> QED
      BY <3>1, <3>2 DEF Taken, TakenFrom, Locked, LockedFor
  <2>3. /\ \A x \in D : h[x] \in Int /\ h[x] <= c[x]
        /\ \A x \in D \ {id} : h[x] = g[x]
        /\ h[id] = n
    BY <2>1, <2>2
  <2>4. IsFiniteSet(D) /\ id \in D
    BY <1>2
  <2>5. /\ escrow_vault.total_locked = SumFunctionOnSet(c, D)
        /\ escrow_vault.lessor_treasury = SumFunctionOnSet(g, D)
    BY <1>1 DEF VaultBooks
  <2> HIDE DEF g, n, h, c, D
  <2>6. SumFunctionOnSet(h, D) = SumFunctionOnSet(g, D) + (h[id] - g[id])
    BY <2>1, <2>3, <2>4, SumChange
  <2>7. SumFunctionOnSet(h, D) <= SumFunctionOnSet(c, D)
    BY <2>1, <2>3, <2>4, SumMonotone
  <2>8. /\ escrow_vault.total_locked \in Int /\ escrow_vault.lessor_treasury \in Int
        /\ escrow_vault.available_balance \in Int
        /\ escrow_vault.available_balance + escrow_vault.lessor_treasury
              = escrow_vault.total_locked
    BY <1>1 DEF TypeOK, EscrowVault, VaultConserved
  <2>9. escrow_vault.available_balance >= n
    BY <2>2, <2>3, <2>5, <2>6, <2>7, <2>8
  <2> QED
    BY <2>9 DEF n
<1> QED
  BY <1>3 DEF DeductionCovered

LEMMA BooksMeanDebt ==
    ASSUME TypeOK, BooksInv
    PROVE  CreditDebtExact
<1> DEFINE D == DOMAIN leases
<1>1. IsFiniteSet(D) /\ \A x \in D : leases[x] \in Lease
  BY FiniteLeases
<1>2. ASSUME NEW u \in Users
      PROVE  credit_record(u).total_debt_amount =
                SumFunctionOnSet([id \in D |-> residual_debt(leases[id])], Defaulted(u))
  <2> DEFINE h == Debts(leases, u)
             g == [id \in D |-> residual_debt(leases[id])]
             T == Defaulted(u)
  <2>1. T = {id \in D : IsDefault(leases[id], u)}
    BY DefaultedMeaning
  <2>2. \A x \in D : h[x] \in Int
    BY <1>1, Shares DEF Debts
  <2>3. (\A x \in T : g[x] = h[x]) /\ (\A x \in D \ T : h[x] = 0)
    BY <2>1 DEF Debts, DebtOf
  <2>4. T \in SUBSET D
    BY <2>1
  <2>5. credit_record(u).total_debt_amount = SumFunctionOnSet(h, D)
    BY DEF BooksInv, DebtBooks
  <2> HIDE DEF g, h, T, D
  <2>6. SumFunctionOnSet(h, D) = SumFunctionOnSet(g, T)
    BY <1>1, <2>2, <2>3, <2>4, SumFilter
  <2> QED
    BY <2>5, <2>6 DEF g, T
<1> QED
  BY <1>2 DEF CreditDebtExact

\* The books of the vault and of the defaults are kept by every call: with BooksInv the
\* sums over all leases follow each change of one lease.
THEOREM BooksAlwaysKept == Spec => []BooksInv
<1>1. IInv => TypeOK
  BY DEF IInv
<1> QED
  BY <1>1, InitBooks, NextBooks, Invariance, PTL DEF Spec

\* The shared vault is exact, to the sum over any number of leases, and can
\* always pay the next eviction: no grace period that has run out is left
\* unsettled because other leases emptied the vault.
THEOREM VaultAlwaysSolvent == Spec => []VaultSolvent
<1>1. IInv /\ BooksInv => VaultSolvent
  BY BooksMeanVault, BooksCoverDeductions DEF VaultSolvent
<1> QED
  BY <1>1, Invariance, BooksAlwaysKept, PTL

\* A lessee's credit record lists each default once and owes exactly their sum.
THEOREM CreditAlwaysExact == Spec => []CreditExact
<1>1. IInv /\ BooksInv => CreditExact
  BY BooksMeanDebt DEF CreditExact, BooksInv, IInv
<1> QED
  BY <1>1, Invariance, BooksAlwaysKept, PTL

-----------------------------------------------------------------------------
(***************************************************************************)
(* The circuit breaker.  A stored price is positive, because a pegged      *)
(* payment with any other price computes no rent, so the guard of the      *)
(* breaker is never skipped for a stored price; and no step but the pegged *)
(* payment writes the price.                                               *)
(***************************************************************************)
PositivePrice(l) == l.last_oracle_price \in (Nat \ {0}) \cup {None}

PricesInv == \A id \in DOMAIN leases : PositivePrice(leases[id])

\* The price of m is the one of l, or a positive quote that was acceptable for l.
Quoted(l, m) ==
    \/ m.last_oracle_price = l.last_oracle_price
    \/ /\ m.last_oracle_price \in Nat \ {0}
       /\ \E timestamp : AcceptableQuote(l, m.last_oracle_price, timestamp)

StepQuoted ==
    /\ \A id \in Kept : Quoted(leases[id], leases'[id])
    /\ \A id \in DOMAIN leases' \ DOMAIN leases : leases'[id].last_oracle_price = None

\* A step that replaces the lease of id by m.
LEMMA StoreQuoted ==
    ASSUME TypeOK, NEW id \in DOMAIN leases, NEW m, Quoted(leases[id], m),
           leases' = [leases EXCEPT ![id] = m]
    PROVE  StepQuoted
<1>1. DOMAIN leases' = DOMAIN leases
  OBVIOUS
<1>2. ASSUME NEW i \in Kept PROVE Quoted(leases[i], leases'[i])
  <2>1. CASE i = id
    BY <2>1
  <2>2. CASE i # id
    BY <1>2, <2>2 DEF Kept, Quoted
  <2> QED
    BY <2>1, <2>2
<1> QED
  BY <1>1, <1>2 DEF StepQuoted

LEMMA NextQuoted == IInv /\ [Next]_vars => StepQuoted
<1> SUFFICES ASSUME IInv, [Next]_vars PROVE StepQuoted
  OBVIOUS
<1>0. TypeOK /\ now \in Nat /\ \A id \in DOMAIN leases : leases[id] \in Lease
  BY BoundAssumption DEF IInv, TypeOK
<1>s. ASSUME NEW id \in DOMAIN leases, NEW m, leases' = [leases EXCEPT ![id] = m],
             m.last_oracle_price = leases[id].last_oracle_price
      PROVE  StepQuoted
  BY <1>0, <1>s, StoreQuoted DEF Quoted
<1>1. CASE Tick \/ UNCHANGED vars
  BY <1>1 DEF Tick, vars, StepQuoted, Quoted, Kept
<1>2. CASE initialize
  BY <1>2 DEF initialize, Fresh, StepQuoted, Kept
<1>3. ASSUME NEW lessor \in Users, NEW lessee \in Users, NEW rent \in Rents,
             NEW deposit \in Deposits, NEW term \in Terms, NEW grace \in Graces,
             NEW rate \in FeeRates, NEW peg \in Pegs,
             create_lease(lessor, lessee, rent, deposit, term, grace, rate, peg)
      PROVE  StepQuoted
  <2>1. PICK l : l.last_oracle_price = None /\ leases' = Put(leases, next_lease_id, l)
    BY <1>3 DEF create_lease
  <2>2. next_lease_id \notin DOMAIN leases
    BY <1>0 DEF TypeOK
  <2> QED
    BY <2>1, <2>2 DEF StepQuoted, Quoted, Kept, Put
<1>4. ASSUME NEW id \in DOMAIN leases, NEW user \in Users, activate_lease(id, user)
      PROVE  StepQuoted
  <2> DEFINE l == leases[id]
             m == [l EXCEPT !.state = "Active", !.last_rent_payment_timestamp = now]
  <2>1. leases' = [leases EXCEPT ![id] = m]
    BY <1>4 DEF activate_lease
  <2>2. m.last_oracle_price = l.last_oracle_price
    BY <1>0 DEF Lease
  <2> HIDE DEF m
  <2> QED
    BY <1>s, <2>1, <2>2
<1>5. ASSUME NEW id \in DOMAIN leases, NEW amount \in Amounts,
             process_rent_payment(id, amount)
      PROVE  StepQuoted
  <2> DEFINE l == leases[id]
             m == Paid(l, amount)
  <2>1. leases' = [leases EXCEPT ![id] = m]
    BY <1>5 DEF process_rent_payment
  <2>2. m.last_oracle_price = l.last_oracle_price
    BY <1>0 DEF Lease, Paid
  <2> HIDE DEF m
  <2> QED
    BY <1>s, <2>1, <2>2
<1>6. ASSUME NEW id \in DOMAIN leases, handle_rent_payment_failure(id)
      PROVE  StepQuoted
  <2> DEFINE l == leases[id]
             f == calculate_late_fee(l, l.rent_amount)
             m == [l EXCEPT !.state = "GracePeriod", !.dunning_start_timestamp = now,
                       !.outstanding_balance = l.rent_amount,
                       !.accumulated_late_fees = f]
  <2>1. leases' = [leases EXCEPT ![id] = m]
    BY <1>6 DEF handle_rent_payment_failure
  <2> HIDE DEF f
  <2>2. m.last_oracle_price = l.last_oracle_price
    BY <1>0 DEF Lease
  <2> HIDE DEF m
  <2> QED
    BY <1>s, <2>1, <2>2
<1>7. ASSUME NEW id \in DOMAIN leases, check_grace_period_expiry(id)
      PROVE  StepQuoted
  <2> DEFINE k == leases[id]
             l == [k EXCEPT !.state = "EvictionPending"]
             m == [l EXCEPT !.arrears_processed = TRUE]
  <2>1. leases' = [leases EXCEPT ![id] = m]
    BY <1>7 DEF check_grace_period_expiry, execute_arrears_deduction
  <2>2. m.last_oracle_price = k.last_oracle_price
    BY <1>0 DEF Lease
  <2> HIDE DEF m
  <2> QED
    BY <1>s, <2>1, <2>2
<1>8. ASSUME NEW id \in DOMAIN leases, NEW user \in Users,
             trigger_grace_period_check(id, user)
      PROVE  StepQuoted
  BY <1>7, <1>8 DEF trigger_grace_period_check
<1>9. ASSUME NEW id \in DOMAIN leases, NEW price \in Prices, NEW timestamp \in QuoteTimes,
             process_fiat_pegged_rent_payment(id, price, timestamp)
      PROVE  StepQuoted
  <2> DEFINE l == leases[id]
             rent == calculate_fiat_pegged_rent(l, price)
             m == [l EXCEPT !.last_oracle_price = price, !.last_oracle_timestamp = timestamp,
                            !.last_rent_payment_timestamp = now,
                            !.total_paid_rent = @ + rent]
  <2>1. /\ leases' = [leases EXCEPT ![id] = m]
        /\ AcceptableQuote(l, price, timestamp) /\ rent > 0
    BY <1>9 DEF process_fiat_pegged_rent_payment
  <2>2. price \in Nat \ {0}
    <3>1. price \in Int
      BY InputAssumption
    <3>2. price > 0
      BY <2>1, <3>1 DEF calculate_fiat_pegged_rent
    <3> QED
      BY <3>1, <3>2
  <2> HIDE DEF rent
  <2>3. m.last_oracle_price = price
    BY <1>0 DEF Lease
  <2> HIDE DEF m
  <2>4. Quoted(l, m)
    BY <2>1, <2>2, <2>3 DEF Quoted
  <2> QED
    BY <1>0, <2>1, <2>4, StoreQuoted
<1>10. ASSUME NEW id \in DOMAIN leases, NEW user \in Users, terminate_lease(id, user)
       PROVE  StepQuoted
  <2> DEFINE l == leases[id]
             m == [l EXCEPT !.state = "Closed"]
  <2>1. leases' = [leases EXCEPT ![id] = m]
    BY <1>10 DEF terminate_lease
  <2>2. m.last_oracle_price = l.last_oracle_price
    BY <1>0 DEF Lease
  <2> HIDE DEF m
  <2> QED
    BY <1>s, <2>1, <2>2
<1> QED
  BY <1>1, <1>2, <1>3, <1>4, <1>5, <1>6, <1>7, <1>8, <1>9, <1>10 DEF Next

\* Every stored price is positive.
THEOREM PricesAlwaysPositive == Spec => []PricesInv
<1>1. Init => PricesInv
  BY DEF Init, Fresh, PricesInv
<1>2. IInv /\ PricesInv /\ [Next]_vars => PricesInv'
  <2> SUFFICES ASSUME PricesInv, StepQuoted, NEW id \in DOMAIN leases'
               PROVE  PositivePrice(leases'[id])
    BY NextQuoted DEF PricesInv
  <2>1. CASE id \in DOMAIN leases
    BY <2>1 DEF PricesInv, PositivePrice, StepQuoted, Quoted, Kept
  <2>2. CASE id \notin DOMAIN leases
    BY <2>2 DEF StepQuoted, PositivePrice
  <2> QED
    BY <2>1, <2>2
<1> QED
  BY <1>1, <1>2, Invariance, PTL DEF Spec

\* The circuit breaker holds for any prices, times and thresholds: two successive pegged
\* payments of a lease within the hour after the first price never use prices further
\* apart than the lease's threshold, whatever happened to the lease in between.
THEOREM CircuitBreakerAlwaysHolds == Spec => CircuitBreakerHolds
<1>1. ASSUME PricesInv, StepQuoted, NEW id \in Kept,
             leases[id].last_oracle_price # None,
             leases'[id].last_oracle_price # leases[id].last_oracle_price,
             SaturatingSub(now, leases[id].last_oracle_timestamp) <= MaxPriceAge
      PROVE  PriceMove(leases[id], leases'[id].last_oracle_price)
                <= leases[id].fiat_peg_config.volatility_threshold
  <2>1. leases[id].last_oracle_price > 0
    BY <1>1 DEF PricesInv, PositivePrice, Kept
  <2> QED
    BY <1>1, <2>1 DEF StepQuoted, Quoted, AcceptableQuote
<1>2. IInv /\ PricesInv /\ [Next]_vars =>
        [\A id \in Kept :
            LET l == leases[id]
                q == leases'[id].last_oracle_price
            IN  (/\ l.last_oracle_price # None /\ q # l.last_oracle_price
                 /\ SaturatingSub(now, l.last_oracle_timestamp) <= MaxPriceAge)
                => PriceMove(l, q) <= l.fiat_peg_config.volatility_threshold]_vars
  BY <1>1, NextQuoted
<1> QED
  BY <1>2, Invariance, PricesAlwaysPositive, PTL DEF Spec, CircuitBreakerHolds
=============================================================================
