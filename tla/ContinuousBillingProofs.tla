---------------------- MODULE ContinuousBillingProofs ----------------------
(***************************************************************************)
(* Proofs about ContinuousBilling, for any parties, terms, amounts and     *)
(* bounds: the treasury's books, the use of payment authorizations, the    *)
(* end of billing, and that the service implements RentTreasury.           *)
(***************************************************************************)
EXTENDS ContinuousBilling, SumTheorems, TLAPS

FlagsInv ==
    /\ now \in StartTime..MaxTime
    /\ reentrancy_enabled \in BOOLEAN /\ reentrancy_guard \in BOOLEAN
    /\ billing_state \in BillingState

CyclesInv ==
    /\ DOMAIN billing_cycles \subseteq Nat
    /\ \A c \in DOMAIN billing_cycles : billing_cycles[c] \in BillingCycle

\* The last cycle of a lease that was billed started within its term.
BilledWithinTerm(lease) ==
    /\ lease.last_billing_cycle <= lease.end_time
    /\ lease.last_billing_cycle = 0 \/ lease.start_time <= lease.last_billing_cycle

LeasesInv ==
    /\ DOMAIN active_leases \subseteq BillingLeases
    /\ \A l \in DOMAIN active_leases :
          active_leases[l] \in ActiveLease /\ BilledWithinTerm(active_leases[l])

TreasuryInv == rent_treasury \in RentTreasuryType /\ TreasuryBalanced

\* One grant: what was pulled under it is what it allowed.
GoodGrant(r) ==
    /\ r \in GrantRecord
    /\ r.pulls <= 1
    /\ r.pulls = 0 => r.pulled = 0
    /\ r.pulls = 1 => r.pulled <= r.amount /\ r.last <= r.expiry

\* The authorization stored under k stands for the grant a.lessee gave under that nonce,
\* and an active one was not pulled yet.
BackedByGrant(k, a, gs) ==
    /\ a \in PaymentAuthorization
    /\ k = <<a.lease_id, a.nonce>>
    /\ <<a.lessee, a.nonce>> \in DOMAIN gs
    /\ LET r == gs[<<a.lessee, a.nonce>>]
       IN /\ r.amount = a.authorized_amount /\ r.expiry = a.expiry_timestamp
          /\ a.is_active => r.pulls = 0

\* Nonces grow per lessee, so a grant is never given twice; an authorization is stored per
\* lease and nonce, so another lessee may overwrite it, but no two of them stand for the
\* same grant.
GrantsInv ==
    /\ authorization_nonces \in [BillingParties -> Nat]
    /\ DOMAIN grants \subseteq BillingParties \X (1..MaxNonce)
    /\ \A g \in DOMAIN grants : g[2] <= authorization_nonces[g[1]]
    /\ \A g \in DOMAIN grants : GoodGrant(grants[g])
    /\ DOMAIN authorizations \subseteq BillingLeases \X Nat
    /\ \A k \in DOMAIN authorizations : BackedByGrant(k, authorizations[k], grants)
    /\ \A k, m \in DOMAIN authorizations :
          /\ authorizations[k].lessee = authorizations[m].lessee
          /\ authorizations[k].nonce = authorizations[m].nonce
          => k = m

BillingInv == FlagsInv /\ CyclesInv /\ LeasesInv /\ TreasuryInv /\ GrantsInv

-----------------------------------------------------------------------------
LEMMA BillingInitInv == BillingInit => BillingInv
  <1> SUFFICES ASSUME BillingInit PROVE BillingInv
    OBVIOUS
  <1>1. FlagsInv
    <2>1. now \in StartTime..MaxTime
      BY LedgerAssumption DEF BillingInit
    <2>2. billing_state \in BillingState
      BY DEF BillingInit, BillingState
    <2> QED BY <2>1, <2>2 DEF BillingInit, FlagsInv
  <1>2. CyclesInv /\ LeasesInv
    BY DEF BillingInit, CyclesInv, LeasesInv
  <1>3. TreasuryInv
    BY DEF BillingInit, TreasuryInv, RentTreasuryType, TreasuryBalanced
  <1>4. GrantsInv
    BY DEF BillingInit, GrantsInv
  <1> QED BY <1>1, <1>2, <1>3, <1>4 DEF BillingInv

\* An exit releases the guard or leaves it alone.
LEMMA GuardBoolean ==
    ASSUME reentrancy_guard \in BOOLEAN, exit_reentrancy_guard
    PROVE  reentrancy_guard' \in BOOLEAN
  BY DEF exit_reentrancy_guard

\* A lease written in place of another, or under a new id, keeps the leases good.
LEMMA LeaseWritten ==
    ASSUME LeasesInv, NEW id \in BillingLeases, NEW l \in ActiveLease,
           BilledWithinTerm(l),
           DOMAIN active_leases' = DOMAIN active_leases \cup {id}, active_leases'[id] = l,
           \A i \in DOMAIN active_leases : i # id => active_leases'[i] = active_leases[i]
    PROVE  LeasesInv'
  BY DEF LeasesInv

\* The same for a cycle.
LEMMA CycleWritten ==
    ASSUME CyclesInv, NEW c \in Nat, NEW q \in BillingCycle,
           DOMAIN billing_cycles' = DOMAIN billing_cycles \cup {c}, billing_cycles'[c] = q,
           \A i \in DOMAIN billing_cycles : i # c => billing_cycles'[i] = billing_cycles[i]
    PROVE  CyclesInv'
  BY DEF CyclesInv

LEMMA RegisterInv ==
    ASSUME BillingInv, NEW terms \in BillingTerms, register_lease_billing(terms)
    PROVE  BillingInv'
  <1> DEFINE l == [lessor |-> terms.lessor, lessee |-> terms.lessee,
                   rent_amount |-> terms.rent_amount, rent_per_second |-> terms.rent_per_second,
                   start_time |-> terms.start_time, end_time |-> terms.end_time,
                   billing_frequency |-> terms.billing_frequency,
                   last_billing_cycle |-> 0, status |-> "active",
                   total_owed |-> 0, total_paid |-> 0, billing_enabled |-> TRUE]
             id == terms.lease_id
  <1>1. terms \in BillingTermsType
    BY BillingAssumption
  <1>2. l \in ActiveLease /\ BilledWithinTerm(l) /\ id \in BillingLeases
    BY <1>1 DEF BilledWithinTerm, BillingTermsType, ActiveLease
  <1>3. /\ active_leases' = Store(active_leases, id, l)
        /\ UNCHANGED <<billing_cycles, authorization_nonces, authorizations, rent_treasury,
                       billing_state, reentrancy_enabled, reentrancy_guard, grants, now>>
    BY DEF register_lease_billing
  <1> HIDE DEF l, id
  <1>4. /\ DOMAIN active_leases' = DOMAIN active_leases \cup {id} /\ active_leases'[id] = l
        /\ \A i \in DOMAIN active_leases : i # id => active_leases'[i] = active_leases[i]
    BY <1>3 DEF Store
  <1>5. LeasesInv'
    BY <1>2, <1>4, LeaseWritten DEF BillingInv
  <1>6. FlagsInv' /\ CyclesInv' /\ TreasuryInv' /\ GrantsInv'
    BY <1>3 DEF BillingInv, FlagsInv, CyclesInv, TreasuryInv, TreasuryBalanced, GrantsInv
  <1> QED BY <1>5, <1>6 DEF BillingInv

\* The seconds a cycle bills lie within the term of its lease and in the past.
LEMMA BilledSeconds ==
    ASSUME now \in Nat, NEW lease \in ActiveLease, BilledWithinTerm(lease), duration_defined(lease)
    PROVE  /\ next_cycle_time(lease) \in Nat /\ billed_until(lease) \in Nat
           /\ lease.start_time <= next_cycle_time(lease)
           /\ next_cycle_time(lease) <= billed_until(lease)
           /\ billed_until(lease) <= lease.end_time /\ billed_until(lease) <= now
  BY DEF next_cycle_time, billed_until, duration_defined, BilledWithinTerm, ActiveLease

LEMMA CycleInv ==
    ASSUME BillingInv, NEW id \in BillingLeases, process_billing_cycle(id)
    PROVE  BillingInv'
  <1> DEFINE lease == active_leases[id]
             next == next_cycle_time(lease)
             rent == calculated_rent(lease)
             q == [lease_id |-> id, lessee |-> lease.lessee, lessor |-> lease.lessor,
                   rent_amount |-> rent, cycle_start |-> next,
                   actual_duration_seconds |-> actual_duration(lease),
                   status |-> "pending", arrears_amount |-> 0]
             l == [lease EXCEPT !.last_billing_cycle = next, !.total_owed = @ + rent]
  <1>1. /\ id \in DOMAIN active_leases /\ duration_defined(lease)
        /\ billing_cycles' = Store(billing_cycles, now, q)
        /\ active_leases' = [active_leases EXCEPT ![id] = l]
        /\ billing_state' = [billing_state EXCEPT !.total_cycles_processed = @ + 1]
        /\ exit_reentrancy_guard
        /\ UNCHANGED <<authorization_nonces, authorizations, rent_treasury,
                       reentrancy_enabled, grants, now>>
    BY DEF process_billing_cycle, sequence
  <1>2. now \in Nat /\ lease \in ActiveLease /\ BilledWithinTerm(lease)
    BY <1>1, LedgerAssumption DEF BillingInv, FlagsInv, LeasesInv
  <1>3. /\ next \in Nat /\ billed_until(lease) \in Nat /\ billed_until(lease) <= lease.end_time
        /\ lease.start_time <= next /\ next <= billed_until(lease)
    BY <1>1, <1>2, BilledSeconds
  <1>4. actual_duration(lease) \in Nat
    <2> HIDE DEF lease
    <2> QED BY <1>1, <1>3 DEF actual_duration
  <1>5. rent \in Int
    <2> HIDE DEF lease
    <2> QED BY <1>2, <1>4 DEF calculated_rent, ActiveLease
  <1>6. q \in BillingCycle
    <2> HIDE DEF lease, next, rent
    <2> QED BY <1>2, <1>3, <1>4, <1>5 DEF BillingCycle, ActiveLease
  <1>7. l \in ActiveLease /\ BilledWithinTerm(l)
    <2> HIDE DEF lease, next, rent
    <2>1. lease.total_owed + rent \in Int /\ lease.end_time \in Nat
      BY <1>2, <1>5 DEF ActiveLease
    <2>2. /\ l \in ActiveLease /\ l.last_billing_cycle = next /\ l.end_time = lease.end_time
          /\ l.start_time = lease.start_time
      BY <1>2, <1>3, <2>1 DEF ActiveLease
    <2> QED BY <1>3, <2>1, <2>2 DEF BilledWithinTerm
  <1> HIDE DEF q, l
  <1>8. /\ DOMAIN active_leases' = DOMAIN active_leases \cup {id} /\ active_leases'[id] = l
        /\ \A i \in DOMAIN active_leases : i # id => active_leases'[i] = active_leases[i]
    BY <1>1
  <1>9. LeasesInv'
    BY <1>7, <1>8, LeaseWritten DEF BillingInv
  <1>10. /\ DOMAIN billing_cycles' = DOMAIN billing_cycles \cup {now} /\ billing_cycles'[now] = q
         /\ \A i \in DOMAIN billing_cycles : i # now => billing_cycles'[i] = billing_cycles[i]
    BY <1>1 DEF Store
  <1>11. CyclesInv'
    BY <1>2, <1>6, <1>10, CycleWritten DEF BillingInv
  <1>12. billing_state' \in BillingState
         /\ billing_state'.total_rent_collected = billing_state.total_rent_collected
    BY <1>1 DEF BillingInv, FlagsInv, BillingState
  <1>13. FlagsInv'
    BY <1>1, <1>12, GuardBoolean DEF BillingInv, FlagsInv
  <1>14. TreasuryInv' /\ GrantsInv'
    BY <1>1, <1>12 DEF BillingInv, TreasuryInv, TreasuryBalanced, GrantsInv
  <1> QED BY <1>9, <1>11, <1>13, <1>14 DEF BillingInv

\* What Payment does to every part of the state it touches.
LEMMA PaymentInv ==
    ASSUME BillingInv, NEW cid, NEW amount \in Int, Payment(cid, amount)
    PROVE  /\ CyclesInv' /\ LeasesInv' /\ TreasuryInv' /\ billing_state' \in BillingState
           /\ amount \in Nat
           /\ rent_treasury'.total_collected = rent_treasury.total_collected + amount
           /\ rent_treasury'.total_distributed = rent_treasury.total_distributed
  <1> DEFINE cycle == billing_cycles[cid]
             paid == paid_cycle(cycle, amount)
             id == cycle.lease_id
             lease == active_leases[id]
             l == paid_lease(lease, paid, amount)
  <1>1. /\ cid \in DOMAIN billing_cycles /\ id \in DOMAIN active_leases
        /\ amount <= cycle.rent_amount /\ amount >= 0
        /\ billing_cycles' = [billing_cycles EXCEPT ![cid] = paid]
        /\ active_leases' = [active_leases EXCEPT ![id] = l]
        /\ rent_treasury' = collect(amount)
        /\ billing_state' = [billing_state EXCEPT !.total_rent_collected = @ + amount]
    BY DEF Payment, payable
  <1>2. /\ amount \in Nat /\ cid \in Nat /\ cycle \in BillingCycle /\ id \in BillingLeases
        /\ lease \in ActiveLease /\ BilledWithinTerm(lease)
    BY <1>1 DEF BillingInv, CyclesInv, LeasesInv
  <1>3. paid \in BillingCycle
    <2> HIDE DEF cycle
    <2> DEFINE st == IF amount = cycle.rent_amount THEN "processed" ELSE "failed"
               ar == IF amount = cycle.rent_amount THEN cycle.arrears_amount
                     ELSE cycle.rent_amount - amount
    <2>1. st \in {"pending", "processed", "failed"} /\ ar \in Nat
      BY <1>1, <1>2 DEF BillingCycle
    <2>2. paid = [cycle EXCEPT !.status = st, !.arrears_amount = ar]
      BY DEF paid_cycle
    <2> HIDE DEF st, ar, paid
    <2> QED BY <1>2, <2>1, <2>2 DEF BillingCycle
  <1>4. l \in ActiveLease /\ BilledWithinTerm(l)
    <2> HIDE DEF lease, paid
    <2>1. lease.total_paid + amount \in Nat /\ lease.total_owed + paid.arrears_amount \in Int
      BY <1>2, <1>3 DEF ActiveLease, BillingCycle
    <2>2. /\ l \in ActiveLease /\ l.last_billing_cycle = lease.last_billing_cycle
          /\ l.end_time = lease.end_time /\ l.start_time = lease.start_time
      BY <1>2, <2>1 DEF paid_lease, ActiveLease
    <2> QED BY <1>2, <2>2 DEF BilledWithinTerm
  <1> HIDE DEF paid, l, lease
  <1>5. /\ DOMAIN billing_cycles' = DOMAIN billing_cycles \cup {cid} /\ billing_cycles'[cid] = paid
        /\ \A i \in DOMAIN billing_cycles : i # cid => billing_cycles'[i] = billing_cycles[i]
    BY <1>1
  <1>6. CyclesInv'
    BY <1>2, <1>3, <1>5, CycleWritten DEF BillingInv
  <1> HIDE DEF id
  <1>7. /\ DOMAIN active_leases' = DOMAIN active_leases \cup {id} /\ active_leases'[id] = l
        /\ \A i \in DOMAIN active_leases : i # id => active_leases'[i] = active_leases[i]
    BY <1>1
  <1>8. LeasesInv'
    BY <1>2, <1>4, <1>7, LeaseWritten DEF BillingInv
  <1>9. /\ rent_treasury' \in RentTreasuryType
        /\ rent_treasury'.total_collected = rent_treasury.total_collected + amount
        /\ rent_treasury'.available_balance = rent_treasury.available_balance + amount
        /\ rent_treasury'.total_distributed = rent_treasury.total_distributed
    <2>1. rent_treasury \in RentTreasuryType
      BY DEF BillingInv, TreasuryInv
    <2>2. /\ rent_treasury.total_collected + amount \in Nat
          /\ rent_treasury.available_balance + amount \in Nat
      BY <1>2, <2>1 DEF RentTreasuryType
    <2> QED BY <1>1, <2>1, <2>2 DEF RentTreasuryType, collect
  <1>10. /\ billing_state' \in BillingState
         /\ billing_state'.total_rent_collected = billing_state.total_rent_collected + amount
    BY <1>1, <1>2 DEF BillingInv, FlagsInv, BillingState
  <1>11. TreasuryInv'
    BY <1>2, <1>9, <1>10 DEF BillingInv, FlagsInv, TreasuryInv, TreasuryBalanced, RentTreasuryType,
                       BillingState
  <1> QED BY <1>2, <1>6, <1>8, <1>9, <1>10, <1>11

LEMMA SignedPaymentInv ==
    ASSUME BillingInv, NEW cid, NEW amount \in PayAmounts, process_payment(cid, amount)
    PROVE  BillingInv'
  <1>1. amount \in Int
    BY BillingAssumption
  <1>2. /\ Payment(cid, amount) /\ exit_reentrancy_guard
        /\ UNCHANGED <<authorization_nonces, authorizations, reentrancy_enabled, grants, now>>
    BY DEF process_payment
  <1>3. CyclesInv' /\ LeasesInv' /\ TreasuryInv' /\ billing_state' \in BillingState
    BY <1>1, <1>2, PaymentInv
  <1>4. FlagsInv'
    BY <1>2, <1>3, GuardBoolean DEF BillingInv, FlagsInv
  <1>5. GrantsInv'
    BY <1>2 DEF BillingInv, GrantsInv
  <1> QED BY <1>3, <1>4, <1>5 DEF BillingInv

LEMMA GrantInv ==
    ASSUME BillingInv, NEW id \in BillingLeases, NEW lessee \in BillingParties,
           NEW amount \in AuthAmounts, NEW expiry \in AuthExpiries, grant_payment_authorization(id, lessee, amount, expiry)
    PROVE  BillingInv' /\ UNCHANGED rent_treasury
           /\ <<lessee, next_nonce(lessee)>> \notin DOMAIN grants
           /\ next_nonce(lessee) \in 1..MaxNonce
  <1> DEFINE n == next_nonce(lessee)
             k == <<id, n>>
             g == <<lessee, n>>
             a == [lease_id |-> id, lessee |-> lessee, authorized_amount |-> amount,
                   expiry_timestamp |-> expiry, nonce |-> n, is_active |-> TRUE]
             r == [amount |-> amount, expiry |-> expiry, pulls |-> 0, pulled |-> 0, last |-> 0]
  <1>1. /\ n <= MaxNonce
        /\ authorization_nonces' = [authorization_nonces EXCEPT ![lessee] = n]
        /\ authorizations' = Store(authorizations, k, a)
        /\ grants' = Store(grants, g, r)
        /\ exit_reentrancy_guard
        /\ UNCHANGED <<billing_cycles, active_leases, rent_treasury, billing_state,
                       reentrancy_enabled, now>>
    BY DEF grant_payment_authorization
  <1>2. amount \in Int /\ expiry \in Nat
    BY BillingAssumption
  <1>3. /\ authorization_nonces \in [BillingParties -> Nat] /\ n = authorization_nonces[lessee] + 1
        /\ n \in 1..MaxNonce
    BY <1>1, BillingAssumption DEF BillingInv, GrantsInv, next_nonce
  <1>4. g \notin DOMAIN grants
    BY <1>3 DEF BillingInv, GrantsInv
  <1>5. a \in PaymentAuthorization /\ a.is_active /\ a.lessee = lessee /\ a.nonce = n
        /\ a.lease_id = id /\ a.authorized_amount = amount /\ a.expiry_timestamp = expiry
    BY <1>2, <1>3 DEF PaymentAuthorization
  <1>6. GoodGrant(r) /\ r.amount = amount /\ r.expiry = expiry /\ r.pulls = 0
    BY <1>2 DEF GoodGrant, GrantRecord
  <1> HIDE DEF n, a, r
  <1>7. /\ DOMAIN authorizations' = DOMAIN authorizations \cup {k} /\ authorizations'[k] = a
        /\ \A m \in DOMAIN authorizations : m # k => authorizations'[m] = authorizations[m]
    BY <1>1 DEF Store
  <1>8. /\ DOMAIN grants' = DOMAIN grants \cup {g} /\ grants'[g] = r
        /\ \A h \in DOMAIN grants : grants'[h] = grants[h]
    BY <1>1, <1>4 DEF Store
  <1>9. GrantsInv'
    <2>1. authorization_nonces' \in [BillingParties -> Nat]
      BY <1>1, <1>3
    <2>2. DOMAIN grants' \subseteq BillingParties \X (1..MaxNonce)
      BY <1>3, <1>8 DEF BillingInv, GrantsInv
    <2>3. \A h \in DOMAIN grants' : h[2] <= authorization_nonces'[h[1]]
      <3> SUFFICES ASSUME NEW h \in DOMAIN grants' PROVE h[2] <= authorization_nonces'[h[1]]
        OBVIOUS
      <3>1. CASE h = g
        BY <1>1, <1>3, <3>1
      <3>2. CASE h \in DOMAIN grants
        <4>1. h \in BillingParties \X (1..MaxNonce) /\ h[2] <= authorization_nonces[h[1]]
          BY <3>2 DEF BillingInv, GrantsInv
        <4>2. h[1] \in BillingParties /\ h[2] \in Nat
          BY <4>1
        <4> QED BY <1>1, <1>3, <4>1, <4>2
      <3> QED BY <1>8, <3>1, <3>2
    <2>4. \A h \in DOMAIN grants' : GoodGrant(grants'[h])
      BY <1>6, <1>8 DEF BillingInv, GrantsInv
    <2>5. DOMAIN authorizations' \subseteq BillingLeases \X Nat
      BY <1>3, <1>7 DEF BillingInv, GrantsInv
    <2>6. \A m \in DOMAIN authorizations' : BackedByGrant(m, authorizations'[m], grants')
      <3> SUFFICES ASSUME NEW m \in DOMAIN authorizations'
                   PROVE  BackedByGrant(m, authorizations'[m], grants')
        OBVIOUS
      <3>1. CASE m = k
        BY <1>5, <1>6, <1>7, <1>8, <3>1 DEF BackedByGrant
      <3>2. CASE m # k
        <4>1. m \in DOMAIN authorizations /\ authorizations'[m] = authorizations[m]
          BY <1>7, <3>2
        <4>2. BackedByGrant(m, authorizations[m], grants)
          BY <4>1 DEF BillingInv, GrantsInv
        <4> QED BY <1>8, <4>1, <4>2 DEF BackedByGrant
      <3> QED BY <3>1, <3>2
    <2>7. \A m \in DOMAIN authorizations :
             ~(authorizations[m].lessee = lessee /\ authorizations[m].nonce = n)
      BY <1>4 DEF BillingInv, GrantsInv, BackedByGrant
    <2>8. \A m, o \in DOMAIN authorizations' :
              /\ authorizations'[m].lessee = authorizations'[o].lessee
              /\ authorizations'[m].nonce = authorizations'[o].nonce
              => m = o
      BY <1>5, <1>7, <2>7 DEF BillingInv, GrantsInv
    <2> QED BY <2>1, <2>2, <2>3, <2>4, <2>5, <2>6, <2>8 DEF GrantsInv
  <1>10. FlagsInv'
    BY <1>1, GuardBoolean DEF BillingInv, FlagsInv
  <1>11. CyclesInv' /\ LeasesInv' /\ TreasuryInv'
    BY <1>1 DEF BillingInv, CyclesInv, LeasesInv, TreasuryInv, TreasuryBalanced
  <1> QED BY <1>1, <1>3, <1>4, <1>9, <1>10, <1>11 DEF BillingInv, n

LEMMA PullInv ==
    ASSUME BillingInv, NEW id \in BillingLeases, NEW cid \in DOMAIN billing_cycles,
           NEW nonce \in 1..MaxNonce, execute_pull_payment(id, cid, nonce)
    PROVE  /\ BillingInv'
           /\ rent_treasury'.total_collected \in Nat
           /\ rent_treasury'.total_collected >= rent_treasury.total_collected
           /\ rent_treasury'.total_distributed = rent_treasury.total_distributed
           /\ \E g \in DOMAIN grants :
                /\ grants[g].pulls = 0 /\ grants'[g].pulls = 1
                /\ DOMAIN grants' = DOMAIN grants
                /\ \A h \in DOMAIN grants : h # g => grants'[h] = grants[h]
  <1> DEFINE k == <<id, nonce>>
             auth == authorizations[k]
             rent == billing_cycles[cid].rent_amount
             g == <<auth.lessee, nonce>>
             r == grants[g]
             s == [r EXCEPT !.pulls = @ + 1, !.pulled = @ + rent, !.last = now]
  <1>1. /\ k \in DOMAIN authorizations /\ auth.is_active /\ auth.expiry_timestamp >= now
        /\ rent <= auth.authorized_amount
        /\ authorizations' = [authorizations EXCEPT ![k] = [auth EXCEPT !.is_active = FALSE]]
        /\ Payment(cid, rent)
        /\ grants' = [grants EXCEPT ![g] = s]
        /\ exit_reentrancy_guard
        /\ UNCHANGED <<authorization_nonces, reentrancy_enabled, now>>
    <2>1. k \in DOMAIN authorizations
      BY DEF execute_pull_payment
    <2>2. authorizations' = [authorizations EXCEPT ![k] = [auth EXCEPT !.is_active = FALSE]]
      BY <2>1 DEF execute_pull_payment, used_authorization
    <2>3. grants' = [grants EXCEPT ![g] = s]
      BY DEF execute_pull_payment, pulled_grant
    <2> QED BY <2>1, <2>2, <2>3 DEF execute_pull_payment
  <1>2. rent \in Int /\ now \in Nat
    BY LedgerAssumption DEF BillingInv, FlagsInv, CyclesInv, BillingCycle
  <1>3. /\ CyclesInv' /\ LeasesInv' /\ TreasuryInv' /\ billing_state' \in BillingState
        /\ rent \in Nat
        /\ rent_treasury'.total_collected = rent_treasury.total_collected + rent
        /\ rent_treasury'.total_distributed = rent_treasury.total_distributed
    BY <1>1, <1>2, PaymentInv
  <1>4. /\ BackedByGrant(k, auth, grants) /\ auth \in PaymentAuthorization
        /\ k = <<auth.lease_id, auth.nonce>>
    BY <1>1 DEF BillingInv, GrantsInv, BackedByGrant
  <1>5. auth.nonce = nonce /\ auth.lease_id = id
    BY <1>4
  <1>6. /\ g \in DOMAIN grants /\ r.amount = auth.authorized_amount
        /\ r.expiry = auth.expiry_timestamp /\ r.pulls = 0
    BY <1>1, <1>4, <1>5 DEF BackedByGrant
  <1>7. r \in GrantRecord /\ r.pulled = 0
    BY <1>6 DEF BillingInv, GrantsInv, GoodGrant
  <1>8. /\ s \in GrantRecord /\ s.pulls = 1 /\ s.pulled = rent
        /\ s.last = now /\ s.amount = r.amount /\ s.expiry = r.expiry
    <2> HIDE DEF r, rent
    <2>1. r.pulls + 1 = 1 /\ r.pulled + rent = rent
      BY <1>3, <1>6, <1>7 DEF GrantRecord
    <2>2. s = [r EXCEPT !.pulls = 1, !.pulled = rent, !.last = now]
      BY <2>1
    <2> HIDE DEF s
    <2> QED BY <1>2, <1>3, <1>7, <2>2 DEF GrantRecord
  <1>9. GoodGrant(s)
    <2> HIDE DEF s, r, rent
    <2> QED BY <1>1, <1>2, <1>3, <1>6, <1>8 DEF GoodGrant, GrantRecord
  <1>10. /\ DOMAIN grants' = DOMAIN grants /\ grants'[g] = s
         /\ \A h \in DOMAIN grants : h # g => grants'[h] = grants[h]
    <2> HIDE DEF s, g
    <2> QED BY <1>1, <1>6
  <1>11. /\ DOMAIN authorizations' = DOMAIN authorizations
         /\ authorizations'[k] = [auth EXCEPT !.is_active = FALSE]
         /\ \A m \in DOMAIN authorizations : m # k => authorizations'[m] = authorizations[m]
    <2> HIDE DEF k
    <2> QED BY <1>1
  <1>12. /\ authorizations'[k] \in PaymentAuthorization /\ ~authorizations'[k].is_active
         /\ authorizations'[k].lessee = auth.lessee /\ authorizations'[k].nonce = auth.nonce
         /\ authorizations'[k].lease_id = auth.lease_id
         /\ authorizations'[k].authorized_amount = auth.authorized_amount
         /\ authorizations'[k].expiry_timestamp = auth.expiry_timestamp
    <2> HIDE DEF auth, k
    <2> QED BY <1>4, <1>11 DEF PaymentAuthorization
  <1>13. GrantsInv'
    <2> HIDE DEF s, r
    <2>1. \A h \in DOMAIN grants' : GoodGrant(grants'[h])
      BY <1>9, <1>10 DEF BillingInv, GrantsInv
    <2>2. \A m \in DOMAIN authorizations' : BackedByGrant(m, authorizations'[m], grants')
      <3> SUFFICES ASSUME NEW m \in DOMAIN authorizations'
                   PROVE  BackedByGrant(m, authorizations'[m], grants')
        OBVIOUS
      <3>1. CASE m = k
        <4> HIDE DEF auth
        <4> QED BY <1>4, <1>5, <1>6, <1>8, <1>10, <1>12, <3>1 DEF BackedByGrant
      <3>2. CASE m # k
        <4> DEFINE b == authorizations[m]
        <4>1. m \in DOMAIN authorizations /\ authorizations'[m] = b
          BY <1>11, <3>2
        <4>2. BackedByGrant(m, b, grants)
          BY <4>1 DEF BillingInv, GrantsInv
        <4>3. ~(b.lessee = auth.lessee /\ b.nonce = auth.nonce)
          BY <1>1, <3>2, <4>1 DEF BillingInv, GrantsInv
        <4>4. <<b.lessee, b.nonce>> # g
          BY <1>5, <4>3
        <4> HIDE DEF b, g
        <4> QED BY <1>10, <4>1, <4>2, <4>4 DEF BackedByGrant
      <3> QED BY <3>1, <3>2
    <2>3. \A m, o \in DOMAIN authorizations' :
              /\ authorizations'[m].lessee = authorizations'[o].lessee
              /\ authorizations'[m].nonce = authorizations'[o].nonce
              => m = o
      <3> HIDE DEF k
      <3> QED BY <1>1, <1>11, <1>12 DEF BillingInv, GrantsInv
    <2> QED BY <1>1, <1>10, <1>11, <2>1, <2>2, <2>3 DEF BillingInv, GrantsInv
  <1>14. FlagsInv'
    BY <1>1, <1>3, GuardBoolean DEF BillingInv, FlagsInv
  <1>15. BillingInv'
    BY <1>3, <1>13, <1>14 DEF BillingInv
  <1>16. rent_treasury.total_collected \in Nat
    BY DEF BillingInv, TreasuryInv, RentTreasuryType
  <1> HIDE DEF s, r, g
  <1>17. \E h \in DOMAIN grants :
            /\ grants[h].pulls = 0 /\ grants'[h].pulls = 1
            /\ DOMAIN grants' = DOMAIN grants
            /\ \A o \in DOMAIN grants : o # h => grants'[o] = grants[o]
    BY <1>6, <1>8, <1>10 DEF r
  <1> QED BY <1>3, <1>15, <1>16, <1>17

LEMMA TerminateInv ==
    ASSUME BillingInv, NEW id \in BillingLeases, NEW u, terminate_lease_billing(id, u)
    PROVE  BillingInv'
  <1> DEFINE lease == active_leases[id]
             l == [lease EXCEPT !.status = "terminated", !.billing_enabled = FALSE]
  <1>1. /\ id \in DOMAIN active_leases /\ exit_reentrancy_guard
        /\ active_leases' = [active_leases EXCEPT ![id] = l]
        /\ UNCHANGED <<billing_cycles, authorization_nonces, authorizations, rent_treasury,
                       billing_state, reentrancy_enabled, grants, now>>
    BY DEF terminate_lease_billing
  <1>2. lease \in ActiveLease /\ BilledWithinTerm(lease)
    BY <1>1 DEF BillingInv, LeasesInv
  <1>3. l \in ActiveLease /\ BilledWithinTerm(l)
    <2> HIDE DEF lease
    <2> QED BY <1>2 DEF ActiveLease, BilledWithinTerm
  <1> HIDE DEF l
  <1>4. /\ DOMAIN active_leases' = DOMAIN active_leases \cup {id} /\ active_leases'[id] = l
        /\ \A i \in DOMAIN active_leases : i # id => active_leases'[i] = active_leases[i]
    BY <1>1
  <1>5. LeasesInv'
    BY <1>3, <1>4, LeaseWritten DEF BillingInv
  <1>6. FlagsInv'
    BY <1>1, GuardBoolean DEF BillingInv, FlagsInv
  <1>7. CyclesInv' /\ TreasuryInv' /\ GrantsInv'
    BY <1>1 DEF BillingInv, CyclesInv, TreasuryInv, TreasuryBalanced, GrantsInv
  <1> QED BY <1>5, <1>6, <1>7 DEF BillingInv

LEMMA DistributeInv ==
    ASSUME BillingInv, NEW amount \in PayAmounts, distribute_rent_treasury(amount)
    PROVE  /\ BillingInv' /\ UNCHANGED grants
           /\ rent_treasury'.total_collected = rent_treasury.total_collected
           /\ rent_treasury'.total_distributed \in Nat
           /\ rent_treasury'.total_distributed >= rent_treasury.total_distributed
           /\ rent_treasury'.total_distributed <= rent_treasury.total_collected
  <1>1. /\ amount <= rent_treasury.available_balance /\ amount >= 0 /\ exit_reentrancy_guard
        /\ rent_treasury' = [rent_treasury EXCEPT !.total_distributed = @ + amount,
                                                  !.available_balance = @ - amount]
        /\ UNCHANGED <<billing_cycles, active_leases, authorization_nonces, authorizations,
                       billing_state, reentrancy_enabled, grants, now>>
    BY DEF distribute_rent_treasury, distributable
  <1>2. amount \in Nat /\ rent_treasury \in RentTreasuryType
    BY <1>1, BillingAssumption DEF BillingInv, TreasuryInv
  <1>3. /\ rent_treasury.total_distributed + amount \in Nat
        /\ rent_treasury.available_balance - amount \in Nat
    BY <1>1, <1>2 DEF RentTreasuryType
  <1>4. /\ rent_treasury' \in RentTreasuryType
        /\ rent_treasury'.total_collected = rent_treasury.total_collected
        /\ rent_treasury'.total_distributed = rent_treasury.total_distributed + amount
        /\ rent_treasury'.available_balance = rent_treasury.available_balance - amount
    BY <1>1, <1>2, <1>3 DEF RentTreasuryType
  <1>5. TreasuryInv' /\ rent_treasury'.total_distributed <= rent_treasury.total_collected
    BY <1>1, <1>2, <1>4 DEF BillingInv, TreasuryInv, TreasuryBalanced, RentTreasuryType
  <1>6. FlagsInv'
    BY <1>1, GuardBoolean DEF BillingInv, FlagsInv
  <1>7. CyclesInv' /\ LeasesInv' /\ GrantsInv'
    BY <1>1 DEF BillingInv, CyclesInv, LeasesInv, GrantsInv
  <1> QED BY <1>1, <1>2, <1>4, <1>5, <1>6, <1>7 DEF BillingInv, RentTreasuryType

\* Steps that change only the clock, the pause or the guard's switch.
LEMMA SwitchInv ==
    ASSUME BillingInv,
           \/ BillingTick \/ UNCHANGED <<now, billing_vars>>
           \/ \E pause \in BOOLEAN : toggle_emergency_pause(pause)
           \/ \E protect \in BOOLEAN : update_billing_config(protect)
    PROVE  BillingInv' /\ UNCHANGED <<rent_treasury, grants>>
  <1>1. UNCHANGED <<billing_cycles, active_leases, authorization_nonces, authorizations,
                    rent_treasury, reentrancy_guard, grants>>
    BY DEF BillingTick, billing_vars, toggle_emergency_pause, update_billing_config
  <1>2. now' \in StartTime..MaxTime
    BY LedgerAssumption DEF BillingInv, FlagsInv, BillingTick, Tick, billing_vars, toggle_emergency_pause,
                            update_billing_config
  <1>3. /\ billing_state' \in BillingState
        /\ billing_state'.total_rent_collected = billing_state.total_rent_collected
    <2>1. CASE UNCHANGED billing_state
      BY <2>1 DEF BillingInv, FlagsInv
    <2>2. ASSUME NEW pause \in BOOLEAN, toggle_emergency_pause(pause)
          PROVE  /\ billing_state' \in BillingState
                 /\ billing_state'.total_rent_collected = billing_state.total_rent_collected
      BY <2>2 DEF toggle_emergency_pause, BillingInv, FlagsInv, BillingState
    <2> QED BY <2>1, <2>2 DEF BillingTick, billing_vars, update_billing_config
  <1>4. reentrancy_enabled' \in BOOLEAN
    BY DEF BillingInv, FlagsInv, BillingTick, billing_vars, toggle_emergency_pause,
           update_billing_config
  <1>5. FlagsInv'
    BY <1>1, <1>2, <1>3, <1>4 DEF BillingInv, FlagsInv
  <1>6. CyclesInv' /\ LeasesInv' /\ TreasuryInv' /\ GrantsInv'
    BY <1>1, <1>3 DEF BillingInv, CyclesInv, LeasesInv, TreasuryInv,
                      TreasuryBalanced, GrantsInv
  <1> QED BY <1>1, <1>5, <1>6 DEF BillingInv

LEMMA BillingNextInv == BillingInv /\ [BillingNext]_<<now, billing_vars>> => BillingInv'
  BY RegisterInv, CycleInv, SignedPaymentInv, GrantInv, PullInv, TerminateInv, DistributeInv,
     SwitchInv DEF BillingNext

-----------------------------------------------------------------------------
\* The billing service keeps its invariant (every function of continuous_billing_module.rs).
THEOREM BillingInvariance == BillingSpec => []BillingInv
  BY BillingInitInv, BillingNextInv, PTL DEF BillingSpec

\* Every state of the billing service is well typed.
THEOREM BillingTypes == BillingSpec => []BillingTypeOK
  <1>1. BillingInv => DOMAIN grants \subseteq BillingParties \X Nat
    BY BillingAssumption DEF BillingInv, GrantsInv
  <1>2. BillingInv => BillingTypeOK
    BY <1>1 DEF BillingInv, FlagsInv, CyclesInv, LeasesInv, TreasuryInv, GrantsInv, BackedByGrant,
           GoodGrant, BillingTypeOK
  <1> QED BY <1>2, BillingInvariance, PTL

\* What distribute_rent_treasury may pay out is what process_payment and
\* execute_pull_payment collected and nobody was paid yet.
THEOREM TreasuryAlwaysBalanced == BillingSpec => []TreasuryBalanced
  <1>1. BillingInv => TreasuryBalanced
    BY DEF BillingInv, TreasuryInv
  <1> QED BY <1>1, BillingInvariance, PTL

\* execute_pull_payment honours an authorization at most once, for at most its amount and
\* not after its expiry, although authorizations are stored without their lessee and one
\* may overwrite another.
THEOREM GrantsAlwaysHonoured == BillingSpec => []GrantHonoured
  <1>1. BillingInv => GrantHonoured
    BY DEF BillingInv, GrantsInv, GoodGrant, GrantHonoured
  <1> QED BY <1>1, BillingInvariance, PTL

\* A step that processes no cycle leaves their count alone.
LEMMA OnlyCyclesCounted ==
    ASSUME BillingInv, [BillingNext]_<<now, billing_vars>>,
           billing_state'.total_cycles_processed > billing_state.total_cycles_processed
    PROVE  \E id \in BillingLeases : process_billing_cycle(id)
  <1>0. billing_state \in BillingState
    BY DEF BillingInv, FlagsInv
  <1>1. ~(billing_state'.total_cycles_processed = billing_state.total_cycles_processed)
    BY <1>0 DEF BillingState
  <1>2. ~UNCHANGED billing_state
    BY <1>1
  <1>3. ASSUME NEW cid, NEW amount, Payment(cid, amount)
        PROVE  FALSE
    BY <1>0, <1>1, <1>3 DEF Payment, BillingState
  <1>4. ASSUME NEW pause, toggle_emergency_pause(pause)
        PROVE  FALSE
    BY <1>0, <1>1, <1>4 DEF toggle_emergency_pause, BillingState
  <1> QED BY <1>2, <1>3, <1>4 DEF BillingNext, BillingTick, billing_vars, register_lease_billing,
          process_payment, grant_payment_authorization, execute_pull_payment,
          terminate_lease_billing, update_billing_config, distribute_rent_treasury

\* However late process_billing_cycle is called, the cycle bills no second before the term
\* of its lease, after it, or after the call.
THEOREM BillingAlwaysStops == BillingSpec => BillingStopsAtEnd
  <1> DEFINE Billed ==
          billing_state'.total_cycles_processed > billing_state.total_cycles_processed
             Within(cycle) ==
          LET lease == active_leases[cycle.lease_id]
              billed_to == cycle.cycle_start + cycle.actual_duration_seconds
          IN  /\ lease.start_time <= cycle.cycle_start /\ cycle.cycle_start <= billed_to
              /\ billed_to <= lease.end_time /\ billed_to <= now
  <1>1. ASSUME BillingInv, [BillingNext]_<<now, billing_vars>>, Billed
        PROVE  Within(billing_cycles'[sequence])
    <2>1. PICK id \in BillingLeases : process_billing_cycle(id)
      BY <1>1, OnlyCyclesCounted
    <2> DEFINE lease == active_leases[id]
               cycle == billing_cycles'[sequence]
    <2>2. /\ id \in DOMAIN active_leases /\ duration_defined(lease)
          /\ cycle.lease_id = id /\ cycle.cycle_start = next_cycle_time(lease)
          /\ cycle.actual_duration_seconds = actual_duration(lease)
      BY <2>1 DEF process_billing_cycle, Store
    <2>3. now \in Nat /\ lease \in ActiveLease /\ BilledWithinTerm(lease)
      BY <1>1, <2>2, LedgerAssumption DEF BillingInv, FlagsInv, LeasesInv
    <2>4. /\ next_cycle_time(lease) \in Nat /\ billed_until(lease) \in Nat
          /\ lease.start_time <= next_cycle_time(lease)
          /\ next_cycle_time(lease) <= billed_until(lease)
          /\ billed_until(lease) <= lease.end_time /\ billed_until(lease) <= now
      BY <2>2, <2>3, BilledSeconds
    <2>5. cycle.cycle_start + cycle.actual_duration_seconds = billed_until(lease)
      BY <2>2, <2>4 DEF actual_duration
    <2> HIDE DEF cycle
    <2>6. Within(cycle)
      BY <2>2, <2>4, <2>5
    <2> QED BY <2>6 DEF cycle
  <1>2. BillingInv /\ [BillingNext]_<<now, billing_vars>>
          => [Billed => Within(billing_cycles'[sequence])]_billing_vars
    BY <1>1
  <1> QED BY <1>2, BillingInvariance, PTL DEF BillingSpec, BillingStopsAtEnd

-----------------------------------------------------------------------------
(***************************************************************************)
(* The billing service implements the treasury.                            *)
(***************************************************************************)
LEMMA TreasuryInitRefined == BillingInit => Treasury!TreasuryInit
  BY DEF BillingInit, Treasury!TreasuryInit, grant_uses

\* Every step of the billing service is a step of the treasury or leaves it alone.
LEMMA TreasuryStepRefined ==
    BillingInv /\ [BillingNext]_<<now, billing_vars>> =>
        [Treasury!TreasuryNext]_(Treasury!treasury_vars)
  <1> SUFFICES ASSUME BillingInv, [BillingNext]_<<now, billing_vars>>
               PROVE  [Treasury!TreasuryNext]_(Treasury!treasury_vars)
    OBVIOUS
  <1>0. rent_treasury \in RentTreasuryType
    BY DEF BillingInv, TreasuryInv
  <1>a. UNCHANGED grants => UNCHANGED grant_uses
    BY DEF grant_uses
  <1>1. ASSUME UNCHANGED <<rent_treasury, grants>>
        PROVE  UNCHANGED Treasury!treasury_vars
    BY <1>1, <1>a DEF Treasury!treasury_vars
  <1>2. ASSUME NEW terms \in BillingTerms, register_lease_billing(terms)
        PROVE  UNCHANGED <<rent_treasury, grants>>
    BY <1>2 DEF register_lease_billing
  <1>3. ASSUME NEW id \in BillingLeases, process_billing_cycle(id)
        PROVE  UNCHANGED <<rent_treasury, grants>>
    BY <1>3 DEF process_billing_cycle
  <1>4. ASSUME NEW cid \in DOMAIN billing_cycles, NEW amount \in PayAmounts,
               process_payment(cid, amount)
        PROVE  Treasury!Collect
    <2>1. Payment(cid, amount) /\ amount \in Int /\ UNCHANGED grants
      BY <1>4, BillingAssumption DEF process_payment
    <2>2. /\ amount \in Nat
          /\ rent_treasury'.total_collected = rent_treasury.total_collected + amount
          /\ rent_treasury'.total_distributed = rent_treasury.total_distributed
      BY <2>1, PaymentInv
    <2> QED BY <1>0, <1>a, <2>1, <2>2 DEF Treasury!Collect, RentTreasuryType
  <1>5. ASSUME NEW id \in BillingLeases, NEW lessee \in BillingParties, NEW amount \in AuthAmounts,
               NEW expiry \in AuthExpiries,
               grant_payment_authorization(id, lessee, amount, expiry)
        PROVE  Treasury!Grant
    <2> DEFINE g == <<lessee, next_nonce(lessee)>>
               r == [amount |-> amount, expiry |-> expiry, pulls |-> 0, pulled |-> 0, last |-> 0]
    <2>1. /\ g \notin DOMAIN grants /\ next_nonce(lessee) \in 1..MaxNonce
          /\ UNCHANGED rent_treasury
      BY <1>5, GrantInv
    <2>2. grants' = Store(grants, g, r)
      BY <1>5 DEF grant_payment_authorization
    <2>3. g \in BillingParties \X (1..MaxNonce)
      BY <2>1
    <2>4. r.pulls = 0
      OBVIOUS
    <2> HIDE DEF g, r
    <2>5. DOMAIN grant_uses = DOMAIN grants
      BY DEF grant_uses
    <2>6. grant_uses' = [h \in DOMAIN grant_uses \cup {g} |-> IF h = g THEN 0 ELSE grant_uses[h]]
      BY <2>1, <2>2, <2>4 DEF grant_uses, Store
    <2> QED BY <2>1, <2>3, <2>5, <2>6 DEF Treasury!Grant
  <1>6. ASSUME NEW id \in BillingLeases, NEW cid \in DOMAIN billing_cycles, NEW nonce \in 1..MaxNonce,
               execute_pull_payment(id, cid, nonce)
        PROVE  Treasury!Pull
    <2>1. /\ rent_treasury'.total_collected \in Nat
          /\ rent_treasury'.total_collected >= rent_treasury.total_collected
          /\ rent_treasury'.total_distributed = rent_treasury.total_distributed
          /\ \E g \in DOMAIN grants :
                /\ grants[g].pulls = 0 /\ grants'[g].pulls = 1
                /\ DOMAIN grants' = DOMAIN grants
                /\ \A h \in DOMAIN grants : h # g => grants'[h] = grants[h]
      BY <1>6, PullInv
    <2>2. PICK g \in DOMAIN grants :
                /\ grants[g].pulls = 0 /\ grants'[g].pulls = 1
                /\ DOMAIN grants' = DOMAIN grants
                /\ \A h \in DOMAIN grants : h # g => grants'[h] = grants[h]
      BY <2>1
    <2>3. g \in DOMAIN grant_uses /\ grant_uses[g] = 0
      BY <2>2 DEF grant_uses
    <2>4. grant_uses' = [grant_uses EXCEPT ![g] = 1]
      BY <2>2 DEF grant_uses
    <2> QED BY <2>1, <2>3, <2>4 DEF Treasury!Pull
  <1>7. ASSUME NEW id \in BillingLeases, NEW u \in BillingParties \cup {BillingAdmin},
               terminate_lease_billing(id, u)
        PROVE  UNCHANGED <<rent_treasury, grants>>
    BY <1>7 DEF terminate_lease_billing
  <1>8. ASSUME NEW amount \in PayAmounts, distribute_rent_treasury(amount)
        PROVE  Treasury!Distribute
    <2>1. /\ UNCHANGED grants
          /\ rent_treasury'.total_collected = rent_treasury.total_collected
          /\ rent_treasury'.total_distributed \in Nat
          /\ rent_treasury'.total_distributed >= rent_treasury.total_distributed
          /\ rent_treasury'.total_distributed <= rent_treasury.total_collected
      BY <1>8, DistributeInv
    <2> QED BY <1>a, <2>1 DEF Treasury!Distribute
  <1>9. ASSUME \/ BillingTick \/ UNCHANGED <<now, billing_vars>>
               \/ \E pause \in BOOLEAN : toggle_emergency_pause(pause)
               \/ \E protect \in BOOLEAN : update_billing_config(protect)
        PROVE  UNCHANGED <<rent_treasury, grants>>
    BY <1>9, SwitchInv
  <1> QED BY <1>1, <1>2, <1>3, <1>4, <1>5, <1>6, <1>7, <1>8, <1>9
          DEF BillingNext, Treasury!TreasuryNext

\* The billing service implements the treasury: its payments, pulls and distributions
\* never pay out more than came in, and each grant is spent once.
THEOREM TreasuryImplemented == BillingSpec => ImplementsTreasury
  BY TreasuryInitRefined, TreasuryStepRefined, BillingInvariance, PTL
     DEF BillingSpec, ImplementsTreasury, Treasury!TreasurySpec

-----------------------------------------------------------------------------
(***************************************************************************)
(* The credits of the leases.  Registration, billing and termination never *)
(* raise what a lease was credited with, and a payment raises it by what   *)
(* the treasury collects in the same call.                                 *)
(***************************************************************************)
Credits(ls) == [l \in DOMAIN ls |-> ls[l].total_paid]

CreditsInv ==
    /\ IsFiniteSet(DOMAIN active_leases)
    /\ SumFunctionOnSet(Credits(active_leases), DOMAIN active_leases)
          <= rent_treasury.total_collected

\* What the lease stored under id was credited with.
CreditOf(id) == IF id \in DOMAIN active_leases THEN active_leases[id].total_paid ELSE 0

LEMMA CreditWritten ==
    ASSUME BillingInv, CreditsInv, NEW id, NEW l \in ActiveLease, NEW amount \in Nat,
           l.total_paid <= CreditOf(id) + amount,
           rent_treasury'.total_collected = rent_treasury.total_collected + amount,
           DOMAIN active_leases' = DOMAIN active_leases \cup {id}, active_leases'[id] = l,
           \A i \in DOMAIN active_leases : i # id => active_leases'[i] = active_leases[i]
    PROVE  CreditsInv'
  <1> DEFINE D == DOMAIN active_leases
             S == D \cup {id}
             g == [x \in S |-> CreditOf(x)]
             h == Credits(active_leases')
             f == Credits(active_leases)
  <1>1. /\ IsFiniteSet(D) /\ rent_treasury.total_collected \in Int
        /\ SumFunctionOnSet(f, D) <= rent_treasury.total_collected
    BY DEF CreditsInv, BillingInv, TreasuryInv, RentTreasuryType
  <1>2. \A x \in D : active_leases[x].total_paid \in Nat
    BY DEF BillingInv, LeasesInv, ActiveLease
  <1>3. IsFiniteSet(S) /\ id \in S /\ D \in SUBSET S
    BY <1>1, FS_AddElement
  <1>4. /\ \A x \in S : g[x] \in Int /\ h[x] \in Int
        /\ \A x \in S \ {id} : h[x] = g[x]
        /\ h[id] <= g[id] + amount
    <2>1. l.total_paid \in Int
      BY DEF ActiveLease
    <2> QED BY <1>2, <2>1 DEF Credits, CreditOf
  <1>5. (\A x \in D : f[x] = g[x]) /\ (\A x \in S \ D : g[x] = 0)
    BY DEF Credits, CreditOf
  <1>6. DOMAIN active_leases' = S
    OBVIOUS
  <1> HIDE DEF D, S, f, g, h
  <1>7. SumFunctionOnSet(g, S) = SumFunctionOnSet(f, D)
    BY <1>3, <1>4, <1>5, SumFilter
  <1>8. SumFunctionOnSet(h, S) = SumFunctionOnSet(g, S) + (h[id] - g[id])
    BY <1>3, <1>4, SumChange
  <1>9. SumFunctionOnSet(g, S) \in Int
    BY <1>3, <1>4, SumType
  <1>10. SumFunctionOnSet(h, S) <= rent_treasury'.total_collected
    BY <1>1, <1>3, <1>4, <1>7, <1>8, <1>9
  <1> QED BY <1>3, <1>6, <1>10 DEF CreditsInv, h

LEMMA CreditsInit == BillingInit => CreditsInv
  <1> SUFFICES ASSUME BillingInit PROVE CreditsInv
    OBVIOUS
  <1>1. DOMAIN active_leases = {} /\ rent_treasury.total_collected = 0
    BY DEF BillingInit
  <1> QED BY <1>1, SumEmpty, FS_EmptySet DEF CreditsInv

LEMMA CreditsPayment ==
    ASSUME BillingInv, CreditsInv, NEW cid, NEW amount \in Int, Payment(cid, amount)
    PROVE  CreditsInv'
  <1> DEFINE cycle == billing_cycles[cid]
             paid == paid_cycle(cycle, amount)
             id == cycle.lease_id
             lease == active_leases[id]
             l == paid_lease(lease, paid, amount)
  <1>1. id \in DOMAIN active_leases /\ active_leases' = [active_leases EXCEPT ![id] = l]
    BY DEF Payment
  <1>2. /\ amount \in Nat /\ LeasesInv'
        /\ rent_treasury'.total_collected = rent_treasury.total_collected + amount
    BY PaymentInv
  <1>3. lease \in ActiveLease
    BY <1>1 DEF BillingInv, LeasesInv
  <1>4. l.total_paid = lease.total_paid + amount /\ lease.total_paid \in Nat
    <2> HIDE DEF lease, paid
    <2> QED BY <1>3 DEF paid_lease, ActiveLease
  <1> HIDE DEF l
  <1>5. l \in ActiveLease
    BY <1>1, <1>2 DEF LeasesInv
  <1>6. l.total_paid <= CreditOf(id) + amount
    BY <1>1, <1>2, <1>4 DEF CreditOf
  <1> HIDE DEF id
  <1>7. /\ DOMAIN active_leases' = DOMAIN active_leases \cup {id} /\ active_leases'[id] = l
        /\ \A i \in DOMAIN active_leases : i # id => active_leases'[i] = active_leases[i]
    BY <1>1
  <1> QED BY <1>2, <1>5, <1>6, <1>7, CreditWritten

LEMMA CreditsNext ==
    BillingInv /\ CreditsInv /\ [BillingNext]_<<now, billing_vars>> => CreditsInv'
  <1> SUFFICES ASSUME BillingInv, CreditsInv, [BillingNext]_<<now, billing_vars>>
               PROVE  CreditsInv'
    OBVIOUS
  <1>0. BillingInv' /\ LeasesInv /\ LeasesInv' /\ rent_treasury.total_collected \in Nat
    BY BillingNextInv DEF BillingInv, TreasuryInv, RentTreasuryType
  <1>1. ASSUME UNCHANGED active_leases,
               rent_treasury'.total_collected = rent_treasury.total_collected
        PROVE  CreditsInv'
    BY <1>1 DEF CreditsInv
  <1>2. ASSUME NEW terms \in BillingTerms, register_lease_billing(terms)
        PROVE  CreditsInv'
    <2> DEFINE id == terms.lease_id
               l == active_leases'[id]
    <2>1. /\ DOMAIN active_leases' = DOMAIN active_leases \cup {id}
          /\ \A i \in DOMAIN active_leases : i # id => active_leases'[i] = active_leases[i]
          /\ l.total_paid = 0 /\ UNCHANGED rent_treasury
      BY <1>2 DEF register_lease_billing, Store
    <2> HIDE DEF id
    <2>2. l \in ActiveLease
      BY <1>0, <2>1 DEF LeasesInv
    <2>3. CreditOf(id) \in Nat
      BY <1>0 DEF CreditOf, LeasesInv, ActiveLease
    <2>4. /\ 0 \in Nat /\ l.total_paid <= CreditOf(id) + 0
          /\ rent_treasury'.total_collected = rent_treasury.total_collected + 0
      BY <1>0, <2>1, <2>3
    <2> HIDE DEF l
    <2> QED BY <2>1, <2>2, <2>4, CreditWritten DEF l
  <1>3. ASSUME NEW id \in BillingLeases,
               \/ process_billing_cycle(id)
               \/ \E u \in BillingParties \cup {BillingAdmin} : terminate_lease_billing(id, u)
        PROVE  CreditsInv'
    <2> DEFINE lease == active_leases[id]
               l == active_leases'[id]
    <2>1. id \in DOMAIN active_leases /\ UNCHANGED rent_treasury
      BY <1>3 DEF process_billing_cycle, terminate_lease_billing
    <2>2. lease \in ActiveLease
      BY <1>0, <2>1 DEF LeasesInv
    <2>3. \E m : m.total_paid = lease.total_paid /\ active_leases' = [active_leases EXCEPT ![id] = m]
      <3>1. CASE process_billing_cycle(id)
        <4> DEFINE m == [lease EXCEPT !.last_billing_cycle = next_cycle_time(lease),
                                      !.total_owed = @ + calculated_rent(lease)]
        <4>1. active_leases' = [active_leases EXCEPT ![id] = m]
          BY <3>1 DEF process_billing_cycle
        <4>2. m.total_paid = lease.total_paid
          BY <2>2 DEF ActiveLease
        <4> QED BY <4>1, <4>2
      <3>2. ASSUME NEW u, terminate_lease_billing(id, u)
            PROVE  \E m : /\ m.total_paid = lease.total_paid
                          /\ active_leases' = [active_leases EXCEPT ![id] = m]
        <4> DEFINE m == [lease EXCEPT !.status = "terminated", !.billing_enabled = FALSE]
        <4>1. active_leases' = [active_leases EXCEPT ![id] = m]
          BY <3>2 DEF terminate_lease_billing
        <4>2. m.total_paid = lease.total_paid
          BY <2>2 DEF ActiveLease
        <4> QED BY <4>1, <4>2
      <3> QED BY <1>3, <3>1, <3>2
    <2>4. /\ DOMAIN active_leases' = DOMAIN active_leases \cup {id}
          /\ \A i \in DOMAIN active_leases : i # id => active_leases'[i] = active_leases[i]
          /\ l.total_paid = lease.total_paid
      BY <2>1, <2>3
    <2>5. l \in ActiveLease
      BY <1>0, <2>1, <2>4 DEF LeasesInv
    <2>6. /\ 0 \in Nat /\ l.total_paid <= CreditOf(id) + 0
          /\ rent_treasury'.total_collected = rent_treasury.total_collected + 0
      <3>1. lease.total_paid \in Nat
        BY <2>2 DEF ActiveLease
      <3> QED BY <1>0, <2>1, <2>4, <3>1 DEF CreditOf
    <2> HIDE DEF l, lease
    <2> QED BY <2>4, <2>5, <2>6, CreditWritten DEF l
  <1>4. ASSUME NEW cid \in DOMAIN billing_cycles, NEW amount \in PayAmounts,
               process_payment(cid, amount)
        PROVE  CreditsInv'
    BY <1>4, CreditsPayment, BillingAssumption DEF process_payment
  <1>5. ASSUME NEW id \in BillingLeases, NEW cid \in DOMAIN billing_cycles, NEW nonce \in 1..MaxNonce,
               execute_pull_payment(id, cid, nonce)
        PROVE  CreditsInv'
    <2>1. billing_cycles[cid].rent_amount \in Int
      BY DEF BillingInv, CyclesInv, BillingCycle
    <2>2. Payment(cid, billing_cycles[cid].rent_amount)
      BY <1>5 DEF execute_pull_payment
    <2> QED BY <2>1, <2>2, CreditsPayment
  <1>6. ASSUME NEW amount \in PayAmounts, distribute_rent_treasury(amount)
        PROVE  CreditsInv'
    <2>1. UNCHANGED active_leases
      BY <1>6 DEF distribute_rent_treasury
    <2> QED BY <1>1, <1>6, <2>1, DistributeInv
  <1>7. ASSUME NEW id \in BillingLeases, NEW lessee \in BillingParties, NEW amount \in AuthAmounts,
               NEW expiry \in AuthExpiries,
               grant_payment_authorization(id, lessee, amount, expiry)
        PROVE  CreditsInv'
    BY <1>1, <1>7 DEF grant_payment_authorization
  <1>8. ASSUME \/ BillingTick \/ UNCHANGED <<now, billing_vars>>
               \/ \E pause \in BOOLEAN : toggle_emergency_pause(pause)
               \/ \E protect \in BOOLEAN : update_billing_config(protect)
        PROVE  CreditsInv'
    BY <1>1, <1>8 DEF BillingTick, billing_vars, toggle_emergency_pause, update_billing_config
  <1> QED BY <1>2, <1>3, <1>4, <1>5, <1>6, <1>7, <1>8 DEF BillingNext

\* The treasury's books balance and cover every credit given to a lease, however often
\* its cycles are paid, replaced or re-registered.
THEOREM BooksAlwaysBalanced == BillingSpec => []BooksBalanced
  <1>1. BillingInv /\ CreditsInv => BooksBalanced
    <2> SUFFICES ASSUME BillingInv, CreditsInv PROVE BooksBalanced
      OBVIOUS
    <2>1. DOMAIN Credits(active_leases) = DOMAIN active_leases
      BY DEF Credits
    <2>2. SumFunction(Credits(active_leases)) <= rent_treasury.total_collected
      BY <2>1 DEF CreditsInv, SumFunction
    <2> QED BY <2>2 DEF BooksBalanced, CreditsCollected, Credits, BillingInv, TreasuryInv
  <1> QED BY <1>1, CreditsInit, CreditsNext, BillingInvariance, PTL DEF BillingSpec
=============================================================================
