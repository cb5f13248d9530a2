------------------------- MODULE OracleSlashProofs -------------------------
(***************************************************************************)
(* Proofs about OracleSlash: the reports of the oracles interleaved with   *)
(* every step of the leases, for any oracles, payloads and bounds.  The    *)
(* invariant of the leases (LeaseContractProofs) is kept by the slashes    *)
(* too, so everything proved of the leases alone holds with oracles.       *)
(***************************************************************************)
EXTENDS OracleSlash, LeaseContractProofs

\* No demotion and no activation of the fallback is ever stored.
SettingInv ==
    /\ oracle_whitelist \subseteq Oracles
    /\ DOMAIN oracle_config \subseteq Oracles
    /\ \A o \in DOMAIN oracle_config :
          /\ oracle_config[o] \in OracleConfig
          /\ oracle_config[o].status = "Active" /\ oracle_config[o].failure_count = 0
    /\ fallback_hierarchy \in FallbackHierarchy \cup {None}
    /\ fallback_hierarchy # None => ~fallback_hierarchy.hierarchy_active

Report == [kind : {"slash", "condition"}, oracle : Oracles, nonce : Nat, hour : Nat]

\* An accepted report is behind the nonce of its oracle and behind the clock t, and the
\* hour of a condition report is marked as used.
Behind(r, nonces, limits, t) ==
    /\ r.nonce <= nonces[r.oracle]
    /\ r.hour <= t \div HOUR
    /\ r.kind = "condition" => <<r.oracle, r.hour>> \in limits

ReportInv ==
    /\ oracle_nonce \in [Oracles -> Nat]
    /\ oracle_rate_limit \subseteq Oracles \X Nat
    /\ tenant_flag \subseteq Nat /\ DOMAIN asset_condition \subseteq Nat
    /\ accepted \in Seq(Report)
    /\ \A i \in DOMAIN accepted :
          Behind(accepted[i], oracle_nonce, oracle_rate_limit, now)
    /\ ReportsOnce

\* The deposit of a lease that was slashed is settled, or disputed since.
SlashedInv ==
    \A id \in slashed \cap DOMAIN lease_instance : lease_instance[id].deposit_status # "Held"

OracleInv == IInv /\ SettingInv /\ ReportInv /\ SlashedInv

-----------------------------------------------------------------------------
LEMMA OracleInitInv == OracleInit => OracleInv
  <1> SUFFICES ASSUME OracleInit PROVE OracleInv
    OBVIOUS
  <1>1. IInv
    BY InitEstablishes DEF OracleInit
  <1>2. SettingInv /\ SlashedInv
    BY DEF OracleInit, SettingInv, SlashedInv
  <1>3. ReportInv
    BY DEF OracleInit, ReportInv, ReportsOnce
  <1> QED BY <1>1, <1>2, <1>3 DEF OracleInv

\* The hours of a later ledger are not earlier.
LEMMA HoursAdvance ==
    ASSUME NEW a \in Nat, NEW b \in Nat, a <= b
    PROVE  a \div HOUR \in Nat /\ a \div HOUR <= b \div HOUR
  <1>1. HOUR \in Nat \ {0}
    BY OracleAssumption
  <1>2. /\ a \div HOUR \in Nat /\ b \div HOUR \in Nat
        /\ HOUR * (a \div HOUR) <= a /\ a < HOUR * (a \div HOUR + 1)
        /\ HOUR * (b \div HOUR) <= b /\ b < HOUR * (b \div HOUR + 1)
    BY <1>1
  <1> DEFINE x == a \div HOUR
             y == b \div HOUR
  <1>3. ASSUME y < x PROVE FALSE
    <2>1. y + 1 <= x /\ y + 1 \in Nat /\ x \in Nat
      BY <1>2, <1>3
    <2> HIDE DEF x, y
    <2>2. HOUR * (y + 1) <= HOUR * x
      BY <1>1, <2>1
    <2>3. HOUR * x <= a /\ b < HOUR * (y + 1) /\ HOUR * x \in Int /\ HOUR * (y + 1) \in Int
      BY <1>1, <1>2, <2>1 DEF x, y
    <2> QED BY <2>2, <2>3
  <1> QED BY <1>2, <1>3

\* A further report with a fresh nonce, in an hour without a condition report of its
\* oracle when it is one, keeps the accepted reports in order.
LEMMA ReportAccepted ==
    ASSUME ReportInv, now \in Nat, now' = now,
           NEW kind \in {"slash", "condition"}, NEW o \in Oracles, NEW n \in Nat,
           n > oracle_nonce[o],
           oracle_nonce' = [oracle_nonce EXCEPT ![o] = n],
           accepted' = Append(accepted, [kind |-> kind, oracle |-> o, nonce |-> n,
                                         hour |-> now \div HOUR]),
           oracle_rate_limit \subseteq oracle_rate_limit',
           oracle_rate_limit' \subseteq Oracles \X Nat,
           kind = "condition" => /\ <<o, now \div HOUR>> \notin oracle_rate_limit
                                 /\ <<o, now \div HOUR>> \in oracle_rate_limit',
           tenant_flag' \subseteq Nat, DOMAIN asset_condition' \subseteq Nat
    PROVE  ReportInv'
  <1> DEFINE hr == now \div HOUR
             r == [kind |-> kind, oracle |-> o, nonce |-> n, hour |-> hr]
  <1>1. hr \in Nat
    BY HoursAdvance
  <1>2. r \in Report /\ r.kind = kind /\ r.oracle = o /\ r.nonce = n /\ r.hour = hr
    BY <1>1 DEF Report
  <1>3. accepted' = Append(accepted, r) /\ accepted \in Seq(Report)
    BY DEF ReportInv
  <1>4. \A i \in DOMAIN accepted : accepted[i] \in Report
    BY <1>3
  <1>5. /\ oracle_nonce \in [Oracles -> Nat] /\ oracle_nonce' \in [Oracles -> Nat]
        /\ oracle_nonce'[o] = n
        /\ \A q \in Oracles : oracle_nonce[q] <= oracle_nonce'[q]
    BY DEF ReportInv
  <1>6. kind = "condition" => <<o, hr>> \notin oracle_rate_limit /\ <<o, hr>> \in oracle_rate_limit'
    OBVIOUS
  <1>7. hr = now' \div HOUR
    OBVIOUS
  <1> HIDE DEF r, hr
  <1>8. /\ accepted' \in Seq(Report) /\ Len(accepted') = Len(accepted) + 1
        /\ Len(accepted) \in Nat
        /\ DOMAIN accepted = 1..Len(accepted) /\ DOMAIN accepted' = 1..(Len(accepted) + 1)
        /\ accepted'[Len(accepted) + 1] = r
        /\ \A i \in DOMAIN accepted : accepted'[i] = accepted[i]
    BY <1>2, <1>3
  <1>9. ASSUME NEW x \in Report, Behind(x, oracle_nonce, oracle_rate_limit, now)
        PROVE  Behind(x, oracle_nonce', oracle_rate_limit', now')
    <2>1. x.oracle \in Oracles /\ x.nonce \in Nat
      BY DEF Report
    <2>2. x.nonce <= oracle_nonce'[x.oracle]
      BY <1>5, <1>9, <2>1 DEF Behind
    <2> QED BY <1>9, <2>2 DEF Behind
  <1>10. Behind(r, oracle_nonce', oracle_rate_limit', now')
    BY <1>1, <1>2, <1>5, <1>6, <1>7 DEF Behind
  <1>11. \A i \in DOMAIN accepted' :
            Behind(accepted'[i], oracle_nonce', oracle_rate_limit', now')
    <2> SUFFICES ASSUME NEW i \in DOMAIN accepted'
                 PROVE  Behind(accepted'[i], oracle_nonce', oracle_rate_limit', now')
      OBVIOUS
    <2>1. CASE i = Len(accepted) + 1
      BY <1>8, <1>10, <2>1
    <2>2. CASE i # Len(accepted) + 1
      <3>1. i \in DOMAIN accepted /\ accepted'[i] = accepted[i]
        BY <1>8, <2>2
      <3>2. accepted[i] \in Report /\ Behind(accepted[i], oracle_nonce, oracle_rate_limit, now)
        BY <1>4, <3>1 DEF ReportInv
      <3> QED BY <1>9, <3>1, <3>2
    <2> QED BY <2>1, <2>2
  <1>12. ReportsOnce'
    <2> SUFFICES ASSUME NEW i \in DOMAIN accepted', NEW j \in DOMAIN accepted',
                        i < j, accepted'[i].oracle = accepted'[j].oracle
                 PROVE  /\ accepted'[i].nonce < accepted'[j].nonce
                        /\ accepted'[i].kind = "condition" /\ accepted'[j].kind = "condition" =>
                              accepted'[i].hour < accepted'[j].hour
      BY DEF ReportsOnce
    <2>1. i \in DOMAIN accepted /\ accepted'[i] = accepted[i]
      BY <1>8
    <2>2. CASE j \in DOMAIN accepted
      <3>1. accepted'[j] = accepted[j]
        BY <1>8, <2>2
      <3> QED BY <2>1, <2>2, <3>1 DEF ReportInv, ReportsOnce
    <2>3. CASE j \notin DOMAIN accepted
      <3> DEFINE x == accepted[i]
      <3>1. accepted'[j] = r /\ x.oracle = o
        BY <1>2, <1>8, <2>1, <2>3
      <3>2. x \in Report /\ Behind(x, oracle_nonce, oracle_rate_limit, now)
        BY <1>4, <2>1 DEF ReportInv
      <3> HIDE DEF x
      <3>3. x.nonce \in Nat /\ x.hour \in Nat
        BY <3>2 DEF Report
      <3>4. x.nonce < n
        BY <1>5, <3>1, <3>2, <3>3 DEF Behind
      <3>5. x.kind = "condition" /\ kind = "condition" => x.hour < hr
        <4> SUFFICES ASSUME x.kind = "condition", kind = "condition" PROVE x.hour < hr
          OBVIOUS
        <4>1. <<o, x.hour>> \in oracle_rate_limit
          BY <3>1, <3>2 DEF Behind
        <4>2. x.hour <= hr
          BY <3>2 DEF Behind, hr
        <4>3. x.hour # hr
          BY <1>6, <4>1
        <4> QED BY <1>1, <3>3, <4>2, <4>3
      <3> QED BY <1>2, <2>1, <3>1, <3>4, <3>5 DEF x
    <2> QED BY <2>2, <2>3
  <1> QED BY <1>5, <1>8, <1>11, <1>12 DEF ReportInv

-----------------------------------------------------------------------------
(* Steps of the leases. *)

\* A step of the leases that creates none neither moves the clock back nor stores a lease
\* under a new id, and a deposit that is no longer held is not held again.
HeldNoMore(x) ==
    /\ x \in DOMAIN lease_instance
    /\ lease_instance[x].deposit_status # "Held" => lease_instance'[x].deposit_status # "Held"

LEMMA PutHeld ==
    ASSUME NEW id \in DOMAIN lease_instance, NEW l,
           lease_instance' = Put(lease_instance, id, l),
           l.deposit_status \in {lease_instance[id].deposit_status, "Settled", "Disputed"},
           NEW x \in DOMAIN lease_instance'
    PROVE  HeldNoMore(x)
  <1>1. /\ DOMAIN lease_instance' = DOMAIN lease_instance \cup {id} /\ lease_instance'[id] = l
        /\ \A y \in DOMAIN lease_instance \ {id} : lease_instance'[y] = lease_instance[y]
    BY DEF Put
  <1>2. CASE x = id
    BY <1>1, <1>2 DEF HeldNoMore
  <1>3. CASE x # id
    BY <1>1, <1>3 DEF HeldNoMore
  <1> QED BY <1>2, <1>3

LEMMA DropHeld ==
    ASSUME NEW id, lease_instance' = Drop(lease_instance, id), NEW x \in DOMAIN lease_instance'
    PROVE  HeldNoMore(x)
  <1>1. /\ DOMAIN lease_instance' = DOMAIN lease_instance \ {id}
        /\ \A y \in DOMAIN lease_instance \ {id} : lease_instance'[y] = lease_instance[y]
    BY DropFacts
  <1> QED BY <1>1 DEF HeldNoMore

LEMMA RentHeld ==
    ASSUME IInv, NEW id \in DOMAIN lease_instance, Rent(id), NEW x \in DOMAIN lease_instance'
    PROVE  HeldNoMore(x)
  <1> DEFINE l == lease_instance[id]
  <1>1. l \in LeaseInstance
    BY DEF IInv, StoreInv, GoodLease
  <1>2. ASSUME NEW u \in Users, NEW a \in Payments, pay_lease_instance_rent(id, u, a)
        PROVE  HeldNoMore(x)
    <2>1. with_payment(l, a).deposit_status = l.deposit_status
      BY <1>1 DEF with_payment, LeaseInstance
    <2>2. \/ lease_instance' = Drop(lease_instance, id)
          \/ lease_instance' = Put(lease_instance, id, with_payment(l, a))
      BY <1>2 DEF pay_lease_instance_rent, archive_lease
    <2> QED BY <2>1, <2>2, PutHeld, DropHeld
  <1>3. ASSUME NEW v, set_lease_instance_buyout_price(id, v) \/ set_withdrawal_address(id, v)
        PROVE  HeldNoMore(x)
    <2>1. /\ [l EXCEPT !.buyout_price = v].deposit_status = l.deposit_status
          /\ [l EXCEPT !.withdrawal_address = v].deposit_status = l.deposit_status
      BY <1>1 DEF LeaseInstance
    <2> QED BY <1>3, <2>1, PutHeld
            DEF set_lease_instance_buyout_price, set_withdrawal_address, save_lease_instance
  <1>4. ASSUME withdraw_rent(id) PROVE HeldNoMore(x)
    <2>1. withdrawn(l).deposit_status = l.deposit_status
      BY <1>1 DEF withdrawn, LeaseInstance
    <2> QED BY <1>4, <2>1, PutHeld DEF withdraw_rent, save_lease_instance
  <1>5. ASSUME check_tenant_default(id) PROVE HeldNoMore(x)
    <2> DEFINE f == with_flat_fee(l)
               g == with_seconds_late(f, now - l.grace_period_end)
    <2>1. f.deposit_status = l.deposit_status /\ f \in LeaseInstance
      <3>1. l.debt + l.late_fee_flat \in Int
        BY <1>1 DEF LeaseInstance
      <3> DEFINE d == l.debt + l.late_fee_flat
      <3>2. f = l \/ f = [l EXCEPT !.debt = d, !.flat_fee_applied = TRUE]
        BY DEF with_flat_fee
      <3>3. d \in Int /\ TRUE \in BOOLEAN
        BY <3>1
      <3> HIDE DEF d, f, l
      <3>4. CASE f = l
        BY <1>1, <3>4
      <3>5. CASE f = [l EXCEPT !.debt = d, !.flat_fee_applied = TRUE]
        BY <1>1, <3>3, <3>5 DEF LeaseInstance
      <3> QED BY <3>2, <3>4, <3>5
    <2> HIDE DEF f
    <2>2. g.deposit_status = l.deposit_status
      <3> DEFINE late == now - l.grace_period_end
                 d == f.debt + (late - f.seconds_late_charged) * f.late_fee_per_sec
      <3>1. g = f \/ g = [f EXCEPT !.debt = d, !.seconds_late_charged = late]
        BY DEF with_seconds_late
      <3> HIDE DEF late, d, g
      <3> QED BY <2>1, <3>1 DEF LeaseInstance
    <2>3. \/ lease_instance' = Put(lease_instance, id, l)
          \/ lease_instance' = Put(lease_instance, id, g)
      BY <1>5 DEF check_tenant_default, save_lease_instance, f
    <2> HIDE DEF g
    <2> QED BY <2>2, <2>3, PutHeld
  <1>6. ASSUME NEW u, add_authorized_payer(id, u) PROVE HeldNoMore(x)
    BY <1>6 DEF add_authorized_payer, HeldNoMore
  <1> QED BY <1>2, <1>3, <1>4, <1>5, <1>6 DEF Rent

LEMMA DepositHeld ==
    ASSUME IInv, NEW id \in DOMAIN lease_instance, Deposit(id), NEW x \in DOMAIN lease_instance'
    PROVE  HeldNoMore(x)
  <1> DEFINE l == lease_instance[id]
  <1>1. l \in LeaseInstance
    BY DEF IInv, StoreInv, GoodLease
  <1>2. /\ ended(l).deposit_status = "Settled" /\ disputed(l).deposit_status = "Disputed"
        /\ [l EXCEPT !.deposit_status = "Settled"].deposit_status = "Settled"
        /\ [ended(l) EXCEPT !.active = FALSE].deposit_status = "Settled"
    BY <1>1 DEF ended, disputed, LeaseInstance
  <1>3. ASSUME NEW v, v.deposit_status \in {"Settled", "Disputed"},
               lease_instance' = Put(lease_instance, id, v)
        PROVE  HeldNoMore(x)
    BY <1>3, PutHeld
  <1>4. ASSUME NEW u \in Settlers, settle_deposit(id, u) \/ dispute_deposit(id, u)
        PROVE  HeldNoMore(x)
    <2>1. CASE settle_deposit(id, u)
      <3> DEFINE v == [l EXCEPT !.deposit_status = "Settled"]
      <3>1. lease_instance' = Put(lease_instance, id, v) /\ v.deposit_status = "Settled"
        BY <1>2, <2>1 DEF settle_deposit, save_lease_instance
      <3> HIDE DEF v
      <3> QED BY <1>3, <3>1
    <2>2. CASE dispute_deposit(id, u)
      BY <1>2, <1>3, <2>2 DEF dispute_deposit, save_lease_instance
    <2> QED BY <1>4, <2>1, <2>2
  <1>5. ASSUME NEW a \in Deductions, NEW u \in Users, resolve_dispute(id, u, a)
        PROVE  HeldNoMore(x)
    BY <1>2, <1>3, <1>5 DEF resolve_dispute, save_lease_instance
  <1>6. ASSUME NEW p \in Splits, mutual_deposit_release(id, p[1], p[2])
        PROVE  HeldNoMore(x)
    <2> DEFINE v == [ended(l) EXCEPT !.active = FALSE]
    <2>1. lease_instance' = Put(lease_instance, id, v) /\ v.deposit_status = "Settled"
      BY <1>2, <1>6 DEF mutual_deposit_release
    <2> HIDE DEF v
    <2> QED BY <1>3, <2>1
  <1>7. ASSUME NEW p \in Splits, init_mutual_release_fb(id, p[1], p[2])
        PROVE  HeldNoMore(x)
    BY <1>2, <1>3, <1>7 DEF init_mutual_release_fb, save_lease_instance
  <1>8. ASSUME NEW a \in Deductions, conclude_lease(id, a)
        PROVE  HeldNoMore(x)
    BY <1>2, <1>3, <1>8 DEF conclude_lease, save_lease_instance
  <1> QED BY <1>4, <1>5, <1>6, <1>7, <1>8 DEF Deposit

LEMMA MaintenanceHeld ==
    ASSUME IInv, NEW id \in DOMAIN lease_instance, Maintenance(id),
           NEW x \in DOMAIN lease_instance'
    PROVE  HeldNoMore(x)
  <1> DEFINE l == lease_instance[id]
  <1>1. l \in LeaseInstance
    BY DEF IInv, StoreInv, GoodLease
  <1>2. ASSUME NEW v
        PROVE  /\ [l EXCEPT !.inspector = v].deposit_status = l.deposit_status
               /\ [l EXCEPT !.maintenance_status = v].deposit_status = l.deposit_status
    BY <1>1 DEF LeaseInstance
  <1>3. \E v : v.deposit_status = l.deposit_status /\ lease_instance' = Put(lease_instance, id, v)
    BY <1>2 DEF Maintenance, set_inspector, report_maintenance_issue, submit_repair_proof,
       verify_repair, save_lease_instance
  <1> QED BY <1>3, PutHeld

LEMMA EndingHeld ==
    ASSUME IInv, NEW id \in DOMAIN lease_instance, Ending(id), NEW x \in DOMAIN lease_instance'
    PROVE  HeldNoMore(x)
  <1> DEFINE l == lease_instance[id]
             v == [l EXCEPT !.status = "Terminated", !.active = FALSE]
  <1>1. l \in LeaseInstance
    BY DEF IInv, StoreInv, GoodLease
  <1>2. v.deposit_status = l.deposit_status
    BY <1>1 DEF LeaseInstance
  <1>3. \/ lease_instance' = Put(lease_instance, id, v)
        \/ lease_instance' = Drop(lease_instance, id)
        \/ lease_instance' = lease_instance
    BY DEF Ending, reclaim, terminate_lease, execute_early_termination, termination_refused,
       sweep_expired_proposals, save_lease_instance, archive_lease
  <1>4. CASE lease_instance' = lease_instance
    BY <1>4 DEF HeldNoMore
  <1> HIDE DEF v
  <1> QED BY <1>2, <1>3, <1>4, PutHeld, DropHeld

LEMMA StepHeld ==
    ASSUME IInv, Next, created' = created, NEW x \in DOMAIN lease_instance'
    PROVE  HeldNoMore(x)
  <1>1. ASSUME Creation PROVE FALSE
    <2>1. created' = created + 1 /\ created \in Nat
      <3>1. created \in Nat
        BY DEF IInv
      <3>2. CASE \E p \in BillingParams : create_lease_with_continuous_billing(p)
        BY <3>1, <3>2 DEF create_lease_with_continuous_billing
      <3>3. CASE \E id \in Ids, p \in CreateParams :
                   \E locked \in execute_deposit_swap(p) : create_lease_instance(id, p, locked)
        BY <3>1, <3>3 DEF create_lease_instance
      <3> QED BY <1>1, <3>2, <3>3 DEF Creation
    <2> QED BY <2>1
  <1>2. CASE UNCHANGED lease_instance
    BY <1>2 DEF HeldNoMore
  <1>3. CASE Tick \/ Settings
    BY <1>2, <1>3 DEF Tick, Settings, initialize, set_admin, set_platform_fee,
       set_kyc_provider, add_allowed_asset
  <1> QED BY <1>1, <1>3, RentHeld, DepositHeld, MaintenanceHeld, EndingHeld DEF Next

LEMMA StepTime ==
    ASSUME IInv, Next
    PROVE  now \in Nat /\ now' \in Nat /\ now <= now'
  <1>1. now \in Nat
    BY DEF IInv
  <1>2. CASE Tick
    BY <1>1, <1>2 DEF Tick
  <1>3. CASE Settings \/ Creation
    <2>1. CASE Settings
      BY <1>1, <2>1 DEF Settings, initialize, set_admin, set_platform_fee, set_kyc_provider,
         add_allowed_asset
    <2>2. ASSUME NEW p \in BillingParams, create_lease_with_continuous_billing(p)
          PROVE  now' = now
      BY <2>2 DEF create_lease_with_continuous_billing
    <2>3. ASSUME NEW id \in Ids, NEW p, NEW locked, create_lease_instance(id, p, locked)
          PROVE  now' = now
      BY <2>3 DEF create_lease_instance
    <2> QED BY <1>1, <1>3, <2>1, <2>2, <2>3 DEF Creation
  <1>4. ASSUME NEW id \in DOMAIN lease_instance, Rent(id) \/ Maintenance(id)
        PROVE  now' = now
    BY <1>4 DEF Rent, pay_lease_instance_rent, set_lease_instance_buyout_price,
       set_withdrawal_address, withdraw_rent, add_authorized_payer, check_tenant_default,
       Maintenance, set_inspector, report_maintenance_issue, submit_repair_proof,
       verify_repair, save_lease_instance
  <1>5. ASSUME NEW id \in DOMAIN lease_instance, Deposit(id) \/ Ending(id)
        PROVE  now' = now
    BY <1>5 DEF Deposit, settle_deposit, dispute_deposit, conclude_lease, resolve_dispute,
       mutual_deposit_release, init_mutual_release_fb, Ending, reclaim, terminate_lease,
       execute_early_termination, termination_refused, sweep_expired_proposals,
       save_lease_instance
  <1> QED BY <1>1, <1>2, <1>3, <1>4, <1>5 DEF Next

\* Steps of the leases leave the oracles alone.
LEMMA LeaseStepKeeps ==
    ASSUME OracleInv, LeaseStep
    PROVE  OracleInv'
  <1>1. IInv /\ Next /\ UNCHANGED <<oracle_settings, report_book, accepted>>
    BY DEF OracleInv, LeaseStep
  <1>2. IInv'
    BY <1>1, NextKeeps
  <1>3. SettingInv'
    BY <1>1 DEF OracleInv, SettingInv, oracle_settings
  <1>4. ReportInv'
    <2>1. now \div HOUR \in Nat /\ now' \div HOUR \in Nat /\ now \div HOUR <= now' \div HOUR
      BY <1>1, StepTime, HoursAdvance
    <2>2. \A i \in DOMAIN accepted : accepted[i].hour \in Nat
      <3>1. \A i \in DOMAIN accepted : accepted[i] \in Report
        BY DEF OracleInv, ReportInv
      <3> QED BY <3>1 DEF Report
    <2>3. \A i \in DOMAIN accepted : Behind(accepted[i], oracle_nonce, oracle_rate_limit, now')
      BY <2>1, <2>2 DEF OracleInv, ReportInv, Behind
    <2> QED BY <1>1, <2>3 DEF OracleInv, ReportInv, ReportsOnce, report_book
  <1>5. SlashedInv'
    <2> SUFFICES ASSUME NEW x \in slashed', x \in DOMAIN lease_instance'
                 PROVE  lease_instance'[x].deposit_status # "Held"
      BY DEF SlashedInv
    <2>1. CASE created' = created
      <3>1. x \in slashed /\ HeldNoMore(x)
        BY <1>1, <2>1, StepHeld DEF LeaseStep
      <3> QED BY <3>1 DEF OracleInv, SlashedInv, HeldNoMore
    <2>2. CASE created' # created
      <3>1. x \in slashed /\ x \in DOMAIN lease_instance /\ lease_instance'[x] = lease_instance[x]
        BY <2>2 DEF LeaseStep
      <3> QED BY <3>1 DEF OracleInv, SlashedInv
    <2> QED BY <2>1, <2>2
  <1> QED BY <1>2, <1>3, <1>4, <1>5 DEF OracleInv

-----------------------------------------------------------------------------
(* Steps of the oracles. *)

LEMMA NewConfigActive ==
    ASSUME now \in Nat, NEW tier \in {"Primary", "Backup"}
    PROVE  /\ NewConfig(tier) \in OracleConfig
           /\ NewConfig(tier).status = "Active" /\ NewConfig(tier).failure_count = 0
  BY DEF NewConfig, OracleConfig

\* Storing an active configuration of an oracle.
LEMMA ConfigStored ==
    ASSUME NEW f, NEW o \in Oracles, NEW c \in OracleConfig, c.status = "Active",
           c.failure_count = 0, DOMAIN f \subseteq Oracles,
           \A x \in DOMAIN f : /\ f[x] \in OracleConfig
                               /\ f[x].status = "Active" /\ f[x].failure_count = 0
    PROVE  /\ DOMAIN Put(f, o, c) \subseteq Oracles
           /\ \A x \in DOMAIN Put(f, o, c) :
                 /\ Put(f, o, c)[x] \in OracleConfig
                 /\ Put(f, o, c)[x].status = "Active" /\ Put(f, o, c)[x].failure_count = 0
  <1>1. /\ DOMAIN Put(f, o, c) = DOMAIN f \cup {o} /\ Put(f, o, c)[o] = c
        /\ \A x \in DOMAIN f \ {o} : Put(f, o, c)[x] = f[x]
    BY DEF Put
  <1> HIDE DEF Put
  <1> QED BY <1>1

\* What leaves the leases and the reports alone, as the settings do.
LEMMA BooksUntouched ==
    ASSUME OracleInv, UNCHANGED <<vars, report_book, accepted, slashed>>
    PROVE  IInv' /\ ReportInv' /\ SlashedInv'
  <1>1. IInv'
    BY StutterKeeps DEF OracleInv
  <1>2. ReportInv'
    BY DEF OracleInv, ReportInv, ReportsOnce, report_book, vars
  <1>3. SlashedInv'
    BY DEF OracleInv, SlashedInv, vars
  <1> QED BY <1>1, <1>2, <1>3

LEMMA OracleSettingsKeep ==
    ASSUME OracleInv, OracleSettings
    PROVE  OracleInv'
  <1>1. PICK o \in Oracles :
          \/ whitelist_oracle(o)
          \/ remove_oracle(o)
          \/ reset_oracle_status(o)
          \/ \E backup \in Oracles : set_fallback_hierarchy(o, backup, TRUE)
    BY DEF OracleSettings
  <1>2. UNCHANGED <<vars, report_book, accepted, slashed>>
    BY <1>1 DEF whitelist_oracle, remove_oracle, reset_oracle_status, set_fallback_hierarchy,
       report_observed
  <1>3. now \in Nat /\ SettingInv
    BY DEF OracleInv, IInv
  <1>4. CASE whitelist_oracle(o) \/ remove_oracle(o)
    <2>1. oracle_whitelist' \subseteq Oracles /\ UNCHANGED <<oracle_config, fallback_hierarchy>>
      BY <1>3, <1>4 DEF whitelist_oracle, remove_oracle, SettingInv
    <2>2. SettingInv'
      BY <1>3, <2>1 DEF SettingInv
    <2> QED BY <1>2, <2>2, BooksUntouched DEF OracleInv
  <1>5. CASE reset_oracle_status(o)
    <2> DEFINE c == NewConfig(oracle_config[o].tier)
    <2>1. /\ o \in DOMAIN oracle_config /\ oracle_config' = Put(oracle_config, o, c)
          /\ UNCHANGED <<oracle_whitelist, fallback_hierarchy>>
      BY <1>5 DEF reset_oracle_status
    <2>2. oracle_config[o].tier \in {"Primary", "Backup"}
      BY <1>3, <2>1 DEF SettingInv, OracleConfig
    <2>3. c \in OracleConfig /\ c.status = "Active" /\ c.failure_count = 0
      BY <1>3, <2>2, NewConfigActive
    <2> HIDE DEF c
    <2>4. SettingInv'
      BY <1>3, <2>1, <2>3, ConfigStored DEF SettingInv
    <2> QED BY <1>2, <2>4, BooksUntouched DEF OracleInv
  <1>6. ASSUME NEW b \in Oracles, set_fallback_hierarchy(o, b, TRUE)
        PROVE  OracleInv'
    <2> DEFINE c == NewConfig("Primary")
               d == NewConfig("Backup")
               f == Put(oracle_config, o, c)
               h == [primary_oracle |-> o, backup_oracle |-> b,
                     dao_arbitration_enabled |-> TRUE, hierarchy_active |-> FALSE,
                     last_demotion_time |-> None]
    <2>1. /\ oracle_config' = Put(f, b, d) /\ fallback_hierarchy' = h
          /\ UNCHANGED oracle_whitelist
      BY <1>6 DEF set_fallback_hierarchy
    <2>2. /\ c \in OracleConfig /\ c.status = "Active" /\ c.failure_count = 0
          /\ d \in OracleConfig /\ d.status = "Active" /\ d.failure_count = 0
      BY <1>3, NewConfigActive
    <2>3. h \in FallbackHierarchy /\ ~h.hierarchy_active
      BY DEF FallbackHierarchy
    <2> HIDE DEF c, d, h
    <2>4. /\ DOMAIN f \subseteq Oracles
          /\ \A x \in DOMAIN f : /\ f[x] \in OracleConfig
                                 /\ f[x].status = "Active" /\ f[x].failure_count = 0
      BY <1>3, <2>2, ConfigStored DEF SettingInv
    <2> HIDE DEF f
    <2>5. /\ DOMAIN oracle_config' \subseteq Oracles
          /\ \A x \in DOMAIN oracle_config' :
                /\ oracle_config'[x] \in OracleConfig
                /\ oracle_config'[x].status = "Active" /\ oracle_config'[x].failure_count = 0
      BY <2>1, <2>2, <2>4, ConfigStored
    <2>6. SettingInv'
      BY <1>3, <2>1, <2>3, <2>5 DEF SettingInv
    <2> QED BY <1>2, <2>6, BooksUntouched DEF OracleInv
  <1> QED BY <1>1, <1>4, <1>5, <1>6

\* The payload of a report is well formed.
LEMMA PayloadType ==
    /\ \A p \in OraclePayload : /\ p.lease_id \in Nat /\ p.oracle_pubkey \in Oracles
                                /\ p.nonce \in Nat /\ p.damage_severity \in DamageSeverity
    /\ \A p \in AssetConditionMetadataPayload :
          p.lease_id \in Nat /\ p.oracle_pubkey \in Oracles /\ p.nonce \in Nat
  BY OracleAssumption, ContractInputAssumption DEF OraclePayload, AssetConditionMetadataPayload

\* A call that answers Err leaves nothing behind.
LEMMA RefusedKeeps ==
    ASSUME OracleInv, NEW p \in OraclePayload, deposit_slash_unavailable(p)
    PROVE  OracleInv'
  <1>1. /\ UNCHANGED <<oracle_config, fallback_hierarchy, lease_instance, oracle_whitelist>>
        /\ UNCHANGED <<now, settings, archive, rent_book, velocity, balance, observed>>
        /\ UNCHANGED <<report_book, accepted, slashed>>
    BY DEF deposit_slash_unavailable, host_commit, failover_answers_ok
  <1>2. UNCHANGED <<vars, report_book, accepted, slashed>>
    BY <1>1 DEF vars
  <1>3. SettingInv'
    BY <1>1 DEF OracleInv, SettingInv
  <1> QED BY <1>2, <1>3, BooksUntouched DEF OracleInv

LEMMA ConditionKeeps ==
    ASSUME OracleInv, NEW p \in AssetConditionMetadataPayload,
           update_asset_condition_metadata(p)
    PROVE  OracleInv'
  <1> DEFINE o == p.oracle_pubkey
             n == p.nonce
  <1>1. /\ UNCHANGED <<vars, oracle_settings, tenant_flag, slashed>>
        /\ asset_condition' = Put(asset_condition, p.lease_id, p.asset_condition)
        /\ oracle_rate_limit' = oracle_rate_limit \cup {<<o, now \div HOUR>>}
        /\ <<o, now \div HOUR>> \notin oracle_rate_limit
        /\ n > oracle_nonce[o]
        /\ oracle_nonce' = [oracle_nonce EXCEPT ![o] = n]
        /\ accepted' = Append(accepted, [kind |-> "condition", oracle |-> o, nonce |-> n,
                                         hour |-> now \div HOUR])
    BY DEF update_asset_condition_metadata, may_report_condition, fresh_nonce, accept,
       rate_limited
  <1>2. p.lease_id \in Nat /\ o \in Oracles /\ n \in Nat
    BY PayloadType
  <1>3. now \in Nat /\ now' = now /\ now \div HOUR \in Nat
    BY <1>1, HoursAdvance DEF OracleInv, IInv, vars
  <1> HIDE DEF o, n
  <1>4. DOMAIN asset_condition' \subseteq Nat
    BY <1>1, <1>2 DEF Put, OracleInv, ReportInv
  <1>5. /\ oracle_rate_limit \subseteq oracle_rate_limit' /\ tenant_flag' \subseteq Nat
        /\ oracle_rate_limit' \subseteq Oracles \X Nat
    BY <1>1, <1>2, <1>3 DEF OracleInv, ReportInv
  <1>6. ReportInv'
    BY <1>1, <1>2, <1>3, <1>4, <1>5, ReportAccepted DEF OracleInv
  <1>7. IInv' /\ SettingInv' /\ SlashedInv'
    <2>1. IInv'
      BY <1>1, StutterKeeps DEF OracleInv
    <2>2. SettingInv'
      BY <1>1 DEF OracleInv, SettingInv, oracle_settings
    <2>3. SlashedInv'
      BY <1>1 DEF OracleInv, SlashedInv, vars
    <2> QED BY <2>1, <2>2, <2>3
  <1> QED BY <1>6, <1>7 DEF OracleInv

LEMMA PenaltyType ==
    ASSUME NEW l \in LeaseInstance, NEW s \in DamageSeverity
    PROVE  slash_penalty(l, s) \in Int /\ total_deposit(l) \in Int
  <1>1. total_deposit(l) \in Int
    BY DEF total_deposit, LeaseInstance
  <1>2. calculate_penalty_percentage(s) \in Nat
    BY DEF calculate_penalty_percentage, DamageSeverity
  <1> DEFINE x == total_deposit(l) * calculate_penalty_percentage(s)
  <1>3. x \in Int
    BY <1>1, <1>2
  <1>4. slash_penalty(l, s) = Quot(x, 100)
    BY DEF slash_penalty
  <1> HIDE DEF x
  <1> QED BY <1>1, <1>3, <1>4, QuotType

\* A slash pays the deposits out, settles the lease and leaves it stored.
LEMMA SlashKeepsLeases ==
    ASSUME IInv, NEW p \in OraclePayload, execute_deposit_slash(p)
    PROVE  IInv'
  <1> DEFINE id == p.lease_id
             lease == lease_instance[id]
             payout == slash_penalty(lease, p.damage_severity)
             refund == total_deposit(lease) - payout
             b == pay(balance, Contract, lease.tenant, refund)
             k == shrink_portfolio(record_termination(initialize_lessor(lease.landlord), now))
             l == [lease EXCEPT !.deposit_status = "Settled", !.active = FALSE]
             n == paid_out[id] + Max({refund, 0}) + Max({payout, 0})
  <1>1. /\ id \in DOMAIN lease_instance
        /\ CanPay(balance, Contract, refund) /\ CanPay(b, Contract, payout)
        /\ balance' = pay(b, Contract, lease.landlord, payout)
        /\ velocity' = Put(velocity, lease.landlord, k)
        /\ lease_instance' = Put(lease_instance, id, l)
        /\ paid_out' = [paid_out EXCEPT ![id] = n]
        /\ UNCHANGED <<now, settings, archive, rent_book, created, tripped>>
    BY DEF execute_deposit_slash
  <1>2. /\ now \in Nat /\ GoodLease(lease, now) /\ lease \in LeaseInstance /\ id \in Nat
        /\ paid_out[id] \in Nat /\ Contract \in Holders
    BY <1>1 DEF IInv, StoreInv, GoodLease, PaidInv, Holders
  <1>3. lease.landlord \in Users /\ lease.tenant \in Holders /\ lease.landlord \in Holders
    BY <1>2 DEF LeaseInstance, Holders
  <1>4. payout \in Int /\ refund \in Int
    <2>1. p.damage_severity \in DamageSeverity
      BY PayloadType
    <2>2. payout \in Int /\ total_deposit(lease) \in Int
      BY <1>2, <2>1, PenaltyType
    <2> HIDE DEF payout
    <2> QED BY <2>2
  <1> HIDE DEF payout, refund
  <1>5. n \in Nat
    <2>1. /\ Max({refund, 0}) \in {refund, 0} /\ Max({refund, 0}) >= 0
          /\ Max({payout, 0}) \in {payout, 0} /\ Max({payout, 0}) >= 0
      BY <1>4, MinPair
    <2> QED BY <1>2, <1>4, <2>1
  <1>6. balance' \in [Holders -> Nat]
    <2>1. b \in [Holders -> Nat]
      BY <1>1, <1>2, <1>3, <1>4, PayType DEF IInv
    <2> HIDE DEF b
    <2> QED BY <1>1, <1>2, <1>3, <1>4, <2>1, PayType
  <1>7. k \in VelocityTracker
    BY <1>2, <1>3, TrackerType DEF IInv
  <1>8. GoodLease(l, now)
    <2>1. "Settled" \in DepositStatus /\ FALSE \in BOOLEAN
      BY DEF DepositStatus
    <2>2. l \in LeaseInstance
      BY <1>2, <2>1 DEF LeaseInstance
    <2>3. /\ l.debt = lease.debt /\ l.flat_fee_applied = lease.flat_fee_applied
          /\ l.seconds_late_charged = lease.seconds_late_charged
          /\ l.late_fee_flat = lease.late_fee_flat
          /\ l.late_fee_per_sec = lease.late_fee_per_sec
          /\ l.grace_period_end = lease.grace_period_end
          /\ l.early_termination_fee_bps = lease.early_termination_fee_bps
          /\ l.fixed_penalty = lease.fixed_penalty
          /\ l.status = lease.status /\ l.deposit_status = "Settled"
      BY <1>2 DEF LeaseInstance
    <2> HIDE DEF l, lease
    <2> QED BY <1>2, <2>2, <2>3, SameFees
  <1> HIDE DEF b, k, l, n, lease
  <1>9. StoreInv'
    BY <1>1, <1>2, <1>8, PutStore DEF IInv
  <1>10. VelocityInv'
    BY <1>1, <1>3, <1>7, PutVelocity DEF IInv
  <1>11. PaidInv'
    <2>1. DOMAIN lease_instance' = DOMAIN lease_instance \cup {id}
      BY <1>1 DEF Put
    <2>2. DOMAIN lease_instance' \subseteq DOMAIN lease_instance
      BY <1>1, <2>1
    <2> HIDE DEF id
    <2> QED BY <1>1, <1>5, <2>2, AddPaid DEF IInv
  <1>12. SettingsInv' /\ ArchiveInv' /\ BookInv'
    BY <1>1, Frame
  <1> QED BY <1>1, <1>6, <1>9, <1>10, <1>11, <1>12 DEF IInv

LEMMA SlashKeeps ==
    ASSUME OracleInv, NEW p \in OraclePayload, execute_deposit_slash(p)
    PROVE  OracleInv'
  <1> DEFINE o == p.oracle_pubkey
             id == p.lease_id
             c == reinstated(oracle_config[o])
             l == [lease_instance[id] EXCEPT !.deposit_status = "Settled", !.active = FALSE]
  <1>1. /\ o \in DOMAIN oracle_config /\ id \in DOMAIN lease_instance
        /\ p.nonce > oracle_nonce[o]
        /\ oracle_config' = Put(oracle_config, o, c)
        /\ lease_instance' = Put(lease_instance, id, l)
        /\ slashed' = slashed \cup {id}
        /\ tenant_flag' = flag_tenant(lease_instance[id], p)
        /\ oracle_nonce' = [oracle_nonce EXCEPT ![o] = p.nonce]
        /\ accepted' = Append(accepted, [kind |-> "slash", oracle |-> o, nonce |-> p.nonce,
                                         hour |-> now \div HOUR])
        /\ UNCHANGED <<now, oracle_whitelist, fallback_hierarchy, asset_condition,
                       oracle_rate_limit>>
    BY DEF execute_deposit_slash, fresh_nonce, accept
  <1>2. id \in Nat /\ o \in Oracles /\ p.nonce \in Nat
    BY PayloadType
  <1>3. IInv'
    BY SlashKeepsLeases DEF OracleInv
  <1>4. SettingInv'
    <2>1. /\ oracle_config[o] \in OracleConfig /\ oracle_config[o].status = "Active"
          /\ oracle_config[o].failure_count = 0 /\ now \in Nat
      BY <1>1 DEF OracleInv, SettingInv, IInv
    <2>2. c = [oracle_config[o] EXCEPT !.last_successful_timestamp = now]
      BY <2>1 DEF reinstated
    <2> HIDE DEF c
    <2>3. c \in OracleConfig /\ c.status = "Active" /\ c.failure_count = 0
      BY <2>1, <2>2 DEF OracleConfig
    <2>4. /\ DOMAIN oracle_config' \subseteq Oracles
          /\ \A x \in DOMAIN oracle_config' :
                /\ oracle_config'[x] \in OracleConfig
                /\ oracle_config'[x].status = "Active" /\ oracle_config'[x].failure_count = 0
      BY <1>1, <1>2, <2>3, ConfigStored DEF OracleInv, SettingInv
    <2> QED BY <1>1, <2>4 DEF OracleInv, SettingInv
  <1>5. ReportInv'
    <2>1. tenant_flag' \subseteq Nat
      BY <1>1, <1>2 DEF flag_tenant, OracleInv, ReportInv
    <2>2. /\ now \in Nat /\ "slash" \in {"slash", "condition"} /\ "slash" # "condition"
          /\ oracle_rate_limit' \subseteq Oracles \X Nat
          /\ oracle_rate_limit \subseteq oracle_rate_limit'
          /\ DOMAIN asset_condition' \subseteq Nat
      BY <1>1 DEF OracleInv, IInv, ReportInv
    <2> HIDE DEF o
    <2> QED BY <1>1, <1>2, <2>1, <2>2, ReportAccepted DEF OracleInv
  <1>6. SlashedInv'
    <2>1. l.deposit_status = "Settled"
      BY <1>1 DEF OracleInv, IInv, StoreInv, GoodLease, LeaseInstance
    <2> HIDE DEF l
    <2>2. /\ DOMAIN lease_instance' = DOMAIN lease_instance \cup {id} /\ lease_instance'[id] = l
          /\ \A x \in DOMAIN lease_instance \ {id} : lease_instance'[x] = lease_instance[x]
      BY <1>1 DEF Put
    <2> QED BY <1>1, <2>1, <2>2 DEF OracleInv, SlashedInv
  <1> QED BY <1>3, <1>4, <1>5, <1>6 DEF OracleInv

LEMMA OracleNextInv ==
    ASSUME OracleInv, [OracleNext]_all_vars
    PROVE  OracleInv'
  <1>1. ASSUME NEW p \in AssetConditionMetadataPayload, condition_report_refused(p)
        PROVE  OracleInv'
    <2>1. UNCHANGED <<vars, oracle_settings, report_book, accepted, slashed>>
      BY <1>1 DEF condition_report_refused
    <2>2. SettingInv'
      BY <2>1 DEF OracleInv, SettingInv, oracle_settings
    <2> QED BY <2>1, <2>2, BooksUntouched DEF OracleInv
  <1>a. ASSUME NEW p \in OraclePayload, deposit_slash_stale(p)
        PROVE  OracleInv'
    <2>1. UNCHANGED <<vars, oracle_settings, report_book, accepted, slashed>>
      BY <1>a DEF deposit_slash_stale
    <2>2. SettingInv'
      BY <2>1 DEF OracleInv, SettingInv, oracle_settings
    <2> QED BY <2>1, <2>2, BooksUntouched DEF OracleInv
  <1>2. CASE Reports
    BY <1>1, <1>a, <1>2, SlashKeeps, RefusedKeeps, ConditionKeeps DEF Reports
  <1>3. CASE UNCHANGED all_vars
    <2>1. UNCHANGED <<vars, oracle_settings, report_book, accepted, slashed>>
      BY <1>3 DEF all_vars, oracle_vars, report_observed
    <2>2. SettingInv'
      BY <2>1 DEF OracleInv, SettingInv, oracle_settings
    <2> QED BY <2>1, <2>2, BooksUntouched DEF OracleInv
  <1> QED BY <1>2, <1>3, LeaseStepKeeps, OracleSettingsKeep DEF OracleNext

-----------------------------------------------------------------------------
(* The theorems. *)

\* The invariant of the leases, of the settings and of the reports holds in every state.
THEOREM OracleInvariance == OracleSpec => []OracleInv
  BY OracleInitInv, OracleNextInv, PTL DEF OracleSpec

\* What is proved of the leases alone.
LeasesSound ==
    LateFeesExact /\ ArchiveJustified /\ HistoryIndexed /\ PagesChainWithoutReuse
       /\ ExitRefundSound

\* Every stored value keeps its type with the oracles, and what is proved of the leases
\* alone (exact late fees, a justified and indexed archive that pages through, a sound split
\* at an early exit) stays true under slashes and condition reports.
THEOREM OracleTypes == OracleSpec => [](OracleTypeOK /\ LeasesSound)
  <1>1. OracleInv => OracleTypeOK /\ LeasesSound
    <2> SUFFICES ASSUME OracleInv PROVE OracleTypeOK /\ LeasesSound
      OBVIOUS
    <2>0. IInv
      BY DEF OracleInv
    <2>1. TypeOK /\ LeasesSound
      BY <2>0, InvariantImplies, PagesHold, ExitRefundHolds DEF LeasesSound
    <2>2. OracleTypeOK
      BY <2>1 DEF OracleInv, SettingInv, ReportInv, OracleTypeOK
    <2> QED BY <2>1, <2>2
  <1> QED BY <1>1, OracleInvariance, PTL

\* However reports are repeated, delayed or reordered, the accepted ones of an oracle have
\* increasing nonces, and no hour holds two condition reports of an oracle.
THEOREM ReportsAlwaysOnce == OracleSpec => []ReportsOnce
  <1>1. OracleInv => ReportsOnce
    BY DEF OracleInv, ReportInv
  <1> QED BY <1>1, OracleInvariance, PTL

\* No demotion, no activation of the fallback and no arbitration outlives the call that
\* wrote it: the oracle hierarchy can never take effect.
THEOREM FailoverAlwaysRolledBack == OracleSpec => []FailoverRolledBack
  <1>1. OracleInv => FailoverRolledBack
    BY DEF OracleInv, SettingInv, IInv, StoreInv, GoodLease, Undisputed, FailoverRolledBack
  <1> QED BY <1>1, OracleInvariance, PTL

\* The deposit of a lease that was slashed is paid out by a further report only when a
\* party has disputed it since.
THEOREM SlashedAgainOnlyAfterDispute == OracleSpec => SlashedAgainAfterDispute
  <1>1. ASSUME OracleInv, OracleNext, NEW id \in slashed \cap DOMAIN lease_instance,
               Len(accepted') > Len(accepted), paid_out'[id] # paid_out[id]
        PROVE  lease_instance[id].deposit_status = "Disputed"
    <2>1. accepted' # accepted
      <3>1. Len(accepted) \in Nat
        BY <1>1 DEF OracleInv, ReportInv
      <3> QED BY <1>1, <3>1
    <2>2. \E p \in OraclePayload : execute_deposit_slash(p)
      <3>1. \/ \E p \in OraclePayload : execute_deposit_slash(p)
            \/ \E p \in AssetConditionMetadataPayload : update_asset_condition_metadata(p)
        BY <1>1, <2>1 DEF OracleNext, LeaseStep, OracleSettings, Reports, whitelist_oracle,
           remove_oracle, reset_oracle_status, set_fallback_hierarchy, report_observed,
           deposit_slash_unavailable, deposit_slash_stale, condition_report_refused
      <3>2. ASSUME NEW p \in AssetConditionMetadataPayload, update_asset_condition_metadata(p)
            PROVE  paid_out' = paid_out
        BY <3>2 DEF update_asset_condition_metadata, vars, observed
      <3> QED BY <1>1, <3>1, <3>2
    <2>3. PICK p \in OraclePayload : execute_deposit_slash(p)
      BY <2>2
    <2>4. p.lease_id = id
      <3> DEFINE v == paid_out[p.lease_id]
                        + Max({total_deposit(lease_instance[p.lease_id])
                                 - slash_penalty(lease_instance[p.lease_id],
                                                 p.damage_severity), 0})
                        + Max({slash_penalty(lease_instance[p.lease_id],
                                             p.damage_severity), 0})
      <3>1. paid_out' = [paid_out EXCEPT ![p.lease_id] = v]
        BY <2>3 DEF execute_deposit_slash
      <3> HIDE DEF v
      <3>2. id \in DOMAIN paid_out
        BY <1>1 DEF OracleInv, IInv, PaidInv
      <3> QED BY <1>1, <3>1, <3>2
    <2>5. lease_instance[id].deposit_status # "Settled"
      BY <2>3, <2>4 DEF execute_deposit_slash, may_slash
    <2>6. lease_instance[id].deposit_status \in DepositStatus
      BY <1>1 DEF OracleInv, IInv, StoreInv, GoodLease, LeaseInstance
    <2>7. lease_instance[id].deposit_status # "Held"
      BY <1>1 DEF OracleInv, SlashedInv
    <2> QED BY <2>5, <2>6, <2>7 DEF DepositStatus
  <1>2. OracleInv /\ [OracleNext]_all_vars =>
          [\A id \in slashed \cap DOMAIN lease_instance :
              (Len(accepted') > Len(accepted) /\ paid_out'[id] # paid_out[id])
                 => lease_instance[id].deposit_status = "Disputed"]_all_vars
    BY <1>1
  <1> QED BY <1>2, OracleInvariance, PTL DEF OracleSpec, SlashedAgainAfterDispute

-----------------------------------------------------------------------------
(***************************************************************************)
(* The promises of the leases that are about steps, with oracles.  Of all  *)
(* the steps of the oracles only a slash touches the leases: it adds a     *)
(* time to the record of the lessor, archives nothing and leaves the rent  *)
(* of the lease alone.                                                     *)
(***************************************************************************)
Slash == \E p \in OraclePayload : execute_deposit_slash(p)

LEMMA OnlySlashesTouchLeases ==
    ASSUME [OracleNext]_all_vars
    PROVE  [Next]_vars \/ Slash
  <1>1. CASE UNCHANGED all_vars
    BY <1>1 DEF all_vars
  <1>2. CASE LeaseStep
    BY <1>2 DEF LeaseStep
  <1>3. CASE OracleSettings
    BY <1>3 DEF OracleSettings, whitelist_oracle, remove_oracle, reset_oracle_status,
                set_fallback_hierarchy
  <1>4. ASSUME NEW p \in OraclePayload, deposit_slash_unavailable(p) \/ deposit_slash_stale(p)
        PROVE  UNCHANGED vars
    BY <1>4 DEF deposit_slash_unavailable, deposit_slash_stale, host_commit,
                failover_answers_ok, vars
  <1>5. ASSUME NEW p \in AssetConditionMetadataPayload,
               update_asset_condition_metadata(p) \/ condition_report_refused(p)
        PROVE  UNCHANGED vars
    BY <1>5 DEF update_asset_condition_metadata, condition_report_refused
  <1>6. CASE Reports
    BY <1>4, <1>5, <1>6 DEF Reports, Slash
  <1> QED BY <1>1, <1>2, <1>3, <1>6 DEF OracleNext

\* A slash is a termination to the limiter: it goes through within the limits only, and its
\* time is added to the record.
LEMMA SlashTraced ==
    ASSUME IInv, NEW p \in OraclePayload, execute_deposit_slash(p)
    PROVE  Traced
  <1> DEFINE lease == lease_instance[p.lease_id]
             u == lease.landlord
             k == shrink_portfolio(record_termination(initialize_lessor(u), now))
             s == initialize_lessor(u).last_termination_times
  <1>1. /\ p.lease_id \in DOMAIN lease_instance /\ velocity' = Put(velocity, u, k)
        /\ WithinLimits(initialize_lessor(u), now) /\ historical_lease' = historical_lease
    BY DEF execute_deposit_slash, archive
  <1>2. VelocityInv /\ now \in Nat /\ u \in Users
    BY <1>1 DEF IInv, StoreInv, GoodLease, LeaseInstance
  <1> HIDE DEF u
  <1>3. initialize_lessor(u) \in VelocityTracker /\ k \in VelocityTracker
    BY <1>2, TrackerType
  <1>4. k.last_termination_times = Append(s, now) /\ s \in Seq(Nat)
    BY <1>2, <1>3, TrackerTimes DEF VelocityTracker
  <1> HIDE DEF k
  <1>5. \A i \in DOMAIN s : i \in DOMAIN Append(s, now) /\ Append(s, now)[i] = s[i]
    <2> HIDE DEF s
    <2> QED BY <1>2, <1>4
  <1>6. RecordsKept /\ RecordsGuarded
    BY <1>1, <1>2, <1>3, <1>4, <1>5, LongerRecord
  <1> QED BY <1>1, <1>6 DEF Traced, NoEarlyExit, Unmoved

LEMMA SlashKeepsRent ==
    ASSUME IInv, RentInv, NEW p \in OraclePayload, execute_deposit_slash(p)
    PROVE  RentInv'
  <1> DEFINE id == p.lease_id
             l == [lease_instance[id] EXCEPT !.deposit_status = "Settled", !.active = FALSE]
  <1>1. /\ id \in DOMAIN lease_instance /\ lease_instance' = Put(lease_instance, id, l)
        /\ roommate_balance' = roommate_balance
    BY DEF execute_deposit_slash, rent_book
  <1>2. lease_instance[id] \in LeaseInstance
    BY <1>1 DEF IInv, StoreInv, GoodLease
  <1>3. SameRent(lease_instance[id], l)
    BY <1>2 DEF SameRent, LeaseInstance
  <1> HIDE DEF l, id
  <1> QED BY <1>1, <1>3, RentUntouched

\* The early exits stay matched and the rent stays booked.
BooksInv == MatchedInv /\ RentInv

LEMMA OracleStepTraced ==
    ASSUME OracleInv, [OracleNext]_all_vars
    PROVE  Traced /\ NothingLost
  <1>1. IInv
    BY DEF OracleInv
  <1>2. CASE [Next]_vars
    BY <1>1, <1>2, NextTraced, NextLosesNothing
  <1>3. ASSUME NEW p \in OraclePayload, execute_deposit_slash(p)
        PROVE  Traced /\ NothingLost
    <2> DEFINE lease == lease_instance[p.lease_id]
               l == [lease EXCEPT !.deposit_status = "Settled", !.active = FALSE]
    <2>1. p.lease_id \in DOMAIN lease_instance /\ lease_instance' = Put(lease_instance, p.lease_id, l)
      BY <1>3 DEF execute_deposit_slash
    <2>2. SameTerms(lease, l)
      BY <1>1, <2>1, LiveLeases, TermsStay
    <2> HIDE DEF l
    <2> QED BY <1>1, <1>3, <2>1, <2>2, SlashTraced, PutLosesNothing
  <1> QED BY <1>2, <1>3, OnlySlashesTouchLeases DEF Slash

LEMMA OracleKeepsBooks ==
    ASSUME OracleInv, BooksInv, [OracleNext]_all_vars
    PROVE  BooksInv'
  <1>1. IInv /\ MatchedInv /\ RentInv
    BY DEF OracleInv, BooksInv
  <1>2. MatchedInv'
    BY <1>1, OracleStepTraced, TracedKeeps
  <1>3. RentInv'
    BY <1>1, NextRent, SlashKeepsRent, OnlySlashesTouchLeases DEF Slash
  <1> QED BY <1>2, <1>3 DEF BooksInv

\* With oracles that slash and report in any order, every early exit is still on its
\* lessor's record and the rent a lease counts is still covered by its payers' balances.
THEOREM BooksHoldUnderSlashes == OracleSpec => [](EarlyExitsTracked /\ RentBooked)
  <1>1. OracleInit => BooksInv
    BY MatchedStart, RentStart DEF OracleInit, BooksInv
  <1>2. OracleInv /\ BooksInv /\ [OracleNext]_all_vars => BooksInv'
    BY OracleKeepsBooks
  <1>3. BooksInv => EarlyExitsTracked /\ RentBooked
    BY MatchedTracked, RentInvBooks DEF BooksInv
  <1> QED BY <1>1, <1>2, <1>3, OracleInvariance, PTL DEF OracleSpec

\* A slash counts as a termination: neither an early exit nor a slash goes through once
\* the early exits of the last 24 hours exceed the threshold share of the portfolio.  With
\* reports between the calls a lease still keeps its terms until it leaves the store, and
\* leaves it in no other way than NoLeaseLost names.
THEOREM LimitsHoldUnderSlashes == OracleSpec => MassExitsBlocked /\ NoLeaseLost
  <1>1. OracleInit => BooksInv
    BY MatchedStart, RentStart DEF OracleInit, BooksInv
  <1>2. OracleInv /\ BooksInv /\ [OracleNext]_all_vars => BooksInv'
    BY OracleKeepsBooks
  <1>3. OracleInv /\ OracleInv' /\ BooksInv /\ [OracleNext]_all_vars =>
          [\A lessor \in Users :
             ExitsNow(lessor) /\ velocity[lessor].total_leases > 0 =>
                Cardinality(RecentExits(lessor)) * 10000
                   < (VELOCITY_THRESHOLD_PERCENT + 1) * velocity[lessor].total_leases]_vars
    <2>1. OracleInv /\ OracleInv' /\ BooksInv => IInv /\ IInv' /\ MatchedInv
      BY DEF OracleInv, BooksInv
    <2>2. OracleInv /\ [OracleNext]_all_vars => RecordsGuarded
      BY OracleStepTraced DEF Traced
    <2> QED BY <2>1, <2>2, ExitGuarded
  <1>4. OracleInv /\ [OracleNext]_all_vars => [NothingLost]_vars
    BY OracleStepTraced
  <1> QED
    BY <1>1, <1>2, <1>3, <1>4, OracleInvariance, PTL
       DEF OracleSpec, MassExitsBlocked, NoLeaseLost
=============================================================================
