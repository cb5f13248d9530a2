------------------------ MODULE LeaseContractProofs ------------------------
(***************************************************************************)
(* Proofs about LeaseContract, for any users, ids, amounts and dates, any  *)
(* window and threshold, and any initial balances.                         *)
(***************************************************************************)
EXTENDS LeaseContract, SumTheorems, FiniteSetTheorems, TLAPS

-----------------------------------------------------------------------------
(***************************************************************************)
(* The inductive invariant, one part per group of variables.               *)
(***************************************************************************)
\* The late fees of a lease are exact at time t.
ExactFees(lease, t) ==
    /\ lease.debt = FeesOf(lease)
    /\ lease.flat_fee_applied => lease.grace_period_end < t
    /\ lease.seconds_late_charged > 0 =>
          lease.grace_period_end + lease.seconds_late_charged <= t

\* No function configures a penalty, so the payouts of an early exit are known.
NoPenalty(lease) == lease.early_termination_fee_bps = None /\ lease.fixed_penalty = None

\* A proposal nobody disputed: a dispute takes a lease out of its pending state.  And no
\* lease waits for the DAO.
Undisputed(lease) ==
    /\ lease.status = "Pending" => lease.deposit_status # "Disputed"
    /\ lease.status # "DaoArbitration"

GoodLease(lease, t) ==
    lease \in LeaseInstance /\ ExactFees(lease, t) /\ NoPenalty(lease) /\ Undisputed(lease)

GoodEnding(h) ==
    \/ h.lease.deposit_status = "Settled" /\ h.lease.end_date <= h.terminated_at
    \/ /\ h.lease.deposit_status = "Settled" /\ h.lease.status = "Terminated"
       /\ ~h.lease.active /\ h.lease.start_date <= h.terminated_at
       /\ h.terminated_at <= h.lease.end_date
    \/ /\ h.terminated_by = Contract
       /\ h.lease.status = "Terminated" /\ ~h.lease.active
       /\ h.lease.buyout_price # None
       /\ h.lease.cumulative_payments >= h.lease.buyout_price

StoreInv ==
    /\ DOMAIN lease_instance \subseteq Nat
    /\ \A id \in DOMAIN lease_instance : GoodLease(lease_instance[id], now)

ArchiveInv ==
    /\ DOMAIN historical_lease \subseteq Nat
    /\ \A id \in DOMAIN historical_lease :
          historical_lease[id] \in HistoricalLease /\ GoodEnding(historical_lease[id])
    /\ historical_index \in Seq(Nat)
    /\ HistoryIndexed

SettingsInv ==
    /\ admin \in Users \cup {None}
    /\ platform_fee \in [amount : Int, recipient : Holders] \cup {None}
    /\ kyc_provider \in (SUBSET Users) \cup {None}
    /\ asset_allowed \in BOOLEAN

BookInv ==
    /\ authorized_payer \subseteq Nat \X Users
    /\ DOMAIN roommate_balance \subseteq Nat \X Users
    /\ \A k \in DOMAIN roommate_balance : roommate_balance[k] \in Nat

VelocityInv ==
    /\ DOMAIN velocity \subseteq Users
    /\ \A u \in DOMAIN velocity : velocity[u] \in VelocityTracker

PaidInv ==
    /\ DOMAIN lease_instance \subseteq DOMAIN paid_out
    /\ \A id \in DOMAIN paid_out : paid_out[id] \in Nat

IInv ==
    /\ now \in Nat /\ created \in Nat /\ tripped \subseteq Users
    /\ balance \in [Holders -> Nat]
    /\ SettingsInv /\ StoreInv /\ ArchiveInv /\ BookInv /\ VelocityInv /\ PaidInv

\* The inductive invariant contains the properties the model checker checks.
LEMMA InvariantImplies ==
    IInv => TypeOK /\ LateFeesExact /\ ArchiveJustified /\ HistoryIndexed
<1> SUFFICES ASSUME IInv
             PROVE  TypeOK /\ LateFeesExact /\ ArchiveJustified /\ HistoryIndexed
  OBVIOUS
<1>1. TypeOK
  BY DEF IInv, TypeOK, SettingsInv, StoreInv, ArchiveInv, BookInv, VelocityInv, PaidInv,
         GoodLease
<1>2. LateFeesExact
  BY DEF IInv, StoreInv, GoodLease, ExactFees, LateFeesExact
<1>3. ArchiveJustified
  BY DEF IInv, ArchiveInv, GoodEnding, ArchiveJustified
<1> QED
  BY <1>1, <1>2, <1>3 DEF IInv, ArchiveInv

-----------------------------------------------------------------------------
(***************************************************************************)
(* Updates of functions, and the token.                                    *)
(***************************************************************************)
LEMMA PutFacts ==
    ASSUME NEW f, NEW k, NEW v
    PROVE  /\ DOMAIN Put(f, k, v) = DOMAIN f \cup {k}
           /\ Put(f, k, v)[k] = v
           /\ \A x \in DOMAIN f \ {k} : Put(f, k, v)[x] = f[x]
BY DEF Put

LEMMA DropFacts ==
    ASSUME NEW f, NEW k
    PROVE  /\ DOMAIN Drop(f, k) = DOMAIN f \ {k}
           /\ \A x \in DOMAIN f \ {k} : Drop(f, k)[x] = f[x]
BY DEF Drop

LEMMA QuotType ==
    ASSUME NEW a \in Int, NEW b \in Nat \ {0}
    PROVE  Quot(a, b) \in Int /\ (a \in Nat => Quot(a, b) = a \div b)
BY DEF Quot

\* A transfer the token accepts leaves every balance non-negative.
LEMMA TransferType ==
    ASSUME NEW b \in [Holders -> Nat], NEW from \in Holders, NEW to \in Holders,
           NEW amount \in Int, CanTransfer(b, from, amount)
    PROVE  transfer(b, from, to, amount) \in [Holders -> Nat]
<1>1. CASE from = to
  BY <1>1 DEF transfer
<1>2. CASE from # to
  <2> DEFINE x == b[from] - amount
             y == b[to] + amount
  <2>1. x \in Nat /\ y \in Nat
    BY DEF CanTransfer
  <2>2. transfer(b, from, to, amount) = [b EXCEPT ![from] = x, ![to] = y]
    BY <1>2 DEF transfer
  <2> HIDE DEF x, y
  <2> QED
    BY <2>1, <2>2
<1> QED
  BY <1>1, <1>2

LEMMA PayType ==
    ASSUME NEW b \in [Holders -> Nat], NEW from \in Holders, NEW to \in Holders,
           NEW amount \in Int, CanPay(b, from, amount)
    PROVE  pay(b, from, to, amount) \in [Holders -> Nat]
BY TransferType DEF CanPay, pay

LEMMA AppendIndex ==
    ASSUME NEW s \in Seq(Nat), NEW id \in Nat
    PROVE  /\ Append(s, id) \in Seq(Nat)
           /\ {Append(s, id)[i] : i \in DOMAIN Append(s, id)}
                 = {s[i] : i \in DOMAIN s} \cup {id}
<1>1. /\ Append(s, id) \in Seq(Nat)
      /\ DOMAIN Append(s, id) = 1..(Len(s) + 1) /\ DOMAIN s = 1..Len(s) /\ Len(s) \in Nat
      /\ \A i \in 1..Len(s) : Append(s, id)[i] = s[i]
      /\ Append(s, id)[Len(s) + 1] = id
  OBVIOUS
<1> QED
  BY <1>1

LEMMA MinPair ==
    ASSUME NEW a \in Int, NEW b \in Int
    PROVE  Min({a, b}) \in {a, b} /\ Max({a, b}) \in {a, b} /\ Max({a, b}) >= b
<1>1. \E x \in {a, b} : \A y \in {a, b} : x <= y
  OBVIOUS
<1>2. \E x \in {a, b} : \A y \in {a, b} : x >= y
  OBVIOUS
<1> QED
  BY <1>1, <1>2 DEF Min, Max

-----------------------------------------------------------------------------
(***************************************************************************)
(* The records the actions store.                                          *)
(***************************************************************************)
LEMMA SameFees ==
    ASSUME NEW l, NEW t \in Nat, GoodLease(l, t), NEW m \in LeaseInstance,
           m.debt = l.debt, m.flat_fee_applied = l.flat_fee_applied,
           m.seconds_late_charged = l.seconds_late_charged,
           m.late_fee_flat = l.late_fee_flat, m.late_fee_per_sec = l.late_fee_per_sec,
           m.grace_period_end = l.grace_period_end,
           m.early_termination_fee_bps = l.early_termination_fee_bps,
           m.fixed_penalty = l.fixed_penalty,
           \/ m.status = l.status /\ m.deposit_status = l.deposit_status
           \/ m.status # "Pending" \/ m.deposit_status # "Disputed",
           m.status = l.status \/ m.status # "DaoArbitration"
    PROVE  GoodLease(m, t)
BY DEF GoodLease, ExactFees, FeesOf, NoPenalty, Undisputed

\* Status, deposit status and the active flag may change, but not back to pending.
LEMMA Remarked ==
    ASSUME NEW l, NEW t \in Nat, GoodLease(l, t),
           NEW s \in LeaseStatus \ {"Pending", "DaoArbitration"},
           NEW d \in DepositStatus, NEW a \in BOOLEAN
    PROVE  /\ d # "Disputed" => GoodLease([l EXCEPT !.deposit_status = d], t)
           /\ GoodLease([l EXCEPT !.status = s, !.deposit_status = d], t)
           /\ GoodLease([l EXCEPT !.status = s, !.active = a], t)
           /\ GoodLease([l EXCEPT !.active = a], t)
<1>0. l \in LeaseInstance
  BY DEF GoodLease
<1>1. [l EXCEPT !.deposit_status = d] \in LeaseInstance
  BY <1>0 DEF LeaseInstance
<1>2. d # "Disputed" => GoodLease([l EXCEPT !.deposit_status = d], t)
  BY <1>0, <1>1, SameFees DEF LeaseInstance
<1>3. [l EXCEPT !.status = s, !.deposit_status = d] \in LeaseInstance
  BY <1>0 DEF LeaseInstance
<1>4. GoodLease([l EXCEPT !.status = s, !.deposit_status = d], t)
  BY <1>0, <1>3, SameFees DEF LeaseInstance
<1>5. [l EXCEPT !.status = s, !.active = a] \in LeaseInstance
  BY <1>0 DEF LeaseInstance
<1>6. GoodLease([l EXCEPT !.status = s, !.active = a], t)
  BY <1>0, <1>5, SameFees DEF LeaseInstance
<1>7. [l EXCEPT !.active = a] \in LeaseInstance
  BY <1>0 DEF LeaseInstance
<1>8. GoodLease([l EXCEPT !.active = a], t)
  BY <1>0, <1>7, SameFees DEF LeaseInstance
<1> QED
  BY <1>2, <1>4, <1>6, <1>8

LEMMA EndedLease ==
    ASSUME NEW l, NEW t \in Nat, GoodLease(l, t)
    PROVE  /\ GoodLease(ended(l), t) /\ GoodLease(disputed(l), t)
           /\ GoodLease(closed_by_buyout(l), t)
           /\ GoodLease([ended(l) EXCEPT !.active = FALSE], t)
<1>0. /\ {"Terminated", "Disputed"} \subseteq LeaseStatus \ {"Pending", "DaoArbitration"}
      /\ {"Settled", "Disputed"} \subseteq DepositStatus /\ FALSE \in BOOLEAN
  BY DEF LeaseStatus, DepositStatus
<1>1. GoodLease(ended(l), t)
  BY <1>0, Remarked DEF ended
<1>2. GoodLease(disputed(l), t)
  BY <1>0, Remarked DEF disputed
<1>3. GoodLease(closed_by_buyout(l), t)
  BY <1>0, Remarked DEF closed_by_buyout
<1>4. GoodLease([ended(l) EXCEPT !.active = FALSE], t)
  BY <1>0, <1>1, Remarked
<1> QED
  BY <1>1, <1>2, <1>3, <1>4

LEMMA PaidLease ==
    ASSUME NEW l, NEW t \in Nat, GoodLease(l, t), NEW amount \in Int
    PROVE  GoodLease(with_payment(l, amount), t)
<1> DEFINE c == l.cumulative_payments + amount
           r == l.rent_paid + amount
<1>0. l \in LeaseInstance
  BY DEF GoodLease
<1>1. c \in Int /\ r \in Int
  BY <1>0 DEF LeaseInstance
<1>2. with_payment(l, amount) = [l EXCEPT !.cumulative_payments = c, !.rent_paid = r]
  BY DEF with_payment
<1> HIDE DEF c, r
<1>3. [l EXCEPT !.cumulative_payments = c, !.rent_paid = r] \in LeaseInstance
  BY <1>0, <1>1 DEF LeaseInstance
<1>4. GoodLease([l EXCEPT !.cumulative_payments = c, !.rent_paid = r], t)
  BY <1>0, <1>3, SameFees DEF LeaseInstance
<1> QED
  BY <1>2, <1>4

LEMMA WithdrawnLease ==
    ASSUME NEW l, NEW t \in Nat, GoodLease(l, t)
    PROVE  GoodLease(withdrawn(l), t)
<1> DEFINE w == l.rent_withdrawn + (l.rent_paid - l.rent_withdrawn)
<1>0. l \in LeaseInstance
  BY DEF GoodLease
<1>1. w \in Int
  BY <1>0 DEF LeaseInstance
<1>2. withdrawn(l) = [l EXCEPT !.rent_withdrawn = w]
  BY DEF withdrawn
<1> HIDE DEF w
<1>3. [l EXCEPT !.rent_withdrawn = w] \in LeaseInstance
  BY <1>0, <1>1 DEF LeaseInstance
<1>4. GoodLease([l EXCEPT !.rent_withdrawn = w], t)
  BY <1>0, <1>3, SameFees DEF LeaseInstance
<1> QED
  BY <1>2, <1>4

\* The fields the setters and the maintenance calls write.
LEMMA ChangedLease ==
    ASSUME NEW l, NEW t \in Nat, GoodLease(l, t),
           NEW price \in Int, NEW u \in Users, NEW m \in MaintenanceStatus
    PROVE  /\ GoodLease([l EXCEPT !.buyout_price = price], t)
           /\ GoodLease([l EXCEPT !.withdrawal_address = u], t)
           /\ GoodLease([l EXCEPT !.inspector = u], t)
           /\ GoodLease([l EXCEPT !.maintenance_status = m], t)
<1>0. l \in LeaseInstance
  BY DEF GoodLease
<1>1. [l EXCEPT !.buyout_price = price] \in LeaseInstance
  BY <1>0 DEF LeaseInstance
<1>2. GoodLease([l EXCEPT !.buyout_price = price], t)
  BY <1>0, <1>1, SameFees DEF LeaseInstance
<1>3. [l EXCEPT !.withdrawal_address = u] \in LeaseInstance
  BY <1>0 DEF LeaseInstance
<1>4. GoodLease([l EXCEPT !.withdrawal_address = u], t)
  BY <1>0, <1>3, SameFees DEF LeaseInstance
<1>5. [l EXCEPT !.inspector = u] \in LeaseInstance
  BY <1>0 DEF LeaseInstance
<1>6. GoodLease([l EXCEPT !.inspector = u], t)
  BY <1>0, <1>5, SameFees DEF LeaseInstance
<1>7. [l EXCEPT !.maintenance_status = m] \in LeaseInstance
  BY <1>0 DEF LeaseInstance
<1>8. GoodLease([l EXCEPT !.maintenance_status = m], t)
  BY <1>0, <1>7, SameFees DEF LeaseInstance
<1> QED
  BY <1>2, <1>4, <1>6, <1>8

\* Charging late fees keeps them exact: the flat fee once, each second once.
LEMMA ChargedLease ==
    ASSUME NEW l, NEW t \in Nat, GoodLease(l, t), t > l.grace_period_end
    PROVE  GoodLease(with_seconds_late(with_flat_fee(l), t - l.grace_period_end), t)
<1>0. l \in LeaseInstance
  BY DEF GoodLease
<1> DEFINE m == with_flat_fee(l)
<1>1. GoodLease(m, t) /\ m.grace_period_end = l.grace_period_end /\ m.flat_fee_applied = TRUE
  <2>1. CASE l.flat_fee_applied
    BY <1>0, <2>1 DEF with_flat_fee, LeaseInstance
  <2>2. CASE ~l.flat_fee_applied
    <3> DEFINE d == l.debt + l.late_fee_flat
    <3>1. d \in Int
      BY <1>0 DEF LeaseInstance
    <3>2. m = [l EXCEPT !.debt = d, !.flat_fee_applied = TRUE]
      BY <2>2 DEF with_flat_fee
    <3>3. d = l.late_fee_flat + l.seconds_late_charged * l.late_fee_per_sec
      <4>1. l.debt = 0 + l.seconds_late_charged * l.late_fee_per_sec
        BY <2>2 DEF GoodLease, ExactFees, FeesOf
      <4>2. l.seconds_late_charged * l.late_fee_per_sec \in Int /\ l.late_fee_flat \in Int
        BY <1>0 DEF LeaseInstance
      <4> HIDE DEF m
      <4> QED
        BY <4>1, <4>2
    <3> HIDE DEF d, m
    <3>4. m \in LeaseInstance
      BY <1>0, <3>1, <3>2 DEF LeaseInstance
    <3>5. /\ m.debt = d /\ m.flat_fee_applied = TRUE
          /\ m.late_fee_flat = l.late_fee_flat /\ m.late_fee_per_sec = l.late_fee_per_sec
          /\ m.seconds_late_charged = l.seconds_late_charged
          /\ m.grace_period_end = l.grace_period_end
          /\ m.early_termination_fee_bps = l.early_termination_fee_bps
          /\ m.fixed_penalty = l.fixed_penalty
          /\ m.status = l.status /\ m.deposit_status = l.deposit_status
      BY <1>0, <3>2 DEF LeaseInstance
    <3>6. m.debt = FeesOf(m)
      BY <3>3, <3>5 DEF FeesOf
    <3> QED
      BY <3>4, <3>5, <3>6 DEF GoodLease, ExactFees, NoPenalty, Undisputed
  <2> QED
    BY <2>1, <2>2, <1>0 DEF LeaseInstance
<1> HIDE DEF m
<1> DEFINE s == t - l.grace_period_end
<1>2. m \in LeaseInstance /\ s \in Nat
  BY <1>0, <1>1 DEF LeaseInstance, GoodLease
<1>3. CASE s <= m.seconds_late_charged
  BY <1>1, <1>3 DEF with_seconds_late, m
<1>4. CASE ~(s <= m.seconds_late_charged)
  <2> DEFINE d == m.debt + (s - m.seconds_late_charged) * m.late_fee_per_sec
             n == [m EXCEPT !.debt = d, !.seconds_late_charged = s]
  <2>1. with_seconds_late(m, s) = n
    BY <1>4 DEF with_seconds_late
  <2>2. d = m.late_fee_flat + s * m.late_fee_per_sec
    <3>1. m.debt = m.late_fee_flat + m.seconds_late_charged * m.late_fee_per_sec
      BY <1>1 DEF GoodLease, ExactFees, FeesOf
    <3>2. /\ m.late_fee_flat \in Int /\ m.late_fee_per_sec \in Int
          /\ m.seconds_late_charged \in Int
      BY <1>2 DEF LeaseInstance
    <3>3. \A a, b, c, f \in Int : (a + b * f) + (c - b) * f = a + c * f
      OBVIOUS
    <3> QED
      BY <3>1, <3>2, <3>3, <1>2
  <2>3. d \in Int
    BY <1>2 DEF LeaseInstance
  <2>4. s + l.grace_period_end = t
    BY <1>0 DEF LeaseInstance
  <2> HIDE DEF d, s
  <2>5. n \in LeaseInstance
    BY <1>2, <2>3 DEF LeaseInstance
  <2>6. /\ n.debt = d /\ n.flat_fee_applied = TRUE
        /\ n.late_fee_flat = m.late_fee_flat /\ n.late_fee_per_sec = m.late_fee_per_sec
        /\ n.seconds_late_charged = s
        /\ n.grace_period_end = m.grace_period_end
        /\ n.early_termination_fee_bps = m.early_termination_fee_bps
        /\ n.fixed_penalty = m.fixed_penalty
        /\ n.status = m.status /\ n.deposit_status = m.deposit_status
    BY <1>1, <1>2 DEF LeaseInstance
  <2> HIDE DEF n
  <2>7. n.debt = FeesOf(n)
    BY <2>2, <2>6 DEF FeesOf
  <2>8. n.grace_period_end + n.seconds_late_charged <= t /\ n.grace_period_end < t
    <3>1. l.grace_period_end \in Nat /\ s \in Nat
      BY <1>0, <1>2 DEF LeaseInstance
    <3>2. n.grace_period_end = l.grace_period_end /\ n.seconds_late_charged = s
      BY <2>6, <1>1
    <3> QED
      BY <3>1, <3>2, <2>4
  <2>9. GoodLease(n, t)
    BY <2>5, <2>6, <2>7, <2>8, <1>1 DEF GoodLease, ExactFees, NoPenalty, Undisputed
  <2> QED
    BY <2>1, <2>9 DEF s, m
<1> QED
  BY <1>3, <1>4

LEMMA FreshLease ==
    ASSUME NEW t, NEW locked \in Int, NEW time \in Nat,
           NEW status \in LeaseStatus \ {"DaoArbitration"},
           t.landlord \in Users, t.tenant \in Users, t.deposit_amount \in Int,
           t.start_date \in Nat, t.end_date \in Nat, t.rent_per_sec \in Int,
           t.grace_period_end \in Nat, t.late_fee_flat \in Int,
           t.late_fee_per_sec \in Int, t.arbitrators \in SUBSET Users
    PROVE  GoodLease(NewLease(t, locked, status), time)
<1> DEFINE l == NewLease(t, locked, status)
<1>1. l \in LeaseInstance
  BY DEF NewLease, LeaseInstance, DepositStatus, MaintenanceStatus
<1>2. l.debt = FeesOf(l)
  <2>1. /\ l.debt = 0 /\ l.flat_fee_applied = FALSE /\ l.seconds_late_charged = 0
        /\ l.late_fee_per_sec = t.late_fee_per_sec
    BY DEF NewLease
  <2> HIDE DEF l
  <2> QED
    BY <2>1 DEF FeesOf
<1>3. ExactFees(l, time)
  BY <1>2 DEF ExactFees, NewLease
<1>4. NoPenalty(l) /\ Undisputed(l)
  BY DEF NoPenalty, Undisputed, NewLease
<1> HIDE DEF l
<1> QED
  BY <1>1, <1>3, <1>4 DEF GoodLease, l

-----------------------------------------------------------------------------
(***************************************************************************)
(* Steps on the store and on the archive.                                  *)
(***************************************************************************)
\* Storing a good record under a number keeps the store good.
LEMMA PutStore ==
    ASSUME StoreInv, NEW id \in Nat, NEW l, GoodLease(l, now), now' = now,
           lease_instance' = Put(lease_instance, id, l)
    PROVE  StoreInv'
<1>1. DOMAIN lease_instance' = DOMAIN lease_instance \cup {id}
  BY PutFacts
<1>2. ASSUME NEW x \in DOMAIN lease_instance'
      PROVE  GoodLease(lease_instance'[x], now)
  BY <1>1, <1>2 DEF StoreInv, Put
<1> QED
  BY <1>1, <1>2 DEF StoreInv

\* Every function that only rewrites the record of one lease.
LEMMA SaveStep ==
    ASSUME IInv, NEW id \in DOMAIN lease_instance, NEW l, GoodLease(l, now),
           save_lease_instance(id, l)
    PROVE  IInv'
<1> USE DEF save_lease_instance, settings, archive, rent_book, observed
<1>1. StoreInv'
  BY PutStore DEF IInv, StoreInv
<1>2. PaidInv'
  BY DEF IInv, PaidInv, Put
<1>3. SettingsInv' /\ ArchiveInv' /\ BookInv' /\ VelocityInv'
  BY DEF IInv, SettingsInv, ArchiveInv, HistoryIndexed, BookInv, VelocityInv
<1> QED
  BY <1>1, <1>2, <1>3 DEF IInv

\* Moving a lease into the archive for one of the three reasons.
LEMMA ArchiveStep ==
    ASSUME StoreInv, ArchiveInv, now \in Nat, now' = now,
           NEW id \in DOMAIN lease_instance, NEW l \in LeaseInstance, NEW by \in Holders,
           GoodEnding([lease |-> l, terminated_by |-> by, terminated_at |-> now]),
           archive_lease(id, l, by)
    PROVE  StoreInv' /\ ArchiveInv' /\ DOMAIN lease_instance' \subseteq DOMAIN lease_instance
<1> DEFINE h == [lease |-> l, terminated_by |-> by, terminated_at |-> now]
<1>1. id \in Nat
  BY DEF StoreInv
<1>2. h \in HistoricalLease
  BY DEF HistoricalLease
<1>3. /\ historical_lease' = Put(historical_lease, id, h)
      /\ historical_index' = Append(historical_index, id)
      /\ lease_instance' = Drop(lease_instance, id)
  BY DEF archive_lease
<1>4. GoodEnding(h)
  OBVIOUS
<1> HIDE DEF h
<1>5. StoreInv' /\ DOMAIN lease_instance' \subseteq DOMAIN lease_instance
  BY <1>3, DropFacts DEF StoreInv
<1>6. DOMAIN historical_lease' = DOMAIN historical_lease \cup {id}
  BY <1>3, PutFacts
<1>7. ASSUME NEW x \in DOMAIN historical_lease'
      PROVE  historical_lease'[x] \in HistoricalLease /\ GoodEnding(historical_lease'[x])
  BY <1>2, <1>3, <1>4, <1>6, <1>7 DEF ArchiveInv, Put
<1>8. historical_index' \in Seq(Nat)
  BY <1>1, <1>3, AppendIndex DEF ArchiveInv
<1>9. HistoryIndexed'
  <2>1. {historical_index'[i] : i \in DOMAIN historical_index'}
           = {historical_index[i] : i \in DOMAIN historical_index} \cup {id}
    <3>1. historical_index \in Seq(Nat)
      BY DEF ArchiveInv
    <3>2. {Append(historical_index, id)[i] : i \in DOMAIN Append(historical_index, id)}
             = {historical_index[i] : i \in DOMAIN historical_index} \cup {id}
      BY <3>1, <1>1, AppendIndex, Zenon
    <3> QED
      BY <3>2, <1>3, Zenon
  <2> QED
    BY <2>1, <1>6 DEF ArchiveInv, HistoryIndexed
<1> QED
  BY <1>1, <1>5, <1>6, <1>7, <1>8, <1>9 DEF ArchiveInv

LEMMA TrackerType ==
    ASSUME VelocityInv, NEW u \in Users, NEW t \in Nat
    PROVE  /\ initialize_lessor(u) \in VelocityTracker
           /\ grow_portfolio(initialize_lessor(u)) \in VelocityTracker
           /\ shrink_portfolio(record_termination(initialize_lessor(u), t)) \in VelocityTracker
<1>1. NewTracker \in VelocityTracker
  BY DEF NewTracker, VelocityTracker
<1>2. initialize_lessor(u) \in VelocityTracker
  BY <1>1 DEF initialize_lessor, VelocityInv
<1>3. ASSUME NEW k \in VelocityTracker
      PROVE  grow_portfolio(k) \in VelocityTracker /\ shrink_portfolio(k) \in VelocityTracker
  <2>1. ASSUME NEW n \in Nat PROVE [k EXCEPT !.total_leases = n] \in VelocityTracker
    BY DEF VelocityTracker
  <2>2. k.total_leases \in Nat
    BY DEF VelocityTracker
  <2> QED
    BY <2>1, <2>2 DEF grow_portfolio, shrink_portfolio
<1>4. ASSUME NEW k \in VelocityTracker
      PROVE  record_termination(k, t) \in VelocityTracker
  <2>1. ASSUME NEW n \in Nat, NEW s \in Seq(Nat)
        PROVE  [k EXCEPT !.last_termination_times = s, !.terminations_24h = n]
                  \in VelocityTracker
    BY DEF VelocityTracker
  <2>2. k.terminations_24h + 1 \in Nat /\ Append(k.last_termination_times, t) \in Seq(Nat)
    BY DEF VelocityTracker
  <2> QED
    BY <2>1, <2>2 DEF record_termination
<1> QED
  BY <1>2, <1>3, <1>4

LEMMA PutVelocity ==
    ASSUME VelocityInv, NEW u \in Users, NEW k \in VelocityTracker,
           velocity' = Put(velocity, u, k)
    PROVE  VelocityInv'
BY DEF VelocityInv, Put

LEMMA PutPaid ==
    ASSUME PaidInv, NEW id, NEW n \in Nat, paid_out' = Put(paid_out, id, n),
           DOMAIN lease_instance' \subseteq DOMAIN lease_instance \cup {id}
    PROVE  PaidInv'
BY DEF PaidInv, Put

LEMMA AddPaid ==
    ASSUME PaidInv, NEW id \in DOMAIN lease_instance, NEW n \in Nat,
           paid_out' = [paid_out EXCEPT ![id] = n],
           DOMAIN lease_instance' \subseteq DOMAIN lease_instance
    PROVE  PaidInv'
BY DEF PaidInv

-----------------------------------------------------------------------------
(***************************************************************************)
(* Each group of actions keeps the invariant.                              *)
(***************************************************************************)
LEMMA InitEstablishes == Init => IInv
<1> SUFFICES ASSUME Init PROVE IInv
  OBVIOUS
<1>1. << >> \in Seq(Nat) /\ DOMAIN << >> = {}
  OBVIOUS
<1>2. StoreInv /\ BookInv /\ VelocityInv /\ PaidInv
  BY <1>1 DEF Init, StoreInv, BookInv, VelocityInv, PaidInv
<1>3. ArchiveInv
  BY <1>1 DEF Init, ArchiveInv, HistoryIndexed
<1>4. SettingsInv
  BY DEF Init, SettingsInv
<1> QED
  BY <1>2, <1>3, <1>4, ContractInputAssumption, ContractBoundAssumption DEF Init, IInv

LEMMA TickKeeps == IInv /\ Tick => IInv'
<1> SUFFICES ASSUME IInv, Tick PROVE IInv'
  OBVIOUS
<1> USE DEF Tick, settings, archive, rent_book, observed
<1>1. now' \in Nat /\ now \in Nat /\ now' > now
  BY DEF IInv
<1>2. ASSUME NEW l, GoodLease(l, now) PROVE GoodLease(l, now')
  <2>1. l.grace_period_end \in Nat /\ l.seconds_late_charged \in Nat
    BY <1>2 DEF GoodLease, LeaseInstance
  <2> QED
    BY <1>1, <1>2, <2>1 DEF GoodLease, ExactFees
<1>3. StoreInv'
  BY <1>2 DEF IInv, StoreInv
<1>4. SettingsInv' /\ ArchiveInv' /\ BookInv' /\ VelocityInv' /\ PaidInv'
  BY DEF IInv, SettingsInv, ArchiveInv, HistoryIndexed, BookInv, VelocityInv, PaidInv
<1> QED
  BY <1>1, <1>3, <1>4 DEF IInv

\* What is unchanged when the store, the archive and the books are.
LEMMA Frame ==
    ASSUME IInv
    PROVE  /\ UNCHANGED settings => SettingsInv'
           /\ UNCHANGED archive => ArchiveInv'
           /\ UNCHANGED rent_book => BookInv'
           /\ UNCHANGED velocity => VelocityInv'
           /\ UNCHANGED <<now, lease_instance>> => StoreInv'
           /\ UNCHANGED <<lease_instance, paid_out>> => PaidInv'
BY DEF IInv, SettingsInv, ArchiveInv, HistoryIndexed, BookInv, VelocityInv, StoreInv, PaidInv,
       settings, archive, rent_book

LEMMA SettingsKeep == IInv /\ Settings => IInv'
<1> SUFFICES ASSUME IInv, Settings PROVE IInv'
  OBVIOUS
<1>0. SettingsInv
  BY DEF IInv
<1>a. UNCHANGED <<now, lease_instance, archive, rent_book, velocity, balance, observed>>
  BY DEF Settings, initialize, set_admin, set_platform_fee, set_kyc_provider, add_allowed_asset
<1>b. SettingsInv'
  <2>1. ASSUME NEW a \in Admins, initialize(a) \/ set_admin(a) PROVE SettingsInv'
    BY <1>0, <2>1, AddressAssumption, ContractInputAssumption
       DEF SettingsInv, initialize, set_admin
  <2>2. ASSUME NEW fee \in FeeConfigs, set_platform_fee(fee) PROVE SettingsInv'
    BY <1>0, <2>2, AddressAssumption, ContractInputAssumption DEF SettingsInv, set_platform_fee
  <2>3. ASSUME NEW provider \in KycProviders, set_kyc_provider(provider) PROVE SettingsInv'
    BY <1>0, <2>3, AddressAssumption, ContractInputAssumption DEF SettingsInv, set_kyc_provider
  <2>4. ASSUME add_allowed_asset PROVE SettingsInv'
    BY <1>0, <2>4 DEF SettingsInv, add_allowed_asset
  <2> QED
    BY <2>1, <2>2, <2>3, <2>4 DEF Settings
<1>1. /\ UNCHANGED <<now, lease_instance, archive, rent_book, velocity, balance, observed>>
      /\ SettingsInv'
  BY <1>a, <1>b
<1>2. UNCHANGED paid_out
  BY <1>1 DEF observed
<1>3. StoreInv' /\ ArchiveInv' /\ BookInv' /\ VelocityInv' /\ PaidInv'
  BY <1>1, <1>2, Frame
<1> QED
  BY <1>1, <1>3 DEF IInv, observed

LEMMA CreationKeeps == IInv /\ Creation => IInv'
<1> SUFFICES ASSUME IInv, Creation PROVE IInv'
  OBVIOUS
<1>0. now \in Nat /\ created \in Nat /\ StoreInv /\ VelocityInv /\ PaidInv
  BY DEF IInv
<1>1. ASSUME NEW id \in Ids, NEW p \in CreateParams, NEW locked \in execute_deposit_swap(p),
             create_lease_instance(id, p, locked)
      PROVE  IInv'
  <2>0. id \in Nat /\ p \in CreateLeaseParams
    BY ContractInputAssumption
  <2>1. locked \in Int
    <3> DEFINE swapped == Quot(p.security_deposit * 9900, 10000)
    <3>1. p.security_deposit \in Int
      BY <2>0 DEF CreateLeaseParams
    <3>2. swapped \in Int
      <4>1. p.security_deposit * 9900 \in Int
        BY <3>1
      <4> QED
        BY <4>1, QuotType
    <3>3. locked = p.security_deposit \/ locked \in DexOutputs \/ locked = swapped
      BY DEF execute_deposit_swap
    <3>4. DexOutputs \subseteq Int
      BY ContractInputAssumption
    <3> HIDE DEF swapped
    <3> QED
      BY <3>1, <3>2, <3>3, <3>4, Zenon
  <2>2. /\ p.landlord \in Users /\ p.tenant \in Users /\ p.deposit_amount \in Int
        /\ p.start_date \in Nat /\ p.end_date \in Nat /\ p.rent_per_sec \in Int
        /\ p.grace_period_end \in Nat /\ p.late_fee_flat \in Int
        /\ p.late_fee_per_sec \in Int /\ p.arbitrators \in SUBSET Users
    BY <2>0 DEF CreateLeaseParams
  <2>3. GoodLease(NewLease(p, locked, "Pending"), now)
    BY <1>0, <2>1, <2>2, FreshLease DEF LeaseStatus
  <2>4. StoreInv'
    BY <1>0, <1>1, <2>0, <2>3, PutStore DEF create_lease_instance
  <2>5. VelocityInv'
    BY <1>0, <1>1, <2>2, TrackerType, PutVelocity DEF create_lease_instance
  <2>6. PaidInv'
    <3>1. DOMAIN lease_instance' = DOMAIN lease_instance \cup {id}
      BY <1>1, PutFacts DEF create_lease_instance
    <3> QED
      BY <1>0, <1>1, <3>1, PutPaid DEF create_lease_instance
  <2>7. UNCHANGED <<now, settings, archive, rent_book, balance, tripped>>
    BY <1>1 DEF create_lease_instance
  <2>8. SettingsInv' /\ ArchiveInv' /\ BookInv'
    BY <2>7, Frame
  <2>9. created' \in Nat
    BY <1>0, <1>1 DEF create_lease_instance
  <2> QED
    BY <2>4, <2>5, <2>6, <2>7, <2>8, <2>9 DEF IInv
<1>2. ASSUME NEW p \in BillingParams, create_lease_with_continuous_billing(p)
      PROVE  IInv'
  <2> DEFINE terms == [landlord |-> p.landlord, tenant |-> p.tenant,
                       deposit_amount |-> p.deposit_amount, rent_per_sec |-> p.rent_per_sec,
                       start_date |-> now, end_date |-> now + p.duration,
                       grace_period_end |-> now + p.duration,
                       late_fee_flat |-> 0, late_fee_per_sec |-> 0, arbitrators |-> {}]
             l == NewLease(terms, p.deposit_amount, "Active")
  <2>0. /\ p.landlord \in Users /\ p.tenant \in Users /\ p.deposit_amount \in Int
        /\ p.rent_per_sec \in Int /\ p.duration \in Nat
    BY ContractInputAssumption
  <2>1. /\ terms.landlord \in Users /\ terms.tenant \in Users /\ terms.deposit_amount \in Int
        /\ terms.start_date \in Nat /\ terms.end_date \in Nat /\ terms.rent_per_sec \in Int
        /\ terms.grace_period_end \in Nat /\ terms.late_fee_flat \in Int
        /\ terms.late_fee_per_sec \in Int /\ terms.arbitrators \in SUBSET Users
    BY <1>0, <2>0
  <2>2. /\ lease_instance' = Put(lease_instance, now, l)
        /\ paid_out' = Put(paid_out, now, 0)
        /\ created' = created + 1
        /\ UNCHANGED <<now, settings, archive, rent_book, velocity, balance, tripped>>
    BY <1>2 DEF create_lease_with_continuous_billing
  <2> HIDE DEF terms
  <2>3. GoodLease(l, now)
    BY <1>0, <2>0, <2>1, FreshLease DEF LeaseStatus
  <2> HIDE DEF l
  <2>4. StoreInv'
    BY <1>0, <2>2, <2>3, PutStore
  <2>5. PaidInv'
    <3>1. DOMAIN lease_instance' = DOMAIN lease_instance \cup {now}
      BY <2>2, PutFacts
    <3> QED
      BY <1>0, <2>2, <3>1, PutPaid
  <2>6. SettingsInv' /\ ArchiveInv' /\ BookInv' /\ VelocityInv'
    BY <2>2, Frame
  <2> QED
    BY <1>0, <2>2, <2>4, <2>5, <2>6 DEF IInv
<1> QED
  BY <1>1, <1>2 DEF Creation

\* Rent is paid in, booked to its payer, and may close a lease that is bought out.
LEMMA PaymentKeeps ==
    ASSUME IInv, NEW id \in DOMAIN lease_instance, NEW payer \in Users,
           NEW amount \in Payments, pay_lease_instance_rent(id, payer, amount)
    PROVE  IInv'
<1> DEFINE lease == with_payment(lease_instance[id], amount)
<1>0. /\ now \in Nat /\ id \in Nat /\ amount \in Int /\ amount >= 0
      /\ GoodLease(lease_instance[id], now)
  BY ContractInputAssumption DEF IInv, StoreInv, pay_lease_instance_rent, CanTransfer
<1>1. balance' \in [Holders -> Nat]
  BY <1>0, TransferType DEF IInv, Holders, pay_lease_instance_rent
<1>2. BookInv'
  <2> DEFINE k == <<id, payer>>
             n == amount + (IF k \in DOMAIN roommate_balance THEN roommate_balance[k] ELSE 0)
  <2>1. n \in Nat
    BY <1>0 DEF IInv, BookInv
  <2>2. roommate_balance' = Put(roommate_balance, k, n)
    BY DEF pay_lease_instance_rent, credit_payer
  <2>3. k \in Nat \X Users
    BY <1>0
  <2>4. authorized_payer' = authorized_payer
    BY DEF pay_lease_instance_rent
  <2> HIDE DEF k, n
  <2> QED
    BY <2>1, <2>2, <2>3, <2>4 DEF IInv, BookInv, Put
<1>3. GoodLease(lease, now)
  BY <1>0, PaidLease
<1>4. UNCHANGED <<now, settings, velocity, observed>>
  BY DEF pay_lease_instance_rent
<1>5. /\ bought_out(lease) => archive_lease(id, closed_by_buyout(lease), Contract)
      /\ ~bought_out(lease) => lease_instance' = Put(lease_instance, id, lease)
                                  /\ UNCHANGED archive
  BY DEF pay_lease_instance_rent
<1> HIDE DEF lease
<1>6. StoreInv' /\ ArchiveInv' /\ DOMAIN lease_instance' \subseteq DOMAIN lease_instance
  <2>1. CASE bought_out(lease)
    <3> DEFINE l == closed_by_buyout(lease)
               h == [lease |-> l, terminated_by |-> Contract, terminated_at |-> now]
    <3>1. l \in LeaseInstance
      BY <1>0, <1>3, EndedLease DEF GoodLease
    <3>2. /\ l.status = "Terminated" /\ ~l.active /\ l.buyout_price = lease.buyout_price
          /\ l.cumulative_payments = lease.cumulative_payments
      BY <1>3 DEF closed_by_buyout, GoodLease, LeaseInstance
    <3> HIDE DEF l
    <3>3. GoodEnding(h)
      BY <2>1, <3>2 DEF GoodEnding, bought_out
    <3>4. archive_lease(id, l, Contract)
      BY <1>5, <2>1 DEF l
    <3> QED
      BY <1>0, <1>4, <3>1, <3>3, <3>4, ArchiveStep DEF IInv, Holders
  <2>2. CASE ~bought_out(lease)
    <3>1. ArchiveInv'
      BY <1>5, <2>2, Frame
    <3>2. StoreInv'
      BY <1>0, <1>3, <1>4, <1>5, <2>2, PutStore DEF IInv
    <3>3. DOMAIN lease_instance' = DOMAIN lease_instance \cup {id}
      BY <1>5, <2>2, PutFacts
    <3> QED
      BY <3>1, <3>2, <3>3
  <2> QED
    BY <2>1, <2>2
<1>7. PaidInv'
  BY <1>4, <1>6 DEF IInv, PaidInv, observed
<1>8. SettingsInv' /\ VelocityInv'
  BY <1>4, Frame
<1> QED
  BY <1>1, <1>2, <1>4, <1>6, <1>7, <1>8 DEF IInv, observed

LEMMA RentKeeps ==
    ASSUME IInv, NEW id \in DOMAIN lease_instance, Rent(id)
    PROVE  IInv'
<1>0. now \in Nat /\ id \in Nat /\ GoodLease(lease_instance[id], now)
  BY DEF IInv, StoreInv
<1>1. ASSUME NEW payer \in Users, NEW amount \in Payments,
             pay_lease_instance_rent(id, payer, amount)
      PROVE  IInv'
  BY <1>1, PaymentKeeps
<1>2. ASSUME NEW price \in BuyoutPrices, set_lease_instance_buyout_price(id, price)
      PROVE  IInv'
  <2>1. /\ price \in Int /\ lease_instance[id].landlord \in Users
        /\ "None" \in MaintenanceStatus
    BY <1>0, ContractInputAssumption DEF MaintenanceStatus, GoodLease, LeaseInstance
  <2>2. GoodLease([lease_instance[id] EXCEPT !.buyout_price = price], now)
    BY <1>0, <2>1, ChangedLease
  <2> QED
    BY <1>2, <2>2, SaveStep DEF set_lease_instance_buyout_price
<1>3. ASSUME NEW wallet \in Wallets, set_withdrawal_address(id, wallet)
      PROVE  IInv'
  <2>1. wallet \in Users /\ 0 \in Int /\ "None" \in MaintenanceStatus
    BY AddressAssumption DEF MaintenanceStatus
  <2>2. GoodLease([lease_instance[id] EXCEPT !.withdrawal_address = wallet], now)
    BY <1>0, <2>1, ChangedLease
  <2> QED
    BY <1>3, <2>2, SaveStep DEF set_withdrawal_address
<1>4. CASE withdraw_rent(id)
  BY <1>0, <1>4, WithdrawnLease, SaveStep DEF withdraw_rent
<1>5. ASSUME NEW roommate \in Roommates, add_authorized_payer(id, roommate)
      PROVE  IInv'
  <2>1. roommate \in Users
    BY AddressAssumption
  <2>2. UNCHANGED <<now, settings, lease_instance, archive, roommate_balance, velocity,
                    balance, observed>>
    BY <1>5 DEF add_authorized_payer
  <2>3. BookInv'
    BY <1>0, <1>5, <2>1, <2>2 DEF add_authorized_payer, IInv, BookInv
  <2>4. SettingsInv' /\ StoreInv' /\ ArchiveInv' /\ VelocityInv' /\ PaidInv'
    BY <2>2, Frame DEF observed
  <2> QED
    BY <2>2, <2>3, <2>4 DEF IInv, observed
<1>6. CASE check_tenant_default(id)
  BY <1>0, <1>6, ChargedLease, SaveStep DEF check_tenant_default
<1> QED
  BY <1>1, <1>2, <1>3, <1>4, <1>5, <1>6 DEF Rent

LEMMA MaintenanceKeeps ==
    ASSUME IInv, NEW id \in DOMAIN lease_instance, Maintenance(id)
    PROVE  IInv'
<1>0. now \in Nat /\ GoodLease(lease_instance[id], now)
  BY DEF IInv, StoreInv
<1>1. ASSUME NEW u \in Users, NEW m \in MaintenanceStatus
      PROVE  /\ GoodLease([lease_instance[id] EXCEPT !.inspector = u], now)
             /\ GoodLease([lease_instance[id] EXCEPT !.maintenance_status = m], now)
  BY <1>0, ChangedLease, 0 \in Int
<1>2. ASSUME NEW inspector \in Inspectors, set_inspector(id, inspector)
      PROVE  IInv'
  <2>1. inspector \in Users /\ "None" \in MaintenanceStatus
    BY AddressAssumption DEF MaintenanceStatus
  <2> QED
    BY <1>1, <1>2, <2>1, SaveStep DEF set_inspector
<1>3. ASSUME NEW m \in MaintenanceStatus,
             save_lease_instance(id, [lease_instance[id] EXCEPT !.maintenance_status = m])
      PROVE  IInv'
  <2>1. lease_instance[id].landlord \in Users
    BY <1>0 DEF GoodLease, LeaseInstance
  <2> QED
    BY <1>1, <1>3, <2>1, SaveStep
<1>4. {"Reported", "Fixed", "Verified"} \subseteq MaintenanceStatus
  BY DEF MaintenanceStatus
<1> QED
  BY <1>2, <1>3, <1>4
     DEF Maintenance, report_maintenance_issue, submit_repair_proof, verify_repair

\* Both shares of the deposit leave the contract in one step.
LEMMA ReleaseKeeps ==
    ASSUME IInv, NEW id \in DOMAIN lease_instance, NEW r \in Int, NEW s \in Int,
           mutual_deposit_release(id, r, s)
    PROVE  IInv'
<1> DEFINE b == pay(balance, Contract, lease_instance[id].tenant, r)
           l == [ended(lease_instance[id]) EXCEPT !.active = FALSE]
           n == paid_out[id] + r + s
<1>0. /\ now \in Nat /\ id \in Nat /\ balance \in [Holders -> Nat]
      /\ GoodLease(lease_instance[id], now) /\ paid_out[id] \in Nat
  BY DEF IInv, StoreInv, PaidInv
<1>1. /\ lease_instance[id].tenant \in Holders /\ lease_instance[id].landlord \in Holders
      /\ Contract \in Holders
  BY <1>0 DEF GoodLease, LeaseInstance, Holders
<1>2. r >= 0 /\ s >= 0 /\ (r + s > 0 => balance[Contract] >= r + s)
  BY DEF mutual_deposit_release, valid_release, CanPay, CanTransfer
<1>3. balance[Contract] \in Nat /\ (r > 0 => balance[Contract] >= r)
  BY <1>0, <1>1, <1>2
<1>4. b \in [Holders -> Nat]
  BY <1>0, <1>1, <1>3, PayType DEF CanPay, CanTransfer
<1>5. b[Contract] >= balance[Contract] - r
  BY <1>0, <1>1, <1>2, <1>3 DEF pay, transfer
<1>6. /\ balance' = pay(b, Contract, lease_instance[id].landlord, s)
      /\ lease_instance' = Put(lease_instance, id, l)
      /\ paid_out' = [paid_out EXCEPT ![id] = n]
      /\ UNCHANGED <<now, settings, archive, rent_book, velocity, created, tripped>>
  BY DEF mutual_deposit_release
<1>7. n \in Nat
  BY <1>0, <1>2
<1> HIDE DEF b, n
<1>8. balance' \in [Holders -> Nat]
  <2>1. b[Contract] \in Nat
    BY <1>1, <1>4
  <2>2. CanPay(b, Contract, s)
    BY <1>2, <1>3, <1>5, <2>1 DEF CanPay, CanTransfer
  <2> QED
    BY <1>1, <1>4, <1>6, <2>2, PayType
<1>9. GoodLease(l, now)
  BY <1>0, EndedLease
<1> HIDE DEF l
<1>10. StoreInv'
  BY <1>0, <1>6, <1>9, PutStore DEF IInv
<1>11. PaidInv'
  <2>1. DOMAIN lease_instance' = DOMAIN lease_instance \cup {id}
    BY <1>6, PutFacts
  <2> QED
    BY <1>6, <1>7, <2>1, AddPaid DEF IInv
<1>12. SettingsInv' /\ ArchiveInv' /\ BookInv' /\ VelocityInv'
  BY <1>6, Frame
<1> QED
  BY <1>6, <1>8, <1>10, <1>11, <1>12 DEF IInv

LEMMA DepositKeeps ==
    ASSUME IInv, NEW id \in DOMAIN lease_instance, Deposit(id)
    PROVE  IInv'
<1>0. now \in Nat /\ GoodLease(lease_instance[id], now)
  BY DEF IInv, StoreInv
<1>1. /\ GoodLease(ended(lease_instance[id]), now)
      /\ GoodLease(disputed(lease_instance[id]), now)
  BY <1>0, EndedLease
<1>2. GoodLease([lease_instance[id] EXCEPT !.deposit_status = "Settled"], now)
  <2>1. "Settled" \in DepositStatus /\ "Active" \in LeaseStatus \ {"Pending", "DaoArbitration"}
        /\ TRUE \in BOOLEAN /\ "Settled" # "Disputed"
    BY DEF DepositStatus, LeaseStatus
  <2> QED
    BY <1>0, <2>1, Remarked
<1>3. ASSUME NEW caller \in Settlers, settle_deposit(id, caller) \/ dispute_deposit(id, caller)
      PROVE  IInv'
  BY <1>1, <1>2, <1>3, SaveStep DEF settle_deposit, dispute_deposit
<1>4. ASSUME NEW amount \in Deductions, NEW arbitrator \in Users,
             resolve_dispute(id, arbitrator, amount)
      PROVE  IInv'
  BY <1>1, <1>4, SaveStep DEF resolve_dispute
<1>5. ASSUME NEW amount \in Deductions, conclude_lease(id, amount)
      PROVE  IInv'
  BY <1>1, <1>5, SaveStep DEF conclude_lease
<1>6. ASSUME NEW split \in Splits, mutual_deposit_release(id, split[1], split[2])
      PROVE  IInv'
  <2>1. split[1] \in Int /\ split[2] \in Int
    BY ContractInputAssumption
  <2> QED
    BY <1>6, <2>1, ReleaseKeeps
<1>7. ASSUME NEW split \in Splits, init_mutual_release_fb(id, split[1], split[2])
      PROVE  IInv'
  BY <1>1, <1>7, SaveStep DEF init_mutual_release_fb
<1> QED
  BY <1>3, <1>4, <1>5, <1>6, <1>7 DEF Deposit

LEMMA BountyType ==
    ASSUME SettingsInv, NEW bps \in Nat
    PROVE  bounty(bps) \in Int /\ bounty_payer \in Holders
<1>1. CASE platform_fee = None
  BY <1>1 DEF bounty, bounty_payer, Holders
<1>2. CASE platform_fee # None
  <2>1. platform_fee.amount \in Int /\ platform_fee.recipient \in Holders
    BY <1>2 DEF SettingsInv
  <2>2. Quot(platform_fee.amount * bps, 10000) \in Int
    <3>1. platform_fee.amount * bps \in Int
      BY <2>1
    <3> QED
      BY <3>1, QuotType
  <2>3. /\ bounty(bps) = Quot(platform_fee.amount * bps, 10000)
        /\ bounty_payer = platform_fee.recipient
    BY <1>2 DEF bounty, bounty_payer
  <2> QED
    BY <2>1, <2>2, <2>3
<1> QED
  BY <1>1, <1>2

\* A lease ends after its term: settled, archived as it stands, the caller rewarded.
LEMMA TerminationKeeps ==
    ASSUME IInv, NEW id \in DOMAIN lease_instance, NEW caller \in Users,
           terminate_lease(id, caller)
    PROVE  IInv'
<1> DEFINE l == lease_instance[id]
           h == [lease |-> l, terminated_by |-> caller, terminated_at |-> now]
<1>0. now \in Nat /\ l \in LeaseInstance /\ caller \in Holders
  BY DEF IInv, StoreInv, GoodLease, Holders
<1>1. balance' \in [Holders -> Nat]
  BY <1>0, BountyType, PayType DEF IInv, terminate_lease
<1>2. GoodEnding(h)
  <2>1. l.deposit_status = "Settled" /\ now >= l.end_date /\ l.end_date \in Nat
    BY <1>0 DEF terminate_lease, may_terminate, LeaseInstance, DepositStatus
  <2> HIDE DEF l
  <2> QED
    BY <1>0, <2>1 DEF GoodEnding
<1>3. archive_lease(id, l, caller) /\ UNCHANGED <<now, settings, rent_book, velocity, observed>>
  BY DEF terminate_lease
<1> HIDE DEF l
<1>4. StoreInv' /\ ArchiveInv' /\ DOMAIN lease_instance' \subseteq DOMAIN lease_instance
  BY <1>0, <1>2, <1>3, ArchiveStep DEF IInv
<1>5. PaidInv'
  BY <1>3, <1>4 DEF IInv, PaidInv, observed
<1>6. SettingsInv' /\ BookInv' /\ VelocityInv'
  BY <1>3, Frame
<1> QED
  BY <1>1, <1>3, <1>4, <1>5, <1>6 DEF IInv, observed

\* An early exit pays the deposits out, enters the exit on the lessor's record and
\* archives the lease within its term.
LEMMA EarlyTerminationKeeps ==
    ASSUME IInv, NEW id \in DOMAIN lease_instance, NEW caller \in Users,
           execute_early_termination(id, caller)
    PROVE  IInv'
<1> DEFINE lease == lease_instance[id]
           payout == final_penalty(lease, now)
           refund == total_deposit(lease) - payout
           b == pay(balance, Contract, lease.tenant, refund)
           k == shrink_portfolio(record_termination(initialize_lessor(lease.landlord), now))
           l == [ended(lease) EXCEPT !.active = FALSE]
           n == paid_out[id] + Max({refund, 0}) + Max({payout, 0})
           h == [lease |-> l, terminated_by |-> caller, terminated_at |-> now]
<1>0. /\ now \in Nat /\ GoodLease(lease, now) /\ lease \in LeaseInstance
      /\ paid_out[id] \in Nat /\ caller \in Holders /\ Contract \in Holders
  BY DEF IInv, StoreInv, GoodLease, PaidInv, Holders
<1>1. lease.landlord \in Users /\ lease.tenant \in Holders /\ lease.landlord \in Holders
  BY <1>0 DEF LeaseInstance, Holders
<1>2. /\ within_term(lease)
      /\ CanPay(balance, Contract, refund) /\ CanPay(b, Contract, payout)
      /\ balance' = pay(b, Contract, lease.landlord, payout)
      /\ velocity' = Put(velocity, lease.landlord, k)
      /\ archive_lease(id, l, caller)
      /\ paid_out' = [paid_out EXCEPT ![id] = n]
      /\ UNCHANGED <<now, settings, rent_book, created, tripped>>
  BY DEF execute_early_termination
<1>3. payout \in Int /\ refund \in Int
  <2>1. total_deposit(lease) \in Int
    BY <1>0 DEF total_deposit, LeaseInstance
  <2>2. penalty_amount(lease, now) = 0
    BY <1>0 DEF penalty_amount, GoodLease, NoPenalty
  <2>3. Min({0, total_deposit(lease)}) \in {0, total_deposit(lease)}
    BY <2>1, 0 \in Int, MinPair, Zenon
  <2>4. payout \in Int
    BY <2>1, <2>2, <2>3 DEF final_penalty
  <2> HIDE DEF payout
  <2> QED
    BY <2>1, <2>4
<1> HIDE DEF payout, refund
<1>4. n \in Nat
  <2>1. /\ Max({refund, 0}) \in {refund, 0} /\ Max({refund, 0}) >= 0
        /\ Max({payout, 0}) \in {payout, 0} /\ Max({payout, 0}) >= 0
    BY <1>3, MinPair
  <2> QED
    BY <1>0, <1>3, <2>1
<1>5. balance' \in [Holders -> Nat]
  <2>1. b \in [Holders -> Nat]
    BY <1>0, <1>1, <1>2, <1>3, PayType DEF IInv
  <2> HIDE DEF b
  <2> QED
    BY <1>0, <1>1, <1>2, <1>3, <2>1, PayType
<1>6. k \in VelocityTracker
  BY <1>0, <1>1, TrackerType DEF IInv
<1>7. l \in LeaseInstance
  BY <1>0, EndedLease DEF GoodLease
<1>8. GoodEnding(h)
  <2>1. /\ l.deposit_status = "Settled" /\ l.status = "Terminated" /\ ~l.active
        /\ l.start_date = lease.start_date /\ l.end_date = lease.end_date
    BY <1>0 DEF ended, LeaseInstance
  <2>2. lease.start_date <= now /\ now <= lease.end_date
    BY <1>2 DEF within_term
  <2> HIDE DEF l, lease
  <2> QED
    BY <2>1, <2>2 DEF GoodEnding
<1> HIDE DEF b, k, l, n, lease
<1>9. StoreInv' /\ ArchiveInv' /\ DOMAIN lease_instance' \subseteq DOMAIN lease_instance
  BY <1>0, <1>2, <1>7, <1>8, ArchiveStep DEF IInv
<1>10. VelocityInv'
  BY <1>1, <1>2, <1>6, PutVelocity DEF IInv
<1>11. PaidInv'
  BY <1>2, <1>4, <1>9, AddPaid DEF IInv
<1>12. SettingsInv' /\ BookInv'
  BY <1>2, Frame
<1> QED
  BY <1>2, <1>5, <1>9, <1>10, <1>11, <1>12 DEF IInv

\* A swept proposal leaves the store without an entry in the archive.
LEMMA SweepKeeps ==
    ASSUME IInv, NEW id \in DOMAIN lease_instance, NEW relayer \in Users,
           sweep_expired_proposals(relayer, id)
    PROVE  IInv'
<1> DEFINE deposit == lease_instance[id].security_deposit
           b == pay(balance, Contract, lease_instance[id].tenant, deposit)
           n == paid_out[id] + Max({deposit, 0})
<1>0. /\ deposit \in Int /\ lease_instance[id].tenant \in Holders /\ relayer \in Holders
      /\ Contract \in Holders /\ paid_out[id] \in Nat /\ balance \in [Holders -> Nat]
  BY DEF IInv, StoreInv, GoodLease, LeaseInstance, PaidInv, Holders
<1>1. /\ CanPay(balance, Contract, deposit) /\ CanPay(b, bounty_payer, bounty(50))
      /\ balance' = pay(b, bounty_payer, relayer, bounty(50))
      /\ paid_out' = [paid_out EXCEPT ![id] = n]
      /\ lease_instance' = Drop(lease_instance, id)
      /\ UNCHANGED <<now, settings, archive, rent_book, velocity, created, tripped>>
  BY DEF sweep_expired_proposals
<1> HIDE DEF deposit
<1>2. n \in Nat
  <2>1. Max({deposit, 0}) \in {deposit, 0} /\ Max({deposit, 0}) >= 0
    BY <1>0, MinPair
  <2> QED
    BY <1>0, <2>1
<1>3. b \in [Holders -> Nat]
  BY <1>0, <1>1, PayType
<1> HIDE DEF b, n
<1>4. balance' \in [Holders -> Nat]
  <2>1. bounty(50) \in Int /\ bounty_payer \in Holders
    BY BountyType DEF IInv
  <2> QED
    BY <1>0, <1>1, <1>3, <2>1, PayType
<1>a. /\ DOMAIN lease_instance' \subseteq DOMAIN lease_instance /\ now' = now
      /\ \A x \in DOMAIN lease_instance' : lease_instance'[x] = lease_instance[x]
  BY <1>1, DropFacts
<1>b. StoreInv
  BY DEF IInv
<1>5. StoreInv' /\ DOMAIN lease_instance' \subseteq DOMAIN lease_instance
  BY <1>a, <1>b DEF StoreInv
<1>6. PaidInv'
  BY <1>1, <1>2, <1>5, AddPaid DEF IInv
<1>7. SettingsInv' /\ ArchiveInv' /\ BookInv' /\ VelocityInv'
  BY <1>1, Frame
<1> QED
  BY <1>1, <1>4, <1>5, <1>6, <1>7 DEF IInv

LEMMA EndingKeeps ==
    ASSUME IInv, NEW id \in DOMAIN lease_instance, Ending(id)
    PROVE  IInv'
<1>0. now \in Nat /\ GoodLease(lease_instance[id], now)
  BY DEF IInv, StoreInv
<1>1. ASSUME NEW caller \in Users, reclaim(id, caller)
      PROVE  IInv'
  <2>1. "Settled" \in DepositStatus /\ "Terminated" \in LeaseStatus \ {"Pending", "DaoArbitration"}
        /\ FALSE \in BOOLEAN
    BY DEF DepositStatus, LeaseStatus
  <2>2. GoodLease([lease_instance[id] EXCEPT !.status = "Terminated", !.active = FALSE], now)
    BY <1>0, <2>1, Remarked
  <2> QED
    BY <1>1, <2>2, SaveStep DEF reclaim
<1>2. ASSUME NEW caller \in Users, terminate_lease(id, caller)
      PROVE  IInv'
  BY <1>2, TerminationKeeps
<1>3. ASSUME NEW caller \in Users, execute_early_termination(id, caller)
      PROVE  IInv'
  BY <1>3, EarlyTerminationKeeps
<1>4. ASSUME NEW caller \in Users, termination_refused(id, caller)
      PROVE  IInv'
  <2>1. lease_instance[id].landlord \in Users
    BY <1>0 DEF GoodLease, LeaseInstance
  <2>2. /\ tripped' = tripped \cup {lease_instance[id].landlord}
        /\ UNCHANGED <<now, settings, lease_instance, archive, rent_book, velocity, balance,
                       created, paid_out>>
    BY <1>4 DEF termination_refused
  <2>3. /\ SettingsInv' /\ StoreInv' /\ ArchiveInv' /\ BookInv' /\ VelocityInv'
        /\ PaidInv'
    BY <2>2, Frame
  <2> QED
    BY <2>1, <2>2, <2>3 DEF IInv
<1>5. ASSUME NEW caller \in Users, sweep_expired_proposals(caller, id)
      PROVE  IInv'
  BY <1>5, SweepKeeps
<1> QED
  BY <1>1, <1>2, <1>3, <1>4, <1>5 DEF Ending

LEMMA StutterKeeps == IInv /\ UNCHANGED vars => IInv'
<1> SUFFICES ASSUME IInv, UNCHANGED vars PROVE IInv'
  OBVIOUS
<1>1. UNCHANGED <<now, settings, lease_instance, archive, rent_book, velocity, balance,
                  created, paid_out, tripped>>
  BY DEF vars, observed
<1>2. /\ SettingsInv' /\ StoreInv' /\ ArchiveInv' /\ BookInv' /\ VelocityInv'
      /\ PaidInv'
  BY <1>1, Frame
<1> QED
  BY <1>1, <1>2 DEF IInv

LEMMA NextKeeps == IInv /\ [Next]_vars => IInv'
<1> SUFFICES ASSUME IInv, [Next]_vars PROVE IInv'
  OBVIOUS
<1>1. ASSUME NEW id \in DOMAIN lease_instance,
             Rent(id) \/ Deposit(id) \/ Maintenance(id) \/ Ending(id)
      PROVE  IInv'
  BY <1>1, RentKeeps, DepositKeeps, MaintenanceKeeps, EndingKeeps
<1> QED
  BY <1>1, TickKeeps, SettingsKeep, CreationKeeps, StutterKeeps DEF Next

-----------------------------------------------------------------------------
\* In every reachable state the inductive invariant holds.
THEOREM Invariance == Spec => []IInv
BY InitEstablishes, NextKeeps, PTL DEF Spec

\* Every stored value keeps its type: no call overdraws a balance or drives a
\* lessor's portfolio below zero, whatever amounts the calls are given.
THEOREM TypeCorrect == Spec => []TypeOK
BY Invariance, InvariantImplies, PTL

\* However often and whenever check_tenant_default is called, the debt of a lease is
\* the flat fee once and each late second once, for any fees and dates.
THEOREM LateFeesAlwaysExact == Spec => []LateFeesExact
BY Invariance, InvariantImplies, PTL

\* terminate_lease, execute_early_termination and the buyout of
\* pay_lease_instance_rent archive a lease only with one of the three reasons.
THEOREM ArchiveAlwaysJustified == Spec => []ArchiveJustified
BY Invariance, InvariantImplies, PTL

\* The index get_historical_leases_paginated walks lists the archived ids, no other
\* and none missing, under any reuse of ids.
THEOREM ArchiveAlwaysIndexed == Spec => []HistoryIndexed
BY Invariance, InvariantImplies, PTL

-----------------------------------------------------------------------------
(***************************************************************************)
(* No lease is lost: a step keeps the terms of a lease, archives it, sweeps *)
(* it, or is the creation of a lease for continuous billing under its id.  *)
(***************************************************************************)
LEMMA TermsStay ==
    ASSUME NEW l \in LeaseInstance
    PROVE  /\ SameTerms(l, l)
           /\ \A v : /\ SameTerms(l, [l EXCEPT !.buyout_price = v])
                     /\ SameTerms(l, [l EXCEPT !.withdrawal_address = v])
                     /\ SameTerms(l, [l EXCEPT !.inspector = v])
                     /\ SameTerms(l, [l EXCEPT !.maintenance_status = v])
                     /\ SameTerms(l, [l EXCEPT !.deposit_status = v])
                     /\ SameTerms(l, with_payment(l, v))
                     /\ SameTerms(l, closed_by_buyout(with_payment(l, v)))
           /\ SameTerms(l, withdrawn(l))
           /\ SameTerms(l, ended(l)) /\ SameTerms(l, disputed(l))
           /\ SameTerms(l, [ended(l) EXCEPT !.active = FALSE])
           /\ SameTerms(l, [l EXCEPT !.status = "Terminated", !.active = FALSE])
           /\ SameTerms(l, [l EXCEPT !.deposit_status = "Settled", !.active = FALSE])
           /\ \A n : SameTerms(l, with_seconds_late(with_flat_fee(l), n))
<1>1. \A v : /\ SameTerms(l, [l EXCEPT !.buyout_price = v])
             /\ SameTerms(l, [l EXCEPT !.withdrawal_address = v])
             /\ SameTerms(l, [l EXCEPT !.inspector = v])
             /\ SameTerms(l, [l EXCEPT !.maintenance_status = v])
             /\ SameTerms(l, [l EXCEPT !.deposit_status = v])
  BY DEF SameTerms, LeaseInstance
<1>2. ASSUME NEW v
      PROVE  /\ SameTerms(l, with_payment(l, v))
             /\ SameTerms(l, closed_by_buyout(with_payment(l, v)))
  <2> DEFINE c == l.cumulative_payments + v
             r == l.rent_paid + v
             m == [l EXCEPT !.cumulative_payments = c, !.rent_paid = r]
  <2>1. with_payment(l, v) = m
    BY DEF with_payment
  <2> HIDE DEF c, r
  <2>2. SameTerms(l, m) /\ SameTerms(l, [m EXCEPT !.status = "Terminated", !.active = FALSE])
    BY DEF SameTerms, LeaseInstance
  <2> QED
    BY <2>1, <2>2 DEF closed_by_buyout
<1>3. SameTerms(l, withdrawn(l))
  <2> DEFINE w == l.rent_withdrawn + (l.rent_paid - l.rent_withdrawn)
  <2>1. withdrawn(l) = [l EXCEPT !.rent_withdrawn = w]
    BY DEF withdrawn
  <2> HIDE DEF w
  <2> QED
    BY <2>1 DEF SameTerms, LeaseInstance
<1>4. /\ SameTerms(l, l) /\ SameTerms(l, ended(l)) /\ SameTerms(l, disputed(l))
      /\ SameTerms(l, [ended(l) EXCEPT !.active = FALSE])
      /\ SameTerms(l, [l EXCEPT !.status = "Terminated", !.active = FALSE])
      /\ SameTerms(l, [l EXCEPT !.deposit_status = "Settled", !.active = FALSE])
  BY DEF SameTerms, LeaseInstance, ended, disputed
<1>5. SameTerms(l, with_flat_fee(l))
  BY <1>4 DEF SameTerms, LeaseInstance, with_flat_fee
<1>6. ASSUME NEW n PROVE SameTerms(l, with_seconds_late(with_flat_fee(l), n))
  <2> DEFINE k == with_flat_fee(l)
             d == k.debt + (n - k.seconds_late_charged) * k.late_fee_per_sec
             m == [k EXCEPT !.debt = d, !.seconds_late_charged = n]
  <2>1. with_seconds_late(k, n) = k \/ with_seconds_late(k, n) = m
    BY DEF with_seconds_late
  <2> HIDE DEF k, d
  <2>2. SameTerms(k, m)
    BY DEF SameTerms
  <2> QED
    BY <1>5, <2>1, <2>2 DEF SameTerms, k
<1> QED
  BY <1>1, <1>2, <1>3, <1>4, <1>5, <1>6

\* Every live lease has its type, whatever else the step does.
LEMMA LiveLeases == IInv => \A x \in DOMAIN lease_instance : lease_instance[x] \in LeaseInstance
BY DEF IInv, StoreInv, GoodLease

LEMMA PutLosesNothing ==
    ASSUME IInv, NEW id, NEW l, lease_instance' = Put(lease_instance, id, l),
           id \in DOMAIN lease_instance => SameTerms(lease_instance[id], l)
    PROVE  NothingLost
<1> SUFFICES ASSUME NEW x \in DOMAIN lease_instance PROVE Stays(x)
  BY DEF NothingLost
<1>1. x \in DOMAIN lease_instance' /\ (x # id => lease_instance'[x] = lease_instance[x])
      /\ lease_instance'[id] = l
  BY DEF Put
<1>2. SameTerms(lease_instance[x], lease_instance[x])
  BY LiveLeases, TermsStay
<1> QED
  BY <1>1, <1>2 DEF Stays

LEMMA UntouchedLosesNothing ==
    ASSUME IInv, lease_instance' = lease_instance
    PROVE  NothingLost
BY LiveLeases, TermsStay DEF NothingLost, Stays

\* A step that drops one lease accounts for the others.
LEMMA DropLosesNothing ==
    ASSUME IInv, NEW id, lease_instance' = Drop(lease_instance, id), Archived(id) \/ Swept(id)
    PROVE  NothingLost
<1> SUFFICES ASSUME NEW x \in DOMAIN lease_instance, x # id PROVE Stays(x)
  BY DEF NothingLost
<1>1. x \in DOMAIN lease_instance' /\ lease_instance'[x] = lease_instance[x]
  BY DropFacts
<1>2. SameTerms(lease_instance[x], lease_instance[x])
  BY LiveLeases, TermsStay
<1> QED
  BY <1>1, <1>2 DEF Stays

LEMMA ArchiveLosesNothing ==
    ASSUME IInv, NEW id, NEW l, NEW by, archive_lease(id, l, by),
           SameTerms(lease_instance[id], l)
    PROVE  NothingLost
<1> DEFINE h == [lease |-> l, terminated_by |-> by, terminated_at |-> now]
<1>1. historical_lease' = Put(historical_lease, id, h)
  BY DEF archive_lease
<1>2. historical_lease'[id] = h
  <2> HIDE DEF h
  <2> QED
    BY <1>1 DEF Put
<1>3. Archived(id)
  BY <1>2 DEF archive_lease, Archived
<1> QED
  BY <1>3, DropLosesNothing DEF archive_lease

LEMMA NextLosesNothing == IInv /\ [Next]_vars => NothingLost
<1> SUFFICES ASSUME IInv, [Next]_vars PROVE NothingLost
  OBVIOUS
<1>1. CASE UNCHANGED vars \/ Tick \/ Settings
  <2>1. lease_instance' = lease_instance
    BY <1>1 DEF vars, Tick, Settings, initialize, set_admin, set_platform_fee,
                set_kyc_provider, add_allowed_asset
  <2> QED
    BY <2>1, UntouchedLosesNothing
<1>2. CASE Creation
  <2>1. ASSUME NEW id, NEW p, NEW locked, create_lease_instance(id, p, locked)
        PROVE  NothingLost
    BY <2>1, PutLosesNothing DEF create_lease_instance
  <2>2. ASSUME NEW p, create_lease_with_continuous_billing(p)
        PROVE  NothingLost
    <3> SUFFICES ASSUME NEW x \in DOMAIN lease_instance PROVE Stays(x) \/ Overwritten(x)
      BY DEF NothingLost
    <3>1. PICK l : /\ lease_instance' = Put(lease_instance, now, l)
                   /\ l.start_date = now /\ l.status = "Active" /\ created' = created + 1
      BY <2>2 DEF create_lease_with_continuous_billing, NewLease
    <3>2. x \in DOMAIN lease_instance' /\ (x # now => lease_instance'[x] = lease_instance[x])
          /\ lease_instance'[now] = l
      BY <3>1 DEF Put
    <3>3. SameTerms(lease_instance[x], lease_instance[x])
      BY LiveLeases, TermsStay
    <3> QED
      BY <3>1, <3>2, <3>3 DEF Stays, Overwritten
  <2> QED
    BY <1>2, <2>1, <2>2 DEF Creation
<1>3. ASSUME NEW id \in DOMAIN lease_instance,
             Rent(id) \/ Deposit(id) \/ Maintenance(id) \/ Ending(id)
      PROVE  NothingLost
  <2> DEFINE lease == lease_instance[id]
  <2>0. lease \in LeaseInstance /\ now \in Nat
    BY DEF IInv, StoreInv, GoodLease
  <2>1. ASSUME NEW l, save_lease_instance(id, l), SameTerms(lease, l) PROVE NothingLost
    BY <2>1, PutLosesNothing DEF save_lease_instance
  <2>2. CASE Rent(id)
    <3>1. ASSUME NEW payer \in Users, NEW amount \in Payments,
                 pay_lease_instance_rent(id, payer, amount)
          PROVE  NothingLost
      <4> DEFINE m == with_payment(lease, amount)
      <4>1. SameTerms(lease, m) /\ SameTerms(lease, closed_by_buyout(m))
        BY <2>0, TermsStay
      <4>2. \/ archive_lease(id, closed_by_buyout(m), Contract)
            \/ lease_instance' = Put(lease_instance, id, m)
        BY <3>1 DEF pay_lease_instance_rent
      <4> HIDE DEF m
      <4> QED
        BY <4>1, <4>2, ArchiveLosesNothing, PutLosesNothing
    <3>2. ASSUME NEW roommate \in Roommates, add_authorized_payer(id, roommate)
          PROVE  NothingLost
      BY <3>2, UntouchedLosesNothing DEF add_authorized_payer
    <3>3. ASSUME check_tenant_default(id) PROVE NothingLost
      <4> DEFINE n == now - lease.grace_period_end
      <4>1. \/ save_lease_instance(id, lease)
            \/ save_lease_instance(id, with_seconds_late(with_flat_fee(lease), n))
        BY <3>3 DEF check_tenant_default
      <4>2. SameTerms(lease, lease) /\ SameTerms(lease, with_seconds_late(with_flat_fee(lease), n))
        BY <2>0, TermsStay
      <4> QED
        BY <2>1, <4>1, <4>2
    <3>4. ASSUME NEW v, \/ set_lease_instance_buyout_price(id, v)
                        \/ set_withdrawal_address(id, v) \/ withdraw_rent(id)
          PROVE  NothingLost
      BY <2>0, <2>1, <3>4, TermsStay
         DEF set_lease_instance_buyout_price, set_withdrawal_address, withdraw_rent
    <3> QED
      BY <2>2, <3>1, <3>2, <3>3, <3>4 DEF Rent
  <2>3. CASE Deposit(id)
    <3>1. SameTerms(lease, ended(lease)) /\ SameTerms(lease, disputed(lease))
          /\ SameTerms(lease, [lease EXCEPT !.deposit_status = "Settled"])
          /\ SameTerms(lease, [ended(lease) EXCEPT !.active = FALSE])
      BY <2>0, TermsStay
    <3> QED
      BY <2>1, <2>3, <3>1, PutLosesNothing
         DEF Deposit, settle_deposit, dispute_deposit, conclude_lease, resolve_dispute,
             mutual_deposit_release, init_mutual_release_fb
  <2>4. CASE Maintenance(id)
    BY <2>0, <2>1, <2>4, TermsStay
       DEF Maintenance, set_inspector, report_maintenance_issue, submit_repair_proof,
           verify_repair
  <2>5. ASSUME NEW caller \in Users, terminate_lease(id, caller)
        PROVE  NothingLost
    BY <2>0, <2>5, TermsStay, ArchiveLosesNothing DEF terminate_lease
  <2>6. ASSUME NEW caller \in Users, execute_early_termination(id, caller)
        PROVE  NothingLost
    <3>1. archive_lease(id, [ended(lease) EXCEPT !.active = FALSE], caller)
      BY <2>6 DEF execute_early_termination
    <3> QED
      BY <2>0, <3>1, TermsStay, ArchiveLosesNothing
  <2>7. ASSUME NEW caller \in Users, sweep_expired_proposals(caller, id)
        PROVE  NothingLost
    <3>1. lease.status = "Pending" /\ lease.start_date + INIT_TIMEOUT_SECS <= now
      BY <2>0, <2>7, ContractBoundAssumption DEF sweep_expired_proposals, may_sweep, LeaseInstance
    <3>2. lease.deposit_status # "Disputed"
      BY <3>1 DEF IInv, StoreInv, GoodLease, Undisputed
    <3> QED
      BY <2>7, <3>1, <3>2, DropLosesNothing DEF sweep_expired_proposals, Swept
  <2>8. ASSUME NEW caller \in Users, reclaim(id, caller) \/ termination_refused(id, caller)
        PROVE  NothingLost
    BY <2>0, <2>1, <2>8, TermsStay, UntouchedLosesNothing DEF reclaim, termination_refused
  <2> QED
    BY <1>3, <2>2, <2>3, <2>4, <2>5, <2>6, <2>7, <2>8 DEF Ending
<1> QED
  BY <1>1, <1>2, <1>3 DEF Next

\* A lease keeps its terms until it leaves the store, and leaves it only into the archive,
\* with those terms, or as a proposal the sweeper may take, or replaced by a lease created
\* for continuous billing in the ledger whose sequence number is its id.
THEOREM NoLeaseIsLost == Spec => NoLeaseLost
BY NextLosesNothing, Invariance, PTL DEF Spec, NoLeaseLost

-----------------------------------------------------------------------------
(***************************************************************************)
(* What an early exit pays out, for every penalty in basis points and      *)
(* every fixed one, and what its simulation promises.                      *)
(***************************************************************************)
LEMMA MinMaxPair ==
    ASSUME NEW a \in Int, NEW b \in Int
    PROVE  /\ Min({a, b}) \in Int /\ Min({a, b}) <= a /\ Min({a, b}) <= b
           /\ Min({a, b}) = a \/ Min({a, b}) = b
           /\ Max({a, b}) \in Int /\ a <= Max({a, b}) /\ b <= Max({a, b})
<1>1. \E x \in {a, b} : \A y \in {a, b} : x <= y
  OBVIOUS
<1>2. \E x \in {a, b} : \A y \in {a, b} : x >= y
  OBVIOUS
<1> QED
  BY <1>1, <1>2 DEF Min, Max

LEMMA MaxSingle ==
    ASSUME NEW a \in Int
    PROVE  Max({a}) = a
BY DEF Max

\* A share in basis points of a product of naturals is a natural.
LEMMA ShareIsNat ==
    ASSUME NEW a \in Nat, NEW b \in Nat, NEW c \in Nat
    PROVE  (a * b * c) \div 10000 \in Nat /\ Quot(a * b * c, 10000) \in Nat
<1>1. a * b \in Nat
  OBVIOUS
<1>2. ASSUME NEW d \in Nat PROVE d * c \in Nat
  OBVIOUS
<1>3. a * b * c \in Nat
  BY <1>1, <1>2
<1>4. ASSUME NEW d \in Nat PROVE d \div 10000 \in Nat
  OBVIOUS
<1> DEFINE x == a * b * c
<1> HIDE DEF x
<1>5. ASSUME NEW d \in Nat PROVE Quot(d, 10000) \in Nat
  BY <1>4, QuotType
<1>6. x \in Nat
  BY <1>3 DEF x
<1>7. x \div 10000 \in Nat /\ Quot(x, 10000) \in Nat
  BY <1>4, <1>5, <1>6
<1> QED
  BY <1>7 DEF x

\* No penalty terms make an early exit pay a negative share or more than the deposits.
LEMMA PenaltyCapped ==
    ASSUME NEW l, NEW t \in Nat,
           l.end_date \in Nat, l.rent_per_sec \in Nat, total_deposit(l) \in Nat,
           l.early_termination_fee_bps \in Nat \cup {None},
           l.fixed_penalty \in Nat \cup {None}
    PROVE  0 <= final_penalty(l, t) /\ final_penalty(l, t) <= total_deposit(l)
<1> DEFINE bps == l.early_termination_fee_bps
           fixed == l.fixed_penalty
           pct == percentage_penalty(l, t)
<1>1. bps # None => pct \in Nat
  <2> SUFFICES ASSUME bps # None PROVE pct \in Nat
    OBVIOUS
  <2>1. bps \in Nat
    OBVIOUS
  <2>2. CASE bps > 0 /\ l.end_date > t
    <3>1. l.end_date - t \in Nat
      BY <2>2
    <3> QED
      BY <2>1, <2>2, <3>1, ShareIsNat DEF percentage_penalty
  <2> QED
    BY <2>2 DEF percentage_penalty
<1>2. penalty_amount(l, t) \in Nat
  <2> HIDE DEF pct
  <2>1. CASE bps = None /\ fixed = None
    BY <2>1 DEF penalty_amount
  <2>2. CASE bps # None /\ fixed = None
    <3>1. penalty_amount(l, t) = Max({pct})
      BY <2>2 DEF penalty_amount, pct
    <3> QED
      BY <1>1, <2>2, <3>1, MaxSingle
  <2>3. CASE bps = None /\ fixed # None
    <3>1. penalty_amount(l, t) = Max({fixed}) /\ fixed \in Nat
      BY <2>3 DEF penalty_amount
    <3> QED
      BY <3>1, MaxSingle
  <2>4. CASE bps # None /\ fixed # None
    <3>1. penalty_amount(l, t) = Max({pct} \cup {fixed})
      BY <2>4 DEF penalty_amount, pct
    <3>2. {pct} \cup {fixed} = {pct, fixed} /\ fixed \in Nat
      BY <2>4
    <3>3. pct \in Int /\ fixed \in Int /\ pct >= 0
      BY <1>1, <2>4, <3>2
    <3> HIDE DEF fixed
    <3>4. Max({pct, fixed}) \in Int /\ pct <= Max({pct, fixed})
      BY <3>3, MinMaxPair, Zenon
    <3> QED
      BY <3>1, <3>2, <3>3, <3>4
  <2> QED
    BY <2>1, <2>2, <2>3, <2>4
<1> QED
  BY <1>2, MinMaxPair DEF final_penalty

\* Without penalty terms the whole deposit is the tenant's, and the simulation, which
\* deducts a tenth of the remaining rent and the debt, stays between nothing and that.
LEMMA SimulationBounded ==
    ASSUME NEW l \in LeaseInstance, NEW t \in Nat, NoPenalty(l), total_deposit(l) \in Nat
    PROVE  /\ 0 <= projected_refund(l, t)
           /\ projected_refund(l, t) <= total_deposit(l) - final_penalty(l, t)
<1> DEFINE total == total_deposit(l)
           remaining == IF t < l.end_date THEN l.end_date - t ELSE 0
           share == (remaining * l.rent_per_sec * 1000) \div 10000
           penalty == IF remaining > 0 /\ l.rent_per_sec > 0 THEN Min({share, total}) ELSE 0
           d == deductions(l, t)
<1>0. /\ l.end_date \in Nat /\ l.rent_per_sec \in Int /\ l.debt \in Int
      /\ total \in Nat /\ remaining \in Nat
  BY DEF LeaseInstance
<1>1. final_penalty(l, t) = 0
  <2>1. penalty_amount(l, t) = 0
    BY DEF NoPenalty, penalty_amount
  <2> QED
    BY <1>0, <2>1, MinMaxPair DEF final_penalty
<1>2. penalty \in Nat
  <2>1. CASE remaining > 0 /\ l.rent_per_sec > 0
    <3>1. l.rent_per_sec \in Nat
      BY <1>0, <2>1
    <3>2. share \in Nat
      BY <1>0, <3>1, ShareIsNat
    <3> HIDE DEF share, total
    <3>3. share \in Int /\ total \in Int
      BY <1>0, <3>2
    <3>4. /\ Min({share, total}) \in Int
          /\ Min({share, total}) = share \/ Min({share, total}) = total
      BY <3>3, MinMaxPair, Zenon
    <3> QED
      BY <1>0, <2>1, <3>2, <3>4
  <2> QED
    BY <2>1
<1>3. d = penalty + Max({l.debt, 0})
  BY DEF deductions
<1>4. d \in Nat
  <2> HIDE DEF penalty, d
  <2>1. Max({l.debt, 0}) \in Int /\ 0 <= Max({l.debt, 0})
    BY <1>0, 0 \in Int, MinMaxPair, Zenon
  <2> QED
    BY <1>2, <1>3, <2>1
<1>5. projected_refund(l, t) = total - Min({d, total})
  BY DEF projected_refund
<1> HIDE DEF d, total, remaining
<1>6. Min({d, total}) \in Int /\ 0 <= Min({d, total}) /\ Min({d, total}) <= total
  <2>1. d \in Int /\ total \in Int
    BY <1>0, <1>4
  <2>2. /\ Min({d, total}) \in Int /\ Min({d, total}) <= total
        /\ Min({d, total}) = d \/ Min({d, total}) = total
    BY <2>1, MinMaxPair, Zenon
  <2> QED
    BY <1>0, <1>4, <2>2
<1> QED
  BY <1>0, <1>1, <1>5, <1>6 DEF total

LEMMA ExitRefundHolds == IInv => ExitRefundSound
<1> SUFFICES ASSUME IInv PROVE ExitRefundSound
  OBVIOUS
<1>1. PenaltyWithinDeposit
  <2>1. ASSUME NEW id \in DOMAIN lease_instance,
               NEW bps \in {None, 0, 1500}, NEW fixed \in {None, 0, 3}
        PROVE  LET l == [lease_instance[id] EXCEPT !.early_termination_fee_bps = bps,
                                                   !.fixed_penalty = fixed]
               IN  total_deposit(l) >= 0 /\ l.rent_per_sec >= 0 =>
                      0 <= final_penalty(l, now) /\ final_penalty(l, now) <= total_deposit(l)
    <3> DEFINE l == [lease_instance[id] EXCEPT !.early_termination_fee_bps = bps,
                                               !.fixed_penalty = fixed]
    <3>1. lease_instance[id] \in LeaseInstance /\ now \in Nat
      BY DEF IInv, StoreInv, GoodLease
    <3>2. bps \in Nat \cup {None} /\ fixed \in Nat \cup {None}
      OBVIOUS
    <3>3. /\ l.early_termination_fee_bps = bps /\ l.fixed_penalty = fixed
          /\ l.end_date \in Nat /\ l.rent_per_sec \in Int
          /\ l.security_deposit \in Int /\ l.deposit_amount \in Int
      BY <3>1 DEF LeaseInstance
    <3> HIDE DEF l
    <3>4. total_deposit(l) \in Int
      BY <3>3 DEF total_deposit
    <3>5. total_deposit(l) >= 0 /\ l.rent_per_sec >= 0 =>
             0 <= final_penalty(l, now) /\ final_penalty(l, now) <= total_deposit(l)
      BY <3>1, <3>2, <3>3, <3>4, PenaltyCapped
    <3> QED
      BY <3>5 DEF l
  <2> QED
    BY <2>1 DEF PenaltyWithinDeposit
<1>2. SimulationConservative
  <2>1. ASSUME NEW id \in DOMAIN lease_instance, total_deposit(lease_instance[id]) >= 0
        PROVE  /\ 0 <= projected_refund(lease_instance[id], now)
               /\ projected_refund(lease_instance[id], now)
                     <= total_deposit(lease_instance[id])
                           - final_penalty(lease_instance[id], now)
    <3>1. lease_instance[id] \in LeaseInstance /\ now \in Nat /\ NoPenalty(lease_instance[id])
      BY DEF IInv, StoreInv, GoodLease
    <3>2. total_deposit(lease_instance[id]) \in Nat
      BY <2>1, <3>1 DEF total_deposit, LeaseInstance
    <3> QED
      BY <3>1, <3>2, SimulationBounded
  <2> QED
    BY <2>1 DEF SimulationConservative
<1> QED
  BY <1>1, <1>2 DEF ExitRefundSound

\* In every reachable state, an early exit of any lease splits its deposits into two
\* shares that are not negative, and simulate_termination promises no more than it pays.
THEOREM ExitRefundAlwaysSound == Spec => []ExitRefundSound
BY Invariance, ExitRefundHolds, PTL

-----------------------------------------------------------------------------
(***************************************************************************)
(* Paging.  As long as the index is no longer than the archive it lists    *)
(* every id once, so the cursor has one place in it.                       *)
(***************************************************************************)
\* A sequence as long as the set it lists repeats nothing.
LEMMA ListedOnce ==
    ASSUME NEW D, NEW s \in Seq(Nat), {s[i] : i \in DOMAIN s} = D, Len(s) = Cardinality(D)
    PROVE  \A i, j \in DOMAIN s : s[i] = s[j] => i = j
<1>1. DOMAIN s = 1..Len(s) /\ Len(s) \in Nat
  OBVIOUS
<1>2. s \in Surjection(1..Len(s), D)
  <2>1. s \in [1..Len(s) -> D]
    BY <1>1
  <2>2. \A t \in D : \E i \in 1..Len(s) : s[i] = t
    BY <1>1
  <2> QED
    BY <2>1, <2>2 DEF Surjection
<1>3. IsFiniteSet(1..Len(s)) /\ Cardinality(1..Len(s)) = Len(s)
  BY <1>1, FS_Interval
<1>4. s \in Injection(1..Len(s), D)
  BY <1>2, <1>3, FS_SurjSameCardinalityImpliesInj
<1> QED
  BY <1>1, <1>4 DEF Injection, IsInjective

LEMMA MinSingle ==
    ASSUME NEW a \in Int
    PROVE  Min({a}) = a
BY DEF Min

\* The page of a cursor starts right behind the one place of the cursor.
LEMMA PageBehindCursor ==
    ASSUME ArchiveInv, NEW e \in DOMAIN historical_index,
           \A i, j \in DOMAIN historical_index :
              historical_index[i] = historical_index[j] => i = j
    PROVE  page_start(historical_index[e]) = e
<1>1. historical_index \in Seq(Nat)
  BY DEF ArchiveInv
<1>2. e \in Nat /\ historical_index[e] \in Nat
  BY <1>1
<1>3. historical_index[e] # None
  BY <1>2, AddressAssumption
<1>4. {i \in DOMAIN historical_index : historical_index[i] = historical_index[e]} = {e}
  OBVIOUS
<1>5. Min({e}) = e
  BY <1>2, MinSingle
<1> QED
  BY <1>3, <1>4, <1>5 DEF page_start

LEMMA PagesHold == IInv => PagesChainWithoutReuse
<1> SUFFICES ASSUME IInv, Len(historical_index) = Cardinality(DOMAIN historical_lease),
                    NEW limit \in 1..MaxLeases,
                    NEW cursor \in DOMAIN historical_lease \cup {None},
                    next_cursor(cursor, limit) # None
             PROVE  page_start(next_cursor(cursor, limit)) = page_end(cursor, limit)
  BY DEF PagesChainWithoutReuse, PagesChain
<1> DEFINE n == Len(historical_index)
           st == page_start(cursor)
           e == page_end(cursor, limit)
<1>0. ArchiveInv
  BY DEF IInv
<1>1. historical_index \in Seq(Nat) /\ HistoryIndexed
  BY <1>0 DEF ArchiveInv
<1>2. n \in Nat /\ DOMAIN historical_index = 1..n
  BY <1>1
<1>3. \A i, j \in DOMAIN historical_index : historical_index[i] = historical_index[j] => i = j
  BY <1>1, ListedOnce DEF HistoryIndexed
<1>4. st \in Nat
  <2>1. CASE cursor = None
    BY <2>1 DEF page_start
  <2>2. CASE cursor # None
    <3>1. PICK i \in DOMAIN historical_index : historical_index[i] = cursor
      BY <1>1, <2>2 DEF HistoryIndexed
    <3>2. st = i
      BY <1>0, <1>3, <3>1, PageBehindCursor
    <3> QED
      BY <1>2, <3>1, <3>2
  <2> QED
    BY <2>1, <2>2
<1>5. e = Min({st + limit, n})
  BY DEF page_end
<1>6. e < n /\ next_cursor(cursor, limit) = historical_index[e]
  BY DEF next_cursor
<1> HIDE DEF st, e, n
<1>7. limit \in Nat /\ limit >= 1
  BY ContractBoundAssumption
<1>8. st + limit \in Int /\ n \in Int
  BY <1>2, <1>4, <1>7
<1>9. Min({st + limit, n}) = st + limit \/ Min({st + limit, n}) = n
  BY <1>8, MinMaxPair, Zenon
<1>10. e = st + limit
  BY <1>2, <1>5, <1>6, <1>9
<1>11. e \in DOMAIN historical_index
  BY <1>2, <1>4, <1>6, <1>7, <1>10
<1>12. page_start(historical_index[e]) = e
  BY <1>0, <1>3, <1>11, PageBehindCursor
<1> QED
  BY <1>6, <1>12 DEF e

\* A client that follows next_cursor sees every archived lease once, in order, for any
\* page size and any archive in which no id was archived twice.
THEOREM PagesAlwaysChain == Spec => []PagesChainWithoutReuse
BY Invariance, PagesHold, PTL

-----------------------------------------------------------------------------
(***************************************************************************)
(* The limiter's records.  A step only adds to the termination times of a  *)
(* lessor, what it archives is an early exit only if it adds the time, and *)
(* it adds one only within the limits.  So the early exits of the archive  *)
(* match different entries of the records.                                 *)
(***************************************************************************)
IsEarly(h) == h.terminated_by # Contract /\ h.terminated_at < h.lease.end_date

RecordsKept ==
    \A u \in DOMAIN velocity :
       /\ u \in DOMAIN velocity'
       /\ \A i \in DOMAIN velocity[u].last_termination_times :
             /\ i \in DOMAIN velocity'[u].last_termination_times
             /\ velocity'[u].last_termination_times[i] = velocity[u].last_termination_times[i]

RecordsGuarded ==
    \A u \in DOMAIN velocity :
       \/ velocity'[u].last_termination_times = velocity[u].last_termination_times
       \/ WithinLimits(velocity[u], now)

Unmoved(x) == x \in DOMAIN historical_lease /\ historical_lease'[x] = historical_lease[x]

\* Entry i of the record of lessor u stands for the end of lease h.
EntryOf(h, i, records) ==
    /\ h.lease.landlord \in DOMAIN records
    /\ i \in DOMAIN records[h.lease.landlord].last_termination_times
    /\ records[h.lease.landlord].last_termination_times[i] = h.terminated_at

NewEntry(u, i) ==
    u \in DOMAIN velocity => i \notin DOMAIN velocity[u].last_termination_times

NoEarlyExit == \A x \in DOMAIN historical_lease' : IsEarly(historical_lease'[x]) => Unmoved(x)

\* The one lease archived has an entry of its own, new in the record.
EarlyExit(id, i) ==
    /\ \A x \in DOMAIN historical_lease' : x # id => Unmoved(x)
    /\ i \in Nat /\ EntryOf(historical_lease'[id], i, velocity')
    /\ NewEntry(historical_lease'[id].lease.landlord, i)

Traced == RecordsKept /\ RecordsGuarded /\ (NoEarlyExit \/ \E id, i : EarlyExit(id, i))

\* The entries match : each early exit has an entry that no other exit has.
Matches(match, exits, records) ==
    /\ \A x \in DOMAIN exits :
          IsEarly(exits[x]) => match[x] \in Nat /\ EntryOf(exits[x], match[x], records)
    /\ \A x, y \in DOMAIN exits :
          /\ IsEarly(exits[x]) /\ IsEarly(exits[y])
          /\ exits[x].lease.landlord = exits[y].lease.landlord
          /\ match[x] = match[y]
          => x = y

MatchedInv == \E match : Matches(match, historical_lease, velocity)

LEMMA TracedKeeps == MatchedInv /\ Traced => MatchedInv'
<1> SUFFICES ASSUME MatchedInv, Traced PROVE MatchedInv'
  OBVIOUS
<1>1. PICK match : Matches(match, historical_lease, velocity)
  BY DEF MatchedInv
<1>2. ASSUME NEW x \in DOMAIN historical_lease', Unmoved(x), IsEarly(historical_lease'[x])
      PROVE  /\ match[x] \in Nat
             /\ EntryOf(historical_lease[x], match[x], velocity)
             /\ EntryOf(historical_lease'[x], match[x], velocity')
  BY <1>1, <1>2 DEF Matches, EntryOf, Traced, RecordsKept, Unmoved
<1>3. CASE NoEarlyExit
  <2>1. ASSUME NEW x \in DOMAIN historical_lease', IsEarly(historical_lease'[x])
        PROVE  Unmoved(x)
    BY <1>3, <2>1 DEF NoEarlyExit
  <2>2. Matches(match, historical_lease', velocity')
    BY <1>1, <1>2, <2>1 DEF Matches, Unmoved
  <2> QED
    BY <2>2 DEF MatchedInv
<1>4. ASSUME NEW id, NEW i, EarlyExit(id, i) PROVE MatchedInv'
  <2> DEFINE D == DOMAIN historical_lease'
             m == [x \in D |-> IF x = id THEN i ELSE match[x]]
             h(x) == historical_lease'[x]
  <2>1. ASSUME NEW x \in D, x # id PROVE Unmoved(x)
    BY <1>4, <2>1 DEF EarlyExit
  <2>2. i \in Nat /\ EntryOf(h(id), i, velocity') /\ NewEntry(h(id).lease.landlord, i)
    BY <1>4 DEF EarlyExit
  <2>3. ASSUME NEW x \in D, IsEarly(h(x))
        PROVE  m[x] \in Nat /\ EntryOf(h(x), m[x], velocity')
    BY <1>2, <2>1, <2>2, <2>3
  <2>4. ASSUME NEW x \in D, IsEarly(h(x)), x # id, h(x).lease.landlord = h(id).lease.landlord
        PROVE  match[x] # i
    <3>1. EntryOf(historical_lease[x], match[x], velocity) /\ h(x) = historical_lease[x]
      BY <1>2, <2>1, <2>4 DEF Unmoved
    <3> QED
      BY <2>2, <2>4, <3>1 DEF EntryOf, NewEntry
  <2>5. ASSUME NEW x \in D, NEW y \in D, IsEarly(h(x)), IsEarly(h(y)),
               h(x).lease.landlord = h(y).lease.landlord, m[x] = m[y], x # y
        PROVE  FALSE
    <3>1. CASE x # id /\ y # id
      BY <1>1, <2>1, <2>5, <3>1 DEF Matches, Unmoved
    <3>2. CASE x = id \/ y = id
      BY <2>4, <2>5, <3>2
    <3> QED
      BY <3>1, <3>2
  <2>6. Matches(m, historical_lease', velocity')
    <3> HIDE DEF m
    <3> QED
      BY <2>3, <2>5 DEF Matches
  <2> QED
    BY <2>6 DEF MatchedInv
<1> QED
  BY <1>3, <1>4 DEF Traced

\* Archiving a lease.
LEMMA ArchiveEntry ==
    ASSUME NEW id, NEW l, NEW by, archive_lease(id, l, by)
    PROVE  /\ id \in DOMAIN historical_lease'
           /\ historical_lease'[id]
                 = [lease |-> l, terminated_by |-> by, terminated_at |-> now]
           /\ \A x \in DOMAIN historical_lease' : x # id => Unmoved(x)
<1> DEFINE h == [lease |-> l, terminated_by |-> by, terminated_at |-> now]
<1>1. historical_lease' = Put(historical_lease, id, h)
  BY DEF archive_lease
<1> HIDE DEF h
<1>2. /\ id \in DOMAIN historical_lease' /\ historical_lease'[id] = h
      /\ \A x \in DOMAIN historical_lease' : x # id => Unmoved(x)
  BY <1>1 DEF Put, Unmoved
<1> QED
  BY <1>2 DEF h

\* A step that leaves the trackers alone and archives at most a lease that did not end
\* early.
LEMMA NothingEarly ==
    ASSUME velocity' = velocity,
           \/ historical_lease' = historical_lease
           \/ \E id, l, by : /\ archive_lease(id, l, by)
                             /\ by = Contract \/ ~(now < l.end_date)
    PROVE  Traced
<1>1. RecordsKept /\ RecordsGuarded
  BY DEF RecordsKept, RecordsGuarded
<1>2. CASE historical_lease' = historical_lease
  BY <1>1, <1>2 DEF Traced, NoEarlyExit, Unmoved
<1>3. ASSUME NEW id, NEW l, NEW by, archive_lease(id, l, by),
             by = Contract \/ ~(now < l.end_date)
      PROVE  Traced
  <2> DEFINE h == historical_lease'[id]
  <2>0. h = [lease |-> l, terminated_by |-> by, terminated_at |-> now]
    BY <1>3, ArchiveEntry
  <2>1. ~IsEarly(h)
    BY <1>3, <2>0 DEF IsEarly
  <2>2. NoEarlyExit
    BY <1>3, <2>1, ArchiveEntry DEF NoEarlyExit
  <2> QED
    BY <1>1, <2>2 DEF Traced
<1> QED
  BY <1>2, <1>3


\* Storing a tracker that has at least the times of the one it replaces.
LEMMA LongerRecord ==
    ASSUME VelocityInv, NEW u \in Users, NEW k \in VelocityTracker,
           velocity' = Put(velocity, u, k),
           \A i \in DOMAIN initialize_lessor(u).last_termination_times :
              /\ i \in DOMAIN k.last_termination_times
              /\ k.last_termination_times[i]
                    = initialize_lessor(u).last_termination_times[i],
           \/ k.last_termination_times = initialize_lessor(u).last_termination_times
           \/ WithinLimits(initialize_lessor(u), now)
    PROVE  RecordsKept /\ RecordsGuarded /\ u \in DOMAIN velocity' /\ velocity'[u] = k
<1>1. u \in DOMAIN velocity => initialize_lessor(u) = velocity[u]
  BY DEF initialize_lessor
<1>2. /\ u \in DOMAIN velocity' /\ velocity'[u] = k
      /\ \A v \in DOMAIN velocity : v \in DOMAIN velocity'
      /\ \A v \in DOMAIN velocity : v # u => velocity'[v] = velocity[v]
  BY DEF Put
<1>3. RecordsKept
  BY <1>1, <1>2 DEF RecordsKept
<1>4. RecordsGuarded
  BY <1>1, <1>2 DEF RecordsGuarded
<1> QED
  BY <1>2, <1>3, <1>4

\* Creation changes no termination time; an early exit appends one.
LEMMA TrackerTimes ==
    ASSUME NEW k \in VelocityTracker, NEW t \in Nat
    PROVE  /\ grow_portfolio(k).last_termination_times = k.last_termination_times
           /\ shrink_portfolio(record_termination(k, t)).last_termination_times
                 = Append(k.last_termination_times, t)
<1>1. grow_portfolio(k).last_termination_times = k.last_termination_times
  BY DEF grow_portfolio, VelocityTracker
<1> DEFINE s == Append(k.last_termination_times, t)
           n == k.terminations_24h + 1
           r == [k EXCEPT !.last_termination_times = s, !.terminations_24h = n]
<1>2. record_termination(k, t) = r
  BY DEF record_termination
<1>3. r.last_termination_times = s
  BY DEF VelocityTracker
<1> HIDE DEF s, n
<1>4. shrink_portfolio(r).last_termination_times = r.last_termination_times
  BY DEF shrink_portfolio, VelocityTracker
<1> QED
  BY <1>1, <1>2, <1>3, <1>4 DEF s

LEMMA NextTraced == IInv /\ [Next]_vars => Traced
<1> SUFFICES ASSUME IInv, [Next]_vars PROVE Traced
  OBVIOUS
<1>0. VelocityInv /\ now \in Nat
  BY DEF IInv
<1>b. ASSUME velocity' = velocity, historical_lease' = historical_lease PROVE Traced
  BY <1>b, NothingEarly
<1>1. CASE UNCHANGED vars \/ Tick \/ Settings
  BY <1>b, <1>1 DEF vars, settings, archive, Tick, Settings, initialize, set_admin,
                    set_platform_fee, set_kyc_provider, add_allowed_asset
<1>2. CASE Creation
  <2>1. ASSUME NEW id \in Ids, NEW p \in CreateParams, NEW locked,
               create_lease_instance(id, p, locked)
        PROVE  Traced
    <3> DEFINE k == grow_portfolio(initialize_lessor(p.landlord))
    <3>1. p.landlord \in Users
      BY ContractInputAssumption DEF CreateLeaseParams
    <3>2. initialize_lessor(p.landlord) \in VelocityTracker /\ k \in VelocityTracker
      BY <1>0, <3>1, TrackerType
    <3>3. k.last_termination_times = initialize_lessor(p.landlord).last_termination_times
      BY <1>0, <3>2, TrackerTimes
    <3>4. velocity' = Put(velocity, p.landlord, k) /\ historical_lease' = historical_lease
      BY <2>1 DEF create_lease_instance, archive
    <3> HIDE DEF k
    <3>5. RecordsKept /\ RecordsGuarded
      BY <1>0, <3>1, <3>2, <3>3, <3>4, LongerRecord
    <3> QED
      BY <3>4, <3>5 DEF Traced, NoEarlyExit, Unmoved
  <2>2. ASSUME NEW p, create_lease_with_continuous_billing(p)
        PROVE  Traced
    BY <1>b, <2>2 DEF create_lease_with_continuous_billing, archive
  <2> QED
    BY <1>2, <2>1, <2>2 DEF Creation
<1>3. ASSUME NEW id \in DOMAIN lease_instance,
             Rent(id) \/ Deposit(id) \/ Maintenance(id) \/ Ending(id)
      PROVE  Traced
  <2> DEFINE lease == lease_instance[id]
  <2>0. lease \in LeaseInstance
    BY DEF IInv, StoreInv, GoodLease
  <2>1. ASSUME NEW l, save_lease_instance(id, l) PROVE Traced
    BY <1>b, <2>1 DEF save_lease_instance, archive
  <2>2. CASE Rent(id)
    <3>1. ASSUME NEW payer \in Users, NEW amount \in Payments,
                 pay_lease_instance_rent(id, payer, amount)
          PROVE  Traced
      <4> DEFINE l == closed_by_buyout(with_payment(lease, amount))
      <4>1. velocity' = velocity
        BY <3>1 DEF pay_lease_instance_rent
      <4>2. archive_lease(id, l, Contract) \/ historical_lease' = historical_lease
        BY <3>1 DEF pay_lease_instance_rent, archive
      <4> HIDE DEF l
      <4> QED
        BY <4>1, <4>2, NothingEarly
    <3>2. ASSUME NEW roommate \in Roommates, add_authorized_payer(id, roommate)
          PROVE  Traced
      BY <1>b, <3>2 DEF add_authorized_payer, archive
    <3> QED
      BY <2>1, <2>2, <3>1, <3>2
         DEF Rent, set_lease_instance_buyout_price, set_withdrawal_address, withdraw_rent,
             check_tenant_default
  <2>3. CASE Deposit(id)
    BY <1>b, <2>1, <2>3
       DEF Deposit, settle_deposit, dispute_deposit, conclude_lease, resolve_dispute,
           mutual_deposit_release, init_mutual_release_fb, archive
  <2>4. CASE Maintenance(id)
    BY <2>1, <2>4 DEF Maintenance, set_inspector, report_maintenance_issue,
                      submit_repair_proof, verify_repair
  <2>5. ASSUME NEW caller \in Users, terminate_lease(id, caller)
        PROVE  Traced
    <3>1. velocity' = velocity /\ archive_lease(id, lease, caller) /\ lease.end_date <= now
      BY <1>0, <2>0, <2>5 DEF terminate_lease, may_terminate, LeaseInstance
    <3>2. lease.end_date \in Nat
      BY <2>0 DEF LeaseInstance
    <3> HIDE DEF lease
    <3>3. ~(now < lease.end_date)
      BY <1>0, <3>1, <3>2
    <3> QED
      BY <3>1, <3>3, NothingEarly
  <2>6. ASSUME NEW caller \in Users, execute_early_termination(id, caller)
        PROVE  Traced
    <3> DEFINE l == [ended(lease) EXCEPT !.active = FALSE]
               u == lease.landlord
               k == shrink_portfolio(record_termination(initialize_lessor(u), now))
               s == initialize_lessor(u).last_termination_times
    <3>1. /\ archive_lease(id, l, caller) /\ velocity' = Put(velocity, u, k)
          /\ WithinLimits(initialize_lessor(u), now)
      BY <2>6 DEF execute_early_termination
    <3>2. l.landlord = u /\ u \in Users
      BY <2>0 DEF ended, LeaseInstance
    <3>3. initialize_lessor(u) \in VelocityTracker /\ k \in VelocityTracker
      BY <1>0, <3>2, TrackerType
    <3>4. k.last_termination_times = Append(s, now) /\ s \in Seq(Nat)
      BY <1>0, <3>3, TrackerTimes DEF VelocityTracker
    <3> HIDE DEF k, l, u
    <3>5. /\ \A i \in DOMAIN s : i \in DOMAIN Append(s, now) /\ Append(s, now)[i] = s[i]
          /\ Len(s) + 1 \in DOMAIN Append(s, now) /\ Append(s, now)[Len(s) + 1] = now
      <4> HIDE DEF s
      <4> QED
        BY <1>0, <3>4
    <3>6. RecordsKept /\ RecordsGuarded /\ u \in DOMAIN velocity' /\ velocity'[u] = k
      BY <1>0, <3>1, <3>2, <3>3, <3>4, <3>5, LongerRecord
    <3>7. Len(s) + 1 \notin DOMAIN s /\ Len(s) + 1 \in Nat
      <4> HIDE DEF s
      <4> QED
        BY <3>4
    <3>8. NewEntry(u, Len(s) + 1)
      BY <3>7 DEF NewEntry, initialize_lessor
    <3>9. EarlyExit(id, Len(s) + 1)
      <4> DEFINE h == historical_lease'[id]
      <4>1. /\ h = [lease |-> l, terminated_by |-> caller, terminated_at |-> now]
            /\ \A x \in DOMAIN historical_lease' : x # id => Unmoved(x)
        BY <3>1, ArchiveEntry
      <4>2. h.lease.landlord = u /\ h.terminated_at = now
        BY <3>2, <4>1
      <4> HIDE DEF h, s
      <4>3. EntryOf(h, Len(s) + 1, velocity')
        BY <3>4, <3>5, <3>6, <4>2 DEF EntryOf
      <4> QED
        BY <3>7, <3>8, <4>1, <4>2, <4>3 DEF EarlyExit, h
    <3> QED
      BY <3>6, <3>9 DEF Traced
  <2>7. ASSUME NEW caller \in Users, sweep_expired_proposals(caller, id)
        PROVE  Traced
    BY <1>b, <2>7 DEF sweep_expired_proposals, archive
  <2>8. ASSUME NEW caller \in Users, reclaim(id, caller) \/ termination_refused(id, caller)
        PROVE  Traced
    BY <1>b, <2>1, <2>8 DEF reclaim, termination_refused, archive
  <2> QED
    BY <1>3, <2>2, <2>3, <2>4, <2>5, <2>6, <2>7, <2>8 DEF Ending
<1> QED
  BY <1>1, <1>2, <1>3 DEF Next

LEMMA MatchedStart == Init => MatchedInv
  BY DEF Init, MatchedInv, Matches

\* The early exits of the archive match different entries of their lessors' records.
THEOREM ExitsAlwaysMatched == Spec => []MatchedInv
<1>1. IInv /\ MatchedInv /\ [Next]_vars => MatchedInv'
  BY NextTraced, TracedKeeps
<1> QED
  BY <1>1, MatchedStart, Invariance, PTL DEF Spec

LEMMA MatchedTracked == MatchedInv => EarlyExitsTracked
  BY DEF MatchedInv, Matches, EntryOf, IsEarly, EarlyExitsTracked, LeftEarly

\* Every early exit in the archive is on the velocity record of its lessor, so the
\* limiter counts it while its window lasts: no other ending of a lease, no reuse of an
\* id and no creation takes it off.
THEOREM EarlyExitsAlwaysTracked == Spec => []EarlyExitsTracked
  BY MatchedTracked, ExitsAlwaysMatched, PTL

\* A share that is at most p when rounded down is below p + 1.
LEMMA RoundedShare ==
    ASSUME NEW n \in Nat, NEW d \in Nat \ {0}, NEW p \in Nat, n \div d <= p
    PROVE  n < (p + 1) * d
<1> DEFINE q == n \div d
<1>1. q \in Int /\ n < (q + 1) * d
  <2>1. q \in Int /\ n = q * d + (n % d) /\ (n % d) \in Int /\ (n % d) < d
    OBVIOUS
  <2> DEFINE r == n % d
  <2> HIDE DEF q, r
  <2>2. (q + 1) * d = q * d + d
    BY <2>1
  <2> QED
    BY <2>1, <2>2 DEF r
<1>2. q <= p
  OBVIOUS
<1> HIDE DEF q
<1>3. (q + 1) * d <= (p + 1) * d
  BY <1>1, <1>2
<1>4. (q + 1) * d \in Int /\ (p + 1) * d \in Int
  BY <1>1
<1> QED
  BY <1>1, <1>3, <1>4

\* The limiter counts every early exit of the last 24 hours, each one once.
LEMMA RecentExitsCounted ==
    ASSUME IInv, MatchedInv, NEW u \in Users, u \in DOMAIN velocity
    PROVE  LET counted == cleanup_old_terminations(velocity[u], now)
           IN  /\ Cardinality(counted) \in Nat /\ Cardinality(RecentExits(u)) \in Nat
               /\ Cardinality(RecentExits(u)) <= Cardinality(counted)
<1> DEFINE R == RecentExits(u)
           K == cleanup_old_terminations(velocity[u], now)
           s == velocity[u].last_termination_times
<1>1. s \in Seq(Nat)
  BY DEF IInv, VelocityInv, VelocityTracker
<1>2. PICK match : Matches(match, historical_lease, velocity)
  BY DEF MatchedInv
<1>3. ASSUME NEW x \in R
      PROVE  /\ x \in DOMAIN historical_lease /\ IsEarly(historical_lease[x])
             /\ historical_lease[x].lease.landlord = u
             /\ historical_lease[x].terminated_at >= now - VELOCITY_WINDOW
  BY DEF RecentExits, LeftEarly, IsEarly
<1>4. ASSUME NEW x \in R PROVE match[x] \in K
  BY <1>2, <1>3, <1>4 DEF Matches, EntryOf, cleanup_old_terminations
<1>5. ASSUME NEW x \in R, NEW y \in R, match[x] = match[y] PROVE x = y
  BY <1>2, <1>3, <1>5 DEF Matches
<1>6. IsFiniteSet(K)
  <2> HIDE DEF s
  <2>1. IsFiniteSet(1..Len(s)) /\ DOMAIN s = 1..Len(s)
    BY <1>1, FS_Interval
  <2>2. K \subseteq 1..Len(s)
    BY <2>1 DEF s, cleanup_old_terminations
  <2> QED
    BY <2>1, <2>2, FS_Subset
<1> HIDE DEF R, K
<1> DEFINE f == [x \in R |-> match[x]]
<1>7. f \in Injection(R, K)
  BY <1>4, <1>5 DEF Injection, IsInjective
<1>8. IsFiniteSet(R) /\ Cardinality(R) <= Cardinality(K)
  <2> HIDE DEF f
  <2> QED
    BY <1>6, <1>7, FS_Injection
<1>9. Cardinality(R) \in Nat /\ Cardinality(K) \in Nat
  BY <1>6, <1>8, FS_CardinalityType
<1> QED
  BY <1>8, <1>9 DEF R, K

\* A step that keeps the records guarded adds no exit beyond the threshold share.
LEMMA ExitGuarded ==
    ASSUME IInv, IInv', MatchedInv, RecordsGuarded, NEW u \in Users, ExitsNow(u),
           velocity[u].total_leases > 0
    PROVE  Cardinality(RecentExits(u)) * 10000
              < (VELOCITY_THRESHOLD_PERCENT + 1) * velocity[u].total_leases
<1>1. u \in DOMAIN velocity /\ velocity[u].total_leases \in Nat
  BY DEF ExitsNow, IInv, VelocityInv, VelocityTracker
<1>2. WithinLimits(velocity[u], now)
  <2>1. /\ Len(velocity'[u].last_termination_times) \in Nat
        /\ Len(velocity[u].last_termination_times) \in Nat
    BY DEF ExitsNow, IInv, VelocityInv, VelocityTracker
  <2>2. velocity'[u].last_termination_times # velocity[u].last_termination_times
    BY <2>1 DEF ExitsNow
  <2> QED
    BY <1>1, <2>2 DEF RecordsGuarded
<1> DEFINE c == Cardinality(cleanup_old_terminations(velocity[u], now))
           r == Cardinality(RecentExits(u))
           d == velocity[u].total_leases
<1>3. c \in Nat /\ r \in Nat /\ r <= c
  BY <1>1, RecentExitsCounted
<1>4. (c * 10000) \div d <= VELOCITY_THRESHOLD_PERCENT
  BY <1>2 DEF WithinLimits, velocity_percentage
<1>5. d \in Nat \ {0}
  BY <1>1
<1> HIDE DEF c, r, d
<1>6. c * 10000 < (VELOCITY_THRESHOLD_PERCENT + 1) * d
  BY <1>3, <1>4, <1>5, RoundedShare, VelocityAssumption
<1>7. (VELOCITY_THRESHOLD_PERCENT + 1) * d \in Int
  BY <1>5, VelocityAssumption
<1>8. r * 10000 < (VELOCITY_THRESHOLD_PERCENT + 1) * d
  BY <1>3, <1>6, <1>7
<1> QED
  BY <1>8 DEF r, d

\* No early exit goes through once the leases already left in the last 24 hours exceed
\* the threshold share of the lessor's portfolio, for any window and threshold and
\* whatever else happened to the lessor's leases and ids in between.
THEOREM MassExitsAlwaysBlocked == Spec => MassExitsBlocked
<1>1. IInv /\ MatchedInv /\ [Next]_vars =>
         [\A lessor \in Users :
            ExitsNow(lessor) /\ velocity[lessor].total_leases > 0 =>
               Cardinality(RecentExits(lessor)) * 10000
                  < (VELOCITY_THRESHOLD_PERCENT + 1) * velocity[lessor].total_leases]_vars
  <2>1. IInv /\ [Next]_vars => IInv' /\ RecordsGuarded
    BY NextKeeps, NextTraced DEF Traced
  <2> QED
    BY <2>1, ExitGuarded
<1> QED
  BY <1>1, Invariance, ExitsAlwaysMatched, PTL DEF Spec, MassExitsBlocked

-----------------------------------------------------------------------------
(***************************************************************************)
(* The rent books.  The rent a lease counts is written in one step with    *)
(* the balance of the payer, and every other step leaves the rent fields   *)
(* of a lease alone, starts them at zero or withdraws what was paid.       *)
(***************************************************************************)
\* The rent fields of a lease whose payers paid n in all.
GoodRent(l, n) ==
    /\ 0 <= l.rent_withdrawn /\ l.rent_withdrawn <= l.rent_paid
    /\ l.rent_paid = l.cumulative_payments
    /\ l.rent_paid <= n

RentInv ==
    /\ IsFiniteSet(DOMAIN roommate_balance)
    /\ \A id \in DOMAIN lease_instance : GoodRent(lease_instance[id], PaidInto(id))

SameRent(l, m) ==
    /\ m.rent_withdrawn = l.rent_withdrawn
    /\ m.rent_paid = l.rent_paid
    /\ m.cumulative_payments = l.cumulative_payments

Payers(id) == {k \in DOMAIN roommate_balance : k[1] = id}

LEMMA PaidIntoType ==
    ASSUME BookInv, IsFiniteSet(DOMAIN roommate_balance), NEW id
    PROVE  IsFiniteSet(Payers(id)) /\ PaidInto(id) \in Nat
<1>1. IsFiniteSet(Payers(id))
  BY FS_Subset DEF Payers
<1>2. \A k \in Payers(id) : roommate_balance[k] \in Nat
  BY DEF Payers, BookInv
<1>3. SumFunctionOnSet(roommate_balance, Payers(id)) \in Nat
  BY <1>1, <1>2, SumNat
<1> QED
  BY <1>1, <1>3 DEF PaidInto, Payers

\* A payment raises what its lease was paid, and nothing else.
LEMMA PaidIntoGrows ==
    ASSUME BookInv, IsFiniteSet(DOMAIN roommate_balance), NEW id, NEW payer, NEW amount \in Nat,
           roommate_balance' = credit_payer(id, payer, amount)
    PROVE  /\ IsFiniteSet(DOMAIN roommate_balance')
           /\ PaidInto(id)' = PaidInto(id) + amount
           /\ \A x : x # id => PaidInto(x)' = PaidInto(x)
<1> DEFINE k == <<id, payer>>
           D == DOMAIN roommate_balance
           before(y) == IF y \in D THEN roommate_balance[y] ELSE 0
           n == amount + before(k)
<1>0. k[1] = id
  OBVIOUS
<1>1. roommate_balance' = Put(roommate_balance, k, n)
  BY DEF credit_payer
<1>2. /\ \A y \in D : roommate_balance[y] \in Nat
      /\ before(k) \in Nat /\ n \in Nat
  BY DEF BookInv
<1> HIDE DEF k
<1>3. /\ DOMAIN roommate_balance' = D \cup {k} /\ roommate_balance'[k] = n
      /\ \A y \in D \ {k} : roommate_balance'[y] = roommate_balance[y]
  <2> HIDE DEF n, D
  <2> QED
    BY <1>1 DEF Put, D
<1>4. IsFiniteSet(DOMAIN roommate_balance')
  BY <1>3, FS_AddElement
<1>5. PaidInto(id)' = PaidInto(id) + amount
  <2> DEFINE T == Payers(id)
             S == T \cup {k}
             g == [y \in S |-> before(y)]
             f == roommate_balance
             h == roommate_balance'
  <2>1. IsFiniteSet(T) /\ IsFiniteSet(S) /\ k \in S /\ T \in SUBSET S
    BY PaidIntoType, FS_AddElement
  <2>2. T \subseteq D /\ (k \in D => k \in T)
    BY <1>0 DEF Payers
  <2>3. {y \in DOMAIN roommate_balance' : y[1] = id} = S
    BY <1>0, <1>3 DEF Payers
  <2>4. /\ \A y \in S : g[y] \in Int /\ h[y] \in Int
        /\ \A y \in S \ {k} : h[y] = g[y]
        /\ h[k] = n /\ g[k] = before(k)
        /\ \A y \in T : f[y] = g[y]
        /\ \A y \in S \ T : g[y] = 0
    BY <1>2, <1>3, <2>1, <2>2
  <2>5. PaidInto(id)' = SumFunctionOnSet(h, S) /\ PaidInto(id) = SumFunctionOnSet(f, T)
    BY <2>3 DEF PaidInto, Payers
  <2> HIDE DEF T, S, g, f, h, n, before
  <2>6. SumFunctionOnSet(g, S) = SumFunctionOnSet(f, T)
    BY <2>1, <2>4, SumFilter
  <2>7. SumFunctionOnSet(h, S) = SumFunctionOnSet(g, S) + (h[k] - g[k])
    BY <2>1, <2>4, SumChange
  <2>8. SumFunctionOnSet(g, S) \in Int
    BY <2>1, <2>4, SumType
  <2>9. h[k] - g[k] = amount
    BY <1>2, <2>4 DEF n
  <2> QED
    BY <2>5, <2>6, <2>7, <2>8, <2>9
<1>6. ASSUME NEW x, x # id
      PROVE  PaidInto(x)' = PaidInto(x)
  <2> DEFINE T == Payers(x)
             f == roommate_balance
             h == roommate_balance'
  <2>1. {y \in DOMAIN roommate_balance' : y[1] = x} = T
    BY <1>0, <1>3, <1>6 DEF Payers
  <2>2. \A y \in T : f[y] \in Int /\ h[y] = f[y]
    BY <1>0, <1>2, <1>3, <1>6 DEF Payers
  <2>3. PaidInto(x)' = SumFunctionOnSet(h, T) /\ PaidInto(x) = SumFunctionOnSet(f, T)
    BY <2>1 DEF PaidInto, Payers
  <2>4. IsFiniteSet(T)
    BY PaidIntoType
  <2> HIDE DEF T, f, h
  <2>5. SumFunctionOnSet(f, T) = SumFunctionOnSet(h, T)
    BY <2>2, <2>4, SumSame
  <2> QED
    BY <2>3, <2>5
<1> QED
  BY <1>4, <1>5, <1>6

\* The lease stored under id is replaced or new, and no rent is paid.
LEMMA RentStored ==
    ASSUME RentInv, NEW id, NEW m, GoodRent(m, PaidInto(id)),
           lease_instance' = Put(lease_instance, id, m), UNCHANGED roommate_balance
    PROVE  RentInv'
<1>1. \A x : PaidInto(x)' = PaidInto(x)
  BY DEF PaidInto
<1>2. /\ DOMAIN lease_instance' = DOMAIN lease_instance \cup {id} /\ lease_instance'[id] = m
      /\ \A x \in DOMAIN lease_instance \ {id} : lease_instance'[x] = lease_instance[x]
  BY DEF Put
<1>3. ASSUME NEW x \in DOMAIN lease_instance'
      PROVE  GoodRent(lease_instance'[x], PaidInto(x))
  BY <1>2 DEF RentInv
<1> QED
  BY <1>1, <1>3 DEF RentInv

\* No lease is written, and no rent is paid; one may be dropped.
LEMMA RentLeft ==
    ASSUME RentInv, UNCHANGED roommate_balance,
           \A x \in DOMAIN lease_instance' :
              x \in DOMAIN lease_instance /\ lease_instance'[x] = lease_instance[x]
    PROVE  RentInv'
<1>1. \A x : PaidInto(x)' = PaidInto(x)
  BY DEF PaidInto
<1> QED
  BY <1>1 DEF RentInv

LEMMA RentUntouched ==
    ASSUME RentInv, NEW id \in DOMAIN lease_instance, NEW m, SameRent(lease_instance[id], m),
           lease_instance' = Put(lease_instance, id, m), UNCHANGED roommate_balance
    PROVE  RentInv'
<1>1. GoodRent(m, PaidInto(id))
  BY DEF RentInv, GoodRent, SameRent
<1> QED
  BY <1>1, RentStored

\* The writes that are not about rent.
LEMMA OtherFields ==
    ASSUME NEW l \in LeaseInstance
    PROVE  /\ \A v : /\ SameRent(l, [l EXCEPT !.buyout_price = v])
                     /\ SameRent(l, [l EXCEPT !.withdrawal_address = v])
                     /\ SameRent(l, [l EXCEPT !.inspector = v])
                     /\ SameRent(l, [l EXCEPT !.maintenance_status = v])
                     /\ SameRent(l, [l EXCEPT !.deposit_status = v])
           /\ SameRent(l, ended(l)) /\ SameRent(l, disputed(l))
           /\ SameRent(l, [ended(l) EXCEPT !.active = FALSE])
           /\ SameRent(l, [l EXCEPT !.status = "Terminated", !.active = FALSE])
           /\ SameRent(l, with_flat_fee(l))
           /\ \A n : SameRent(l, with_seconds_late(with_flat_fee(l), n))
<1>1. \A v : /\ SameRent(l, [l EXCEPT !.buyout_price = v])
             /\ SameRent(l, [l EXCEPT !.withdrawal_address = v])
             /\ SameRent(l, [l EXCEPT !.inspector = v])
             /\ SameRent(l, [l EXCEPT !.maintenance_status = v])
             /\ SameRent(l, [l EXCEPT !.deposit_status = v])
  BY DEF SameRent, LeaseInstance
<1>2. /\ SameRent(l, ended(l)) /\ SameRent(l, disputed(l))
      /\ SameRent(l, [ended(l) EXCEPT !.active = FALSE])
      /\ SameRent(l, [l EXCEPT !.status = "Terminated", !.active = FALSE])
  BY DEF SameRent, LeaseInstance, ended, disputed
<1>3. SameRent(l, with_flat_fee(l))
  BY DEF SameRent, LeaseInstance, with_flat_fee
<1>4. ASSUME NEW n PROVE SameRent(l, with_seconds_late(with_flat_fee(l), n))
  <2> DEFINE k == with_flat_fee(l)
             d == k.debt + (n - k.seconds_late_charged) * k.late_fee_per_sec
             m == [k EXCEPT !.debt = d, !.seconds_late_charged = n]
  <2>1. with_seconds_late(k, n) = k \/ with_seconds_late(k, n) = m
    BY DEF with_seconds_late
  <2>2. DOMAIN k = DOMAIN l
    BY DEF with_flat_fee, LeaseInstance
  <2> HIDE DEF k, d
  <2>3. SameRent(k, m)
    BY DEF SameRent
  <2> QED
    BY <1>3, <2>1, <2>3 DEF SameRent, k
<1> QED
  BY <1>1, <1>2, <1>3, <1>4

LEMMA NextRent == IInv /\ RentInv /\ [Next]_vars => RentInv'
<1> SUFFICES ASSUME IInv, RentInv, [Next]_vars PROVE RentInv'
  OBVIOUS
<1>0. BookInv /\ IsFiniteSet(DOMAIN roommate_balance)
  BY DEF IInv, RentInv
<1>1. CASE UNCHANGED vars \/ Tick \/ Settings
  <2>1. UNCHANGED <<lease_instance, roommate_balance>>
    BY <1>1 DEF vars, rent_book, Tick, Settings, initialize, set_admin, set_platform_fee,
                set_kyc_provider, add_allowed_asset
  <2> QED
    BY <2>1, RentLeft
<1>2. ASSUME NEW id, NEW t, NEW locked, NEW status,
             lease_instance' = Put(lease_instance, id, NewLease(t, locked, status)),
             UNCHANGED roommate_balance
      PROVE  RentInv'
  <2> DEFINE m == NewLease(t, locked, status)
  <2>1. PaidInto(id) \in Nat
    BY <1>0, PaidIntoType
  <2>2. m.rent_withdrawn = 0 /\ m.rent_paid = 0 /\ m.cumulative_payments = 0
    BY DEF NewLease
  <2> HIDE DEF m
  <2>3. GoodRent(m, PaidInto(id))
    BY <2>1, <2>2 DEF GoodRent
  <2> QED
    BY <1>2, <2>3, RentStored DEF m
<1>3. CASE Creation
  BY <1>2, <1>3 DEF Creation, create_lease_instance, create_lease_with_continuous_billing,
                    rent_book
<1>4. ASSUME NEW id \in DOMAIN lease_instance,
             Rent(id) \/ Deposit(id) \/ Maintenance(id) \/ Ending(id)
      PROVE  RentInv'
  <2> DEFINE lease == lease_instance[id]
  <2>0. lease \in LeaseInstance
    BY DEF IInv, StoreInv, GoodLease
  <2>1. ASSUME NEW m, SameRent(lease, m), save_lease_instance(id, m)
        PROVE  RentInv'
    BY <2>1, RentUntouched DEF save_lease_instance, rent_book
  <2>2. ASSUME NEW m, NEW by, archive_lease(id, m, by), UNCHANGED roommate_balance
        PROVE  RentInv'
    <3>1. lease_instance' = Drop(lease_instance, id)
      BY <2>2 DEF archive_lease
    <3> QED
      BY <2>2, <3>1, RentLeft DEF Drop
  <2>3. CASE Rent(id)
    <3>1. ASSUME NEW payer \in Users, NEW amount \in Payments,
                 pay_lease_instance_rent(id, payer, amount)
          PROVE  RentInv'
      <4> DEFINE m == with_payment(lease, amount)
      <4>1. amount \in Nat /\ roommate_balance' = credit_payer(id, payer, amount)
        BY <3>1, ContractInputAssumption DEF pay_lease_instance_rent, CanTransfer
      <4>2. /\ IsFiniteSet(DOMAIN roommate_balance')
            /\ PaidInto(id)' = PaidInto(id) + amount
            /\ \A x : x # id => PaidInto(x)' = PaidInto(x)
        BY <1>0, <4>1, PaidIntoGrows
      <4>3. \/ lease_instance' = Drop(lease_instance, id)
            \/ lease_instance' = Put(lease_instance, id, m)
        BY <3>1 DEF pay_lease_instance_rent, archive_lease
      <4>4. /\ m.rent_withdrawn = lease.rent_withdrawn
            /\ m.rent_paid = lease.rent_paid + amount
            /\ m.cumulative_payments = lease.cumulative_payments + amount
        BY <2>0 DEF with_payment, LeaseInstance
      <4>5. /\ lease.rent_withdrawn \in Int /\ lease.rent_paid \in Int
            /\ lease.cumulative_payments \in Int /\ PaidInto(id) \in Nat
        BY <1>0, <2>0, PaidIntoType DEF LeaseInstance
      <4>6. GoodRent(lease, PaidInto(id))
        BY DEF RentInv
      <4> HIDE DEF m, lease
      <4>7. GoodRent(m, PaidInto(id) + amount)
        BY <4>1, <4>4, <4>5, <4>6 DEF GoodRent
      <4>8. ASSUME NEW x \in DOMAIN lease_instance'
            PROVE  GoodRent(lease_instance[x], PaidInto(x))'
        <5>1. CASE x = id
          <6>1. lease_instance'[id] = m
            BY <4>3, <5>1 DEF Drop, Put
          <6> QED
            BY <4>2, <4>7, <5>1, <6>1
        <5>2. CASE x # id
          <6>1. x \in DOMAIN lease_instance /\ lease_instance'[x] = lease_instance[x]
            BY <4>3, <5>2 DEF Drop, Put
          <6>2. GoodRent(lease_instance[x], PaidInto(x))
            BY <6>1 DEF RentInv
          <6> QED
            BY <4>2, <5>2, <6>1, <6>2
        <5> QED
          BY <5>1, <5>2
      <4> QED
        BY <4>2, <4>8 DEF RentInv
    <3>2. ASSUME NEW roommate \in Roommates, add_authorized_payer(id, roommate)
          PROVE  RentInv'
      BY <3>2, RentLeft DEF add_authorized_payer
    <3>3. CASE withdraw_rent(id)
      <4> DEFINE m == withdrawn(lease)
      <4>1. lease_instance' = Put(lease_instance, id, m) /\ UNCHANGED roommate_balance
        BY <3>3 DEF withdraw_rent, save_lease_instance, rent_book
      <4>2. /\ lease.rent_withdrawn \in Int /\ lease.rent_paid \in Int
            /\ lease.cumulative_payments \in Int
        BY <2>0 DEF LeaseInstance
      <4>3. /\ m.rent_withdrawn = lease.rent_withdrawn + (lease.rent_paid - lease.rent_withdrawn)
            /\ m.rent_paid = lease.rent_paid
            /\ m.cumulative_payments = lease.cumulative_payments
        BY <2>0 DEF withdrawn, LeaseInstance
      <4>4. GoodRent(lease, PaidInto(id))
        BY DEF RentInv
      <4> HIDE DEF m, lease
      <4>5. GoodRent(m, PaidInto(id))
        BY <4>2, <4>3, <4>4 DEF GoodRent
      <4> QED
        BY <4>1, <4>5, RentStored
    <3>4. CASE check_tenant_default(id)
      <4> DEFINE n == now - lease.grace_period_end
      <4>1. \/ save_lease_instance(id, lease)
            \/ save_lease_instance(id, with_seconds_late(with_flat_fee(lease), n))
        BY <3>4 DEF check_tenant_default
      <4>2. SameRent(lease, lease) /\ SameRent(lease, with_seconds_late(with_flat_fee(lease), n))
        <5>1. SameRent(lease, lease)
          BY DEF SameRent
        <5> HIDE DEF lease, n
        <5> QED
          BY <2>0, <5>1, OtherFields
      <4> QED
        BY <2>1, <4>1, <4>2
    <3>5. ASSUME NEW price, set_lease_instance_buyout_price(id, price)
          PROVE  RentInv'
      BY <2>0, <2>1, <3>5, OtherFields DEF set_lease_instance_buyout_price
    <3>6. ASSUME NEW wallet, set_withdrawal_address(id, wallet)
          PROVE  RentInv'
      BY <2>0, <2>1, <3>6, OtherFields DEF set_withdrawal_address
    <3> QED
      BY <2>3, <3>1, <3>2, <3>3, <3>4, <3>5, <3>6 DEF Rent
  <2>4. CASE Deposit(id)
    <3>1. /\ SameRent(lease, [lease EXCEPT !.deposit_status = "Settled"])
          /\ SameRent(lease, ended(lease)) /\ SameRent(lease, disputed(lease))
          /\ SameRent(lease, [ended(lease) EXCEPT !.active = FALSE])
      BY <2>0, OtherFields
    <3>2. ASSUME NEW r, NEW s, mutual_deposit_release(id, r, s)
          PROVE  RentInv'
      <4>1. /\ lease_instance' = Put(lease_instance, id, [ended(lease) EXCEPT !.active = FALSE])
            /\ UNCHANGED roommate_balance
        BY <3>2 DEF mutual_deposit_release, rent_book
      <4> QED
        BY <3>1, <4>1, RentUntouched
    <3> QED
      BY <2>1, <2>4, <3>1, <3>2
         DEF Deposit, settle_deposit, dispute_deposit, conclude_lease, resolve_dispute,
             init_mutual_release_fb
  <2>5. CASE Maintenance(id)
    <3>1. \A v : /\ SameRent(lease, [lease EXCEPT !.inspector = v])
                 /\ SameRent(lease, [lease EXCEPT !.maintenance_status = v])
      BY <2>0, OtherFields
    <3> QED
      BY <2>1, <2>5, <3>1 DEF Maintenance, set_inspector, report_maintenance_issue,
                              submit_repair_proof, verify_repair
  <2>6. ASSUME NEW caller \in Users, terminate_lease(id, caller)
        PROVE  RentInv'
    BY <2>2, <2>6 DEF terminate_lease, rent_book
  <2>7. ASSUME NEW caller \in Users, execute_early_termination(id, caller)
        PROVE  RentInv'
    BY <2>2, <2>7 DEF execute_early_termination, rent_book
  <2>8. ASSUME NEW caller \in Users, sweep_expired_proposals(caller, id)
        PROVE  RentInv'
    <3>1. lease_instance' = Drop(lease_instance, id) /\ UNCHANGED roommate_balance
      BY <2>8 DEF sweep_expired_proposals, rent_book
    <3> QED
      BY <3>1, RentLeft DEF Drop
  <2>9. ASSUME NEW caller \in Users, reclaim(id, caller)
        PROVE  RentInv'
    BY <2>0, <2>1, <2>9, OtherFields DEF reclaim
  <2>10. ASSUME NEW caller \in Users, termination_refused(id, caller)
         PROVE  RentInv'
    BY <2>10, RentLeft DEF termination_refused, rent_book
  <2> QED
    BY <1>4, <2>3, <2>4, <2>5, <2>6, <2>7, <2>8, <2>9, <2>10 DEF Ending
<1> QED
  BY <1>1, <1>3, <1>4 DEF Next

LEMMA RentStart == Init => RentInv
<1>1. Init => DOMAIN roommate_balance = {} /\ DOMAIN lease_instance = {}
  BY DEF Init
<1> QED
  BY <1>1, FS_EmptySet DEF RentInv

LEMMA RentInvBooks == RentInv => RentBooked
  BY DEF RentInv, GoodRent, RentBooked

\* The rent a lease counts as paid is covered by the balances of its payers, whoever and
\* however many they are, and withdrawals never run ahead of it, whatever else is done to
\* the lease or stored under its id later.
THEOREM RentAlwaysBooked == Spec => []RentBooked
  BY RentStart, RentInvBooks, NextRent, Invariance, PTL DEF Spec
=============================================================================
