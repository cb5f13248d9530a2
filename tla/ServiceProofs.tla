--------------------------- MODULE ServiceProofs ---------------------------
(***************************************************************************)
(* Proofs about the services that keep their own storage: the oracle       *)
(* registry (OracleGovernance), the Symbol-keyed leases (SymbolLeases),    *)
(* the collateral monitor (CollateralHealth), the solvency ledger          *)
(* (EscrowLedger) and the upgrade timelock (TimelockUpgrade), for any      *)
(* addresses, keys, terms, prices, amounts, rates, widths, delays, quorums *)
(* and bounds; and that they, and the libraries of LeaseLibraryProofs, run *)
(* side by side as each does alone (MCServices).                           *)
(***************************************************************************)
EXTENDS MCServices, LeaseLibraryProofs

\* The clock of the ledger moves forward only.
LEMMA TickLater ==
    ASSUME now \in StartTime..MaxTime, Tick
    PROVE  now' \in StartTime..MaxTime /\ now' > now /\ now \in Nat /\ now' \in Nat
  BY LedgerAssumption DEF Tick

-----------------------------------------------------------------------------
(***************************************************************************)
(* The oracle registry.                                                    *)
(***************************************************************************)

\* The lease l is served by a registered oracle, and when that oracle lost its place the
\* record says so from a time not before the migration.
ServedSoundly(l) ==
    LET o == active_lease_oracle[l]
        m == migration_history[l]
    IN  /\ o = m.new_oracle /\ o \in DOMAIN oracle_records
        /\ m.migrated_at <= now
        /\ oracle_records[o].status # "Whitelisted" =>
             oracle_records[o].updated_at >= m.migrated_at

GovernanceInv ==
    /\ now \in StartTime..MaxTime
    /\ GovernanceTypeOK
    /\ \A l \in DOMAIN active_lease_oracle : ServedSoundly(l)

LEMMA GovernanceInitInv == now = StartTime /\ GovernanceInit => GovernanceInv
  BY LedgerAssumption DEF GovernanceInit, GovernanceInv, GovernanceTypeOK

\* A registry write of the record of o, whitelisted or dated now, keeps the invariant.
LEMMA RecordWritten ==
    ASSUME GovernanceInv, NEW o \in OracleKeys, NEW r \in OracleGovernanceRecord,
           r.status = "Whitelisted" \/ r.updated_at = now,
           DOMAIN oracle_records' = DOMAIN oracle_records \cup {o}, oracle_records'[o] = r,
           \A x \in DOMAIN oracle_records : x # o => oracle_records'[x] = oracle_records[x],
           whitelist_count' \in Nat, blacklist_count' \in Nat,
           UNCHANGED <<governance_admins, active_lease_oracle, migration_history, now>>
    PROVE  GovernanceInv'
  <1>1. GovernanceTypeOK'
    BY DEF GovernanceInv, GovernanceTypeOK
  <1>2. ASSUME NEW l \in DOMAIN active_lease_oracle' PROVE ServedSoundly(l)'
    <2>1. ServedSoundly(l)
      BY <1>2 DEF GovernanceInv
    <2>2. CASE active_lease_oracle[l] = o
      BY <2>1, <2>2 DEF ServedSoundly
    <2>3. CASE active_lease_oracle[l] # o
      BY <2>1, <2>3 DEF ServedSoundly
    <2> QED BY <2>2, <2>3
  <1> QED BY <1>1, <1>2 DEF GovernanceInv

LEMMA GovernanceNextInv ==
    GovernanceInv /\ [GovernanceNext]_<<now, governance_vars>> => GovernanceInv'
  <1> SUFFICES ASSUME GovernanceInv, [GovernanceNext]_<<now, governance_vars>>
               PROVE  GovernanceInv'
    OBVIOUS
  <1>0. now \in Nat /\ whitelist_count \in Nat /\ blacklist_count \in Nat
    BY LedgerAssumption DEF GovernanceInv, GovernanceTypeOK
  <1>1. CASE UNCHANGED <<now, governance_vars>>
    BY <1>1 DEF governance_vars, GovernanceInv, GovernanceTypeOK, ServedSoundly
  <1>2. CASE GovernanceTick
    <2>1. now' \in StartTime..MaxTime /\ now' > now /\ now' \in Nat
      BY <1>2, TickLater DEF GovernanceTick, GovernanceInv
    <2>2. GovernanceTypeOK'
      BY <1>2 DEF GovernanceTick, governance_vars, GovernanceInv, GovernanceTypeOK
    <2>3. ASSUME NEW l \in DOMAIN active_lease_oracle' PROVE ServedSoundly(l)'
      <3>1. /\ ServedSoundly(l) /\ migration_history[l] \in OracleMigration
            /\ UNCHANGED <<oracle_records, active_lease_oracle, migration_history>>
        BY <1>2, <2>3 DEF GovernanceTick, governance_vars, GovernanceInv, GovernanceTypeOK
      <3> QED BY <1>0, <2>1, <3>1 DEF ServedSoundly, OracleMigration
    <2> QED BY <2>1, <2>2, <2>3 DEF GovernanceInv
  <1>3. ASSUME NEW u \in Governors, NEW v \in Governors,
               \/ initialize_governance(u) \/ add_governance_admin(u, v)
               \/ remove_governance_admin(u, v)
        PROVE  GovernanceInv'
    BY <1>3 DEF initialize_governance, add_governance_admin, remove_governance_admin,
                GovernanceInv, GovernanceTypeOK, ServedSoundly
  <1>4. ASSUME NEW u \in Governors, NEW o \in OracleKeys, whitelist_oracle(u, o)
        PROVE  GovernanceInv'
    <2> DEFINE r == NewRecord(u, "Whitelisted", {})
    <2>1. r \in OracleGovernanceRecord /\ r.status = "Whitelisted"
      BY <1>0 DEF NewRecord, OracleGovernanceRecord
    <2> HIDE DEF r
    <2>2. /\ oracle_records' = Store(oracle_records, o, r)
          /\ whitelist_count' \in Nat /\ blacklist_count' \in Nat
          /\ UNCHANGED <<governance_admins, active_lease_oracle, migration_history, now>>
      BY <1>0, <1>4 DEF whitelist_oracle, r
    <2>3. /\ DOMAIN oracle_records' = DOMAIN oracle_records \cup {o} /\ oracle_records'[o] = r
          /\ \A x \in DOMAIN oracle_records : x # o => oracle_records'[x] = oracle_records[x]
      BY <2>2 DEF Store
    <2> QED BY <2>1, <2>2, <2>3, RecordWritten
  <1>5. ASSUME NEW u \in Governors, NEW o \in OracleKeys, NEW affected \in SUBSET ServedLeases,
               emergency_blacklist(u, o, affected)
        PROVE  GovernanceInv'
    <2> DEFINE r == IF o \in DOMAIN oracle_records
                    THEN [oracle_records[o] EXCEPT !.status = "Blacklisted", !.updated_at = now,
                                                   !.affected_leases = affected]
                    ELSE NewRecord(u, "Blacklisted", affected)
    <2>1. r \in OracleGovernanceRecord /\ r.updated_at = now
      <3>1. CASE o \in DOMAIN oracle_records
        <4>1. oracle_records[o] \in OracleGovernanceRecord
          BY <3>1 DEF GovernanceInv, GovernanceTypeOK
        <4> QED BY <1>0, <3>1, <4>1 DEF OracleGovernanceRecord
      <3>2. CASE o \notin DOMAIN oracle_records
        BY <1>0, <3>2 DEF NewRecord, OracleGovernanceRecord
      <3> QED BY <3>1, <3>2
    <2> HIDE DEF r
    <2>2. /\ oracle_records' = Store(oracle_records, o, r)
          /\ whitelist_count' \in Nat /\ blacklist_count' \in Nat
          /\ UNCHANGED <<governance_admins, active_lease_oracle, migration_history, now>>
      BY <1>0, <1>5 DEF emergency_blacklist, r
    <2>3. /\ DOMAIN oracle_records' = DOMAIN oracle_records \cup {o} /\ oracle_records'[o] = r
          /\ \A x \in DOMAIN oracle_records : x # o => oracle_records'[x] = oracle_records[x]
      BY <2>2 DEF Store
    <2> QED BY <2>1, <2>2, <2>3, RecordWritten
  <1>6. ASSUME NEW u \in Governors, NEW o \in OracleKeys,
               suspend_oracle(u, o) \/ reactivate_oracle(u, o)
        PROVE  GovernanceInv'
    <2>1. PICK st \in {"Suspended", "Whitelisted"} :
            oracle_records' = [oracle_records EXCEPT ![o].status = st, ![o].updated_at = now]
      BY <1>6 DEF suspend_oracle, reactivate_oracle
    <2>2. /\ o \in DOMAIN oracle_records
          /\ UNCHANGED <<governance_admins, whitelist_count, blacklist_count,
                         active_lease_oracle, migration_history, now>>
      BY <1>6 DEF suspend_oracle, reactivate_oracle, reactivatable, StatusOf
    <2> DEFINE r == [oracle_records[o] EXCEPT !.status = st, !.updated_at = now]
    <2>3. oracle_records[o] \in OracleGovernanceRecord
      BY <2>2 DEF GovernanceInv, GovernanceTypeOK
    <2>4. r \in OracleGovernanceRecord /\ r.updated_at = now
      BY <1>0, <2>3 DEF OracleGovernanceRecord
    <2>5. oracle_records' = [oracle_records EXCEPT ![o] = r]
      BY <2>1
    <2> HIDE DEF r
    <2>6. /\ DOMAIN oracle_records' = DOMAIN oracle_records \cup {o} /\ oracle_records'[o] = r
          /\ \A x \in DOMAIN oracle_records : x # o => oracle_records'[x] = oracle_records[x]
      BY <2>2, <2>5
    <2> QED BY <1>0, <2>2, <2>4, <2>6, RecordWritten
  <1>7. ASSUME NEW u \in Governors, NEW l \in ServedLeases, NEW old \in OracleKeys,
               NEW new \in OracleKeys, migrate_lease_oracle(u, l, old, new)
        PROVE  GovernanceInv'
    <2> DEFINE m == [old_oracle |-> old, new_oracle |-> new, migrated_at |-> now,
                     migrated_by |-> u]
    <2>1. m \in OracleMigration /\ m.migrated_at = now /\ m.new_oracle = new
      BY <1>0 DEF OracleMigration
    <2> HIDE DEF m
    <2>2. /\ migration_history' = Store(migration_history, l, m)
          /\ active_lease_oracle' = Store(active_lease_oracle, l, new)
          /\ UNCHANGED <<governance_admins, oracle_records, whitelist_count, blacklist_count, now>>
          /\ StatusOf(new) = "Whitelisted"
      BY <1>7 DEF migrate_lease_oracle, may_serve, m
    <2>3. new \in DOMAIN oracle_records /\ oracle_records[new].status = "Whitelisted"
      BY <2>2, GovernanceAssumption DEF StatusOf
    <2>4. GovernanceTypeOK'
      BY <2>1, <2>2 DEF Store, GovernanceInv, GovernanceTypeOK
    <2>5. ASSUME NEW x \in DOMAIN active_lease_oracle' PROVE ServedSoundly(x)'
      <3>1. CASE x = l
        <4>1. active_lease_oracle'[x] = new /\ migration_history'[x] = m
          BY <2>2, <3>1 DEF Store
        <4> QED BY <1>0, <2>1, <2>2, <2>3, <4>1 DEF ServedSoundly
      <3>2. CASE x # l
        <4>1. x \in DOMAIN active_lease_oracle /\ x \in DOMAIN migration_history
          BY <2>2, <2>5, <3>2 DEF Store, GovernanceInv, GovernanceTypeOK
        <4>2. /\ active_lease_oracle'[x] = active_lease_oracle[x]
              /\ migration_history'[x] = migration_history[x]
          BY <2>2, <3>2, <4>1 DEF Store
        <4> QED BY <2>2, <4>1, <4>2 DEF ServedSoundly, GovernanceInv
      <3> QED BY <3>1, <3>2
    <2> QED BY <2>2, <2>4, <2>5 DEF GovernanceInv
  <1> QED BY <1>1, <1>2, <1>3, <1>4, <1>5, <1>6, <1>7 DEF GovernanceNext

\* The registry keeps its invariant (every function of oracle_governance.rs).
THEOREM GovernanceInvariance == GovernanceSpec => []GovernanceInv
  BY GovernanceInitInv, GovernanceNextInv, PTL DEF GovernanceSpec

\* A lease whose oracle is suspended or blacklisted can be told by comparing the times of
\* the record and of the migration, and every lease is served by the oracle of its last
\* migration, which the registry still knows (migrate_lease_oracle, suspend_oracle,
\* emergency_blacklist).
THEOREM StaleOraclesExplained == GovernanceSpec => [](GovernanceTypeOK /\ StaleOracleExplained)
  <1>1. GovernanceInv => StaleOracleExplained
    <2> SUFFICES ASSUME GovernanceInv, NEW l \in DOMAIN active_lease_oracle
                 PROVE  LET o == active_lease_oracle[l]
                        IN /\ o = migration_history[l].new_oracle
                           /\ StatusOf(o) # None
                           /\ StatusOf(o) # "Whitelisted" =>
                                oracle_records[o].updated_at >= migration_history[l].migrated_at
      BY DEF StaleOracleExplained
    <2>1. ServedSoundly(l)
      BY DEF GovernanceInv
    <2>2. oracle_records[active_lease_oracle[l]] \in OracleGovernanceRecord
      BY <2>1 DEF GovernanceInv, GovernanceTypeOK, ServedSoundly
    <2>3. oracle_records[active_lease_oracle[l]].status # None
      BY <2>2, GovernanceAssumption DEF OracleGovernanceRecord
    <2> QED BY <2>1, <2>3 DEF ServedSoundly, StatusOf
  <1>2. GovernanceInv => GovernanceTypeOK
    BY DEF GovernanceInv
  <1> QED BY <1>1, <1>2, GovernanceInvariance, PTL

\* An oracle leaves the blacklist only by a new entry into the whitelist: suspend_oracle and
\* reactivate_oracle do not bring it back.
THEOREM BlacklistLeft == GovernanceSpec => BlacklistLeftByReentry
  <1>1. ASSUME GovernanceInv, GovernanceNext, NEW o \in OracleKeys,
               StatusOf(o) = "Blacklisted", StatusOf(o)' # "Blacklisted"
        PROVE  /\ whitelist_count' = whitelist_count + 1
               /\ oracle_records'[o].affected_leases = {}
    <2>0. o \in DOMAIN oracle_records /\ oracle_records[o].status = "Blacklisted"
      BY <1>1, GovernanceAssumption DEF StatusOf
    <2>1. oracle_records' # oracle_records
      BY <1>1 DEF StatusOf
    <2>2. ASSUME NEW u \in Governors, NEW x \in OracleKeys, whitelist_oracle(u, x)
          PROVE  /\ whitelist_count' = whitelist_count + 1
                 /\ oracle_records'[o].affected_leases = {}
      <3> DEFINE r == NewRecord(u, "Whitelisted", {})
      <3>1. r.affected_leases = {}
        BY DEF NewRecord
      <3> HIDE DEF r
      <3>2. whitelist_count' = whitelist_count + 1 /\ oracle_records' = Store(oracle_records, x, r)
        BY <2>2 DEF whitelist_oracle, r
      <3>3. x = o
        BY <1>1, <2>0, <3>2 DEF Store, StatusOf
      <3> QED BY <3>1, <3>2, <3>3 DEF Store
    <2>3. ASSUME NEW u \in Governors, NEW x \in OracleKeys, NEW affected \in SUBSET ServedLeases,
                 emergency_blacklist(u, x, affected)
          PROVE  FALSE
      <3> DEFINE r == [oracle_records[x] EXCEPT !.status = "Blacklisted", !.updated_at = now,
                                                !.affected_leases = affected]
      <3>1. CASE x = o
        <4>1. oracle_records[o] \in OracleGovernanceRecord
          BY <1>1, <2>0 DEF GovernanceInv, GovernanceTypeOK
        <4>2. r.status = "Blacklisted"
          BY <3>1, <4>1 DEF OracleGovernanceRecord
        <4> HIDE DEF r
        <4>3. oracle_records' = Store(oracle_records, x, r)
          BY <2>0, <2>3, <3>1 DEF emergency_blacklist, r
        <4> QED BY <1>1, <2>0, <3>1, <4>2, <4>3 DEF Store, StatusOf
      <3>2. CASE x # o
        BY <1>1, <2>0, <2>3, <3>2 DEF emergency_blacklist, Store, StatusOf
      <3> QED BY <3>1, <3>2
    <2>4. ASSUME NEW u \in Governors, NEW x \in OracleKeys,
                 suspend_oracle(u, x) \/ reactivate_oracle(u, x)
          PROVE  FALSE
      <3>1. x # o
        BY <1>1, <2>4 DEF suspend_oracle, reactivate_oracle, reactivatable
      <3>2. oracle_records'[o] = oracle_records[o] /\ DOMAIN oracle_records' = DOMAIN oracle_records
        BY <2>0, <2>4, <3>1 DEF suspend_oracle, reactivate_oracle
      <3> QED BY <1>1, <2>0, <3>2 DEF StatusOf
    <2> QED BY <1>1, <2>1, <2>2, <2>3, <2>4
            DEF GovernanceNext, GovernanceTick, governance_vars, initialize_governance,
                add_governance_admin, remove_governance_admin, migrate_lease_oracle
  <1>2. GovernanceInv /\ [GovernanceNext]_<<now, governance_vars>> =>
          [\A o \in OracleKeys :
             (StatusOf(o) = "Blacklisted" /\ StatusOf(o)' # "Blacklisted") =>
                /\ whitelist_count' = whitelist_count + 1
                /\ oracle_records'[o].affected_leases = {}]_governance_vars
    BY <1>1
  <1> QED BY <1>2, GovernanceInvariance, PTL DEF GovernanceSpec, BlacklistLeftByReentry

-----------------------------------------------------------------------------
(***************************************************************************)
(* The Symbol-keyed leases.                                                *)
(***************************************************************************)
SymbolInv == now \in StartTime..MaxTime /\ SymbolTypeOK

LEMMA SymbolInitInv == now = StartTime /\ SymbolInit => SymbolInv
  BY LedgerAssumption DEF SymbolInit, SymbolInv, SymbolTypeOK

\* A payment keeps the type of a lease.
LEMMA PaidLease ==
    ASSUME NEW paying \in SymbolLease, NEW amount \in Int
    PROVE  after_payment(paying, amount) \in SymbolLease
  <1> DEFINE total == paying.cumulative_payments + amount
             paid == [paying EXCEPT !.cumulative_payments = total]
  <1>1. total \in Int
    BY DEF SymbolLease
  <1> HIDE DEF total
  <1>2. paid \in SymbolLease
    BY <1>1 DEF SymbolLease
  <1>3. after_payment(paying, amount) =
            IF bought_out(paid) THEN [paid EXCEPT !.active = FALSE, !.status = "Terminated"]
            ELSE paid
    BY DEF after_payment, total
  <1> HIDE DEF paid
  <1>4. [paid EXCEPT !.active = FALSE, !.status = "Terminated"] \in SymbolLease
    BY <1>2 DEF SymbolLease
  <1> QED BY <1>2, <1>3, <1>4

\* A new lease has its type.
LEMMA NewLease ==
    ASSUME now \in Nat, NEW l \in Renters, NEW t \in Renters, NEW d \in Int, NEW e \in Nat
    PROVE  /\ new_lease(l, t, d, e) \in SymbolLease
           /\ new_lease(l, t, d, e).status = "Pending"
           /\ new_lease(l, t, d, e).cumulative_payments = 0
           /\ new_lease(l, t, d, e).buyout_price = None
           /\ new_lease(l, t, d, e).start_date = now
  BY DEF new_lease, SymbolLease

\* What each function does to the lease it writes: it creates a new one, or changes one that
\* is there, and then it changes a closed one in its status and its price only.
SymbolWrite(id, l) ==
    /\ id \in Symbols /\ l \in SymbolLease
    /\ DOMAIN symbol_lease' = DOMAIN symbol_lease \cup {id} /\ symbol_lease'[id] = l
    /\ \A x \in DOMAIN symbol_lease : x # id => symbol_lease'[x] = symbol_lease[x]
    /\ \/ /\ l.status = "Pending" /\ l.cumulative_payments = 0
          /\ l.buyout_price = None /\ l.start_date = now
       \/ /\ id \in DOMAIN symbol_lease
          /\ ~symbol_lease[id].active =>
                /\ ~l.active /\ l.cumulative_payments = symbol_lease[id].cumulative_payments
                /\ l.landlord = symbol_lease[id].landlord /\ l.tenant = symbol_lease[id].tenant

LEMMA SymbolWrites ==
    ASSUME SymbolInv, [SymbolNext]_<<now, symbol_vars>>
    PROVE  \/ UNCHANGED symbol_lease
           \/ /\ now' = now /\ UNCHANGED receipt /\ symbol_created' \in Nat
              /\ \E id \in Symbols, l \in SymbolLease : SymbolWrite(id, l)
  <1> DEFINE Goal == /\ now' = now /\ UNCHANGED receipt /\ symbol_created' \in Nat
                     /\ \E id \in Symbols, l \in SymbolLease : SymbolWrite(id, l)
  <1>0. now \in Nat /\ symbol_created \in Nat
    BY LedgerAssumption DEF SymbolInv, SymbolTypeOK
  <1>1. ASSUME NEW id \in Symbols, NEW l \in Renters, NEW t \in Renters, NEW dep \in Int,
               NEW e \in Nat, symbol_lease' = Store(symbol_lease, id, new_lease(l, t, dep, e))
        PROVE  \E i \in Symbols, n \in SymbolLease : SymbolWrite(i, n)
    <2> DEFINE n == new_lease(l, t, dep, e)
    <2>1. /\ n \in SymbolLease /\ n.status = "Pending" /\ n.cumulative_payments = 0
          /\ n.buyout_price = None /\ n.start_date = now
      BY <1>0, NewLease
    <2> HIDE DEF n
    <2>2. symbol_lease' = Store(symbol_lease, id, n)
      BY <1>1 DEF n
    <2>3. SymbolWrite(id, n)
      BY <2>1, <2>2 DEF Store, SymbolWrite
    <2> QED BY <2>1, <2>3
  <1>2. ASSUME NEW l \in Renters, NEW t \in Renters, NEW id \in Symbols, NEW d \in LeaseSpans,
               initialize_lease(id, l, t, 1, d)
        PROVE  Goal
    <2>1. now + d \in Nat
      BY <1>0, SymbolAssumption
    <2> QED BY <1>0, <1>1, <1>2, <2>1 DEF initialize_lease
  <1>3. ASSUME NEW l \in Renters, NEW t \in Renters, create_lease(l, t)
        PROVE  Goal
    BY <1>0, <1>1, <1>3, SymbolAssumption DEF create_lease
  <1>4. ASSUME NEW id \in Symbols, NEW l \in SymbolLease, id \in DOMAIN symbol_lease,
               symbol_lease' = [symbol_lease EXCEPT ![id] = l],
               ~symbol_lease[id].active =>
                   /\ ~l.active /\ l.cumulative_payments = symbol_lease[id].cumulative_payments
                   /\ l.landlord = symbol_lease[id].landlord
                   /\ l.tenant = symbol_lease[id].tenant
        PROVE  SymbolWrite(id, l)
    BY <1>4 DEF SymbolWrite
  <1>5. ASSUME NEW id \in Symbols, NEW u \in Renters, activate_lease(id, u)
        PROVE  Goal
    <2> DEFINE l == [symbol_lease[id] EXCEPT !.status = "Active"]
    <2>1. id \in DOMAIN symbol_lease /\ symbol_lease' = [symbol_lease EXCEPT ![id] = l]
          /\ UNCHANGED <<now, receipt, symbol_created>>
      BY <1>5 DEF activate_lease
    <2>2. symbol_lease[id] \in SymbolLease
      BY <2>1 DEF SymbolInv, SymbolTypeOK
    <2>3. /\ l \in SymbolLease /\ l.active = symbol_lease[id].active
          /\ l.cumulative_payments = symbol_lease[id].cumulative_payments
          /\ l.landlord = symbol_lease[id].landlord /\ l.tenant = symbol_lease[id].tenant
      BY <2>2 DEF SymbolLease
    <2> HIDE DEF l
    <2>4. SymbolWrite(id, l)
      BY <1>4, <2>1, <2>3
    <2> QED BY <1>0, <2>1, <2>3, <2>4
  <1>6. ASSUME NEW id \in Symbols, NEW u \in Renters, end_lease(id, u)
        PROVE  Goal
    <2> DEFINE l == [symbol_lease[id] EXCEPT !.status = "Terminated", !.active = FALSE]
    <2>1. id \in DOMAIN symbol_lease /\ symbol_lease' = [symbol_lease EXCEPT ![id] = l]
          /\ UNCHANGED <<now, receipt, symbol_created>>
      BY <1>6 DEF end_lease
    <2>2. symbol_lease[id] \in SymbolLease
      BY <2>1 DEF SymbolInv, SymbolTypeOK
    <2>3. /\ l \in SymbolLease /\ ~l.active
          /\ l.cumulative_payments = symbol_lease[id].cumulative_payments
          /\ l.landlord = symbol_lease[id].landlord /\ l.tenant = symbol_lease[id].tenant
      BY <2>2 DEF SymbolLease
    <2> HIDE DEF l
    <2>4. SymbolWrite(id, l)
      BY <1>4, <2>1, <2>3
    <2> QED BY <1>0, <2>1, <2>3, <2>4
  <1>7. ASSUME NEW id \in Symbols, NEW u \in Renters, NEW price \in SymbolPrices,
               set_buyout_price(id, u, price)
        PROVE  Goal
    <2> DEFINE l == [symbol_lease[id] EXCEPT !.buyout_price = price]
    <2>1. id \in DOMAIN symbol_lease /\ symbol_lease' = [symbol_lease EXCEPT ![id] = l]
          /\ UNCHANGED <<now, receipt, symbol_created>>
      BY <1>7 DEF set_buyout_price
    <2>2. symbol_lease[id] \in SymbolLease /\ price \in Int
      BY <2>1, SymbolAssumption DEF SymbolInv, SymbolTypeOK
    <2>3. /\ l \in SymbolLease /\ l.active = symbol_lease[id].active
          /\ l.cumulative_payments = symbol_lease[id].cumulative_payments
          /\ l.landlord = symbol_lease[id].landlord /\ l.tenant = symbol_lease[id].tenant
      BY <2>2 DEF SymbolLease
    <2> HIDE DEF l
    <2>4. SymbolWrite(id, l)
      BY <1>4, <2>1, <2>3
    <2> QED BY <1>0, <2>1, <2>3, <2>4
  <1>8. ASSUME NEW id \in Symbols, NEW amount \in SymbolPayments, pay_rent(id, amount)
        PROVE  Goal
    <2> DEFINE l == after_payment(symbol_lease[id], amount)
    <2>1. id \in DOMAIN symbol_lease /\ symbol_lease' = [symbol_lease EXCEPT ![id] = l]
          /\ UNCHANGED <<now, receipt, symbol_created>> /\ symbol_lease[id].active
      BY <1>8 DEF pay_rent, may_pay
    <2>2. l \in SymbolLease
      BY <2>1, PaidLease, SymbolAssumption DEF SymbolInv, SymbolTypeOK
    <2> HIDE DEF l
    <2>3. SymbolWrite(id, l)
      BY <1>4, <2>1, <2>2
    <2> QED BY <1>0, <2>1, <2>2, <2>3
  <1> QED BY <1>2, <1>3, <1>5, <1>6, <1>7, <1>8
          DEF SymbolNext, symbol_vars, pay_rent_receipt

LEMMA SymbolNextInv == SymbolInv /\ [SymbolNext]_<<now, symbol_vars>> => SymbolInv'
  <1> SUFFICES ASSUME SymbolInv, [SymbolNext]_<<now, symbol_vars>> PROVE SymbolInv'
    OBVIOUS
  <1>1. CASE UNCHANGED symbol_lease
    <2>1. now' \in StartTime..MaxTime
      BY TickLater DEF SymbolInv, SymbolNext, symbol_vars, initialize_lease, create_lease,
         activate_lease, end_lease, set_buyout_price, pay_rent, pay_rent_receipt
    <2>2. symbol_created' \in Nat
      <3>1. symbol_created' = symbol_created \/ symbol_created' = symbol_created + 1
        BY DEF SymbolNext, symbol_vars, initialize_lease, create_lease, activate_lease, end_lease,
               set_buyout_price, pay_rent, pay_rent_receipt
      <3> QED BY <3>1 DEF SymbolInv, SymbolTypeOK
    <2>3. DOMAIN receipt' \subseteq Symbols \X Months
      <3>1. \/ receipt' = receipt
            \/ \E id \in Symbols, m \in Months, amount \in SymbolPayments :
                   pay_rent_receipt(id, m, amount)
        BY DEF SymbolNext, symbol_vars, initialize_lease, create_lease, activate_lease, end_lease,
               set_buyout_price, pay_rent
      <3>2. ASSUME NEW id \in Symbols, NEW m \in Months, NEW amount \in SymbolPayments,
                   pay_rent_receipt(id, m, amount)
            PROVE  DOMAIN receipt' \subseteq Symbols \X Months
        <4>1. DOMAIN receipt' = DOMAIN receipt \cup {<<id, m>>}
          BY <3>2 DEF pay_rent_receipt, Store
        <4> QED BY <4>1 DEF SymbolInv, SymbolTypeOK
      <3>3. DOMAIN receipt \subseteq Symbols \X Months
        BY DEF SymbolInv, SymbolTypeOK
      <3> QED BY <3>1, <3>2, <3>3
    <2> QED BY <1>1, <2>1, <2>2, <2>3 DEF SymbolInv, SymbolTypeOK
  <1>2. CASE /\ now' = now /\ UNCHANGED receipt /\ symbol_created' \in Nat
             /\ \E id \in Symbols, l \in SymbolLease : SymbolWrite(id, l)
    BY <1>2 DEF SymbolInv, SymbolTypeOK, SymbolWrite
  <1> QED BY <1>1, <1>2, SymbolWrites

\* Every state of the Symbol-keyed leases is well typed.
THEOREM SymbolTypes == SymbolSpec => []SymbolInv
  BY SymbolInitInv, SymbolNextInv, PTL DEF SymbolSpec

\* A lease that was sold or ended takes no further payment and keeps its parties, although
\* activate_lease may show it as Active again; only initialize_lease or create_lease opens
\* its symbol, with nothing paid and no price.
THEOREM ClosedLeaseStaysClosed == SymbolSpec => ClosedLeaseTakesNothing
  <1>1. SymbolInv /\ [SymbolNext]_<<now, symbol_vars>> =>
          [\A id \in DOMAIN symbol_lease :
              LET before == symbol_lease[id]
                  after == symbol_lease'[id]
              IN  ~before.active =>
                     \/ /\ ~after.active
                        /\ after.cumulative_payments = before.cumulative_payments
                        /\ after.landlord = before.landlord /\ after.tenant = before.tenant
                     \/ /\ after.status = "Pending" /\ after.cumulative_payments = 0
                        /\ after.buyout_price = None /\ after.start_date = now]_symbol_lease
    BY SymbolWrites DEF SymbolWrite
  <1> QED BY <1>1, SymbolTypes, PTL DEF SymbolSpec, ClosedLeaseTakesNothing

-----------------------------------------------------------------------------
(***************************************************************************)
(* The collateral monitor.                                                 *)
(***************************************************************************)
ConfigInv ==
    /\ now \in StartTime..MaxTime
    /\ health_threshold \in Nat \cup {None}
    /\ health_threshold # None => grace_period \in Nat
    /\ grace_period \in Nat \cup {None}
    /\ DOMAIN collateral_health # {} => health_threshold # None

HealthInv ==
    /\ DOMAIN collateral_health \subseteq BackedLeases
    /\ \A l \in DOMAIN collateral_health :
          /\ collateral_health[l] \in CollateralHealthType
          /\ collateral_health[l].status = "under_collateralized" => l \in DOMAIN margin_calls

CallsInv ==
    /\ DOMAIN margin_calls \subseteq DOMAIN collateral_health
    /\ \A l \in DOMAIN margin_calls :
          /\ margin_calls[l] \in MarginCall
          /\ margin_calls[l].status = "expired" => now > margin_calls[l].grace_period_end

PausesInv ==
    /\ DOMAIN paused_utilities \subseteq CalledLessees
    /\ \A u \in DOMAIN paused_utilities :
          /\ paused_utilities[u] \in DOMAIN margin_calls
          /\ margin_calls[paused_utilities[u]].lessee = u
          /\ margin_calls[paused_utilities[u]].status # "satisfied"

\* MarginCallsJust with the types, and with the fact that leases are registered only after
\* initialize: a margin call then always has a grace period.
CollateralInv == ConfigInv /\ HealthInv /\ CallsInv /\ PausesInv

LEMMA CollateralInitInv == now = StartTime /\ CollateralInit => CollateralInv
  BY LedgerAssumption DEF CollateralInit, CollateralInv, ConfigInv, HealthInv, CallsInv, PausesInv

\* The factor fits its width whatever the value and the minimum are.
LEMMA FactorFits ==
    ASSUME NEW v \in Int, NEW m \in Int, m # 0
    PROVE  health_factor(v, m) \in 0..(U32 - 1)
  <1>1. U32 \in Nat \ {0} /\ BPS \in Nat
    BY CollateralAssumption
  <1> DEFINE n == IF v * BPS < 0 THEN -(v * BPS) ELSE v * BPS
             d == IF m < 0 THEN -m ELSE m
  <1>2. n \in Nat /\ d \in Nat \ {0}
    <2>1. v * BPS \in Int
      BY <1>1
    <2> QED BY <2>1
  <1>3. Quotient(v * BPS, m) = n \div d \/ Quotient(v * BPS, m) = -(n \div d)
    BY DEF Quotient
  <1> HIDE DEF n, d
  <1>4. n \div d \in Int
    BY <1>2
  <1> DEFINE q == Quotient(v * BPS, m)
  <1>5. q \in Int
    BY <1>3, <1>4
  <1> HIDE DEF q
  <1>6. q % U32 \in 0..(U32 - 1)
    BY <1>1, <1>5
  <1> QED BY <1>6 DEF q, health_factor

LEMMA HealthTyped ==
    ASSUME NEW a \in Int, NEW m \in Int
    PROVE  HealthOf(a, m) \in CollateralHealthType
  <1> DEFINE v == calculate_fiat_value(a)
             f == checked_health_factor(v, m)
             st == health_status(f)
  <1>1. v \in Int
    BY CollateralAssumption DEF calculate_fiat_value
  <1>2. f \in 0..(U32 - 1)
    <2> HIDE DEF v
    <2>1. BPS \in 0..(U32 - 1)
      BY CollateralAssumption
    <2>2. m > 0 => health_factor(v, m) \in 0..(U32 - 1)
      BY <1>1, FactorFits
    <2> QED BY <2>1, <2>2 DEF checked_health_factor
  <1>3. st \in {"healthy", "warning", "under_collateralized", "emergency_termination"}
    BY DEF health_status
  <1>4. HealthOf(a, m) = [collateral_amount |-> a, minimum_fiat_collateral |-> m,
                          current_fiat_value |-> v, health_factor |-> f, status |-> st]
    BY DEF HealthOf
  <1> HIDE DEF v, f, st
  <1> QED BY <1>1, <1>2, <1>3, <1>4 DEF CollateralHealthType

\* Storing a lease's health, with a margin call when it is insufficient.
LEMMA JudgeInv ==
    ASSUME CollateralInv, NEW id \in BackedLeases, NEW u \in CalledLessees,
           NEW h \in CollateralHealthType, health_threshold # None, Judge(id, u, h)
    PROVE  CollateralInv'
  <1>0. now \in Nat /\ grace_period \in Nat
    BY LedgerAssumption DEF CollateralInv, ConfigInv
  <1>1. /\ collateral_health' = Store(collateral_health, id, h)
        /\ UNCHANGED <<health_threshold, grace_period, now>>
    BY DEF Judge
  <1>2. /\ DOMAIN collateral_health' = DOMAIN collateral_health \cup {id}
        /\ collateral_health'[id] = h
        /\ \A l \in DOMAIN collateral_health :
              l # id => collateral_health'[l] = collateral_health[l]
    BY <1>1 DEF Store
  <1>3. ConfigInv'
    BY <1>1 DEF CollateralInv, ConfigInv
  <1>4. CASE h.status # "under_collateralized"
    <2>1. UNCHANGED <<margin_calls, paused_utilities>>
      BY <1>4 DEF Judge, NoMarginCall
    <2>2. HealthInv'
      BY <1>2, <1>4, <2>1 DEF CollateralInv, HealthInv
    <2>3. CallsInv' /\ PausesInv'
      BY <1>1, <1>2, <2>1 DEF CollateralInv, CallsInv, PausesInv
    <2> QED BY <1>3, <2>2, <2>3 DEF CollateralInv
  <1>5. CASE h.status = "under_collateralized"
    <2> DEFINE c == [lessee |-> u, grace_period_end |-> now + grace_period,
                     required_topup |-> Shortfall(h), current_health_factor |-> h.health_factor,
                     status |-> "active", emergency_termination_scheduled |-> FALSE]
    <2>1. /\ id \notin DOMAIN margin_calls /\ u \notin DOMAIN paused_utilities
          /\ margin_calls' = Store(margin_calls, id, c)
          /\ paused_utilities' = Store(paused_utilities, u, id)
      BY <1>5 DEF Judge, trigger_margin_call, callable, pausable
    <2>2. c \in MarginCall /\ c.lessee = u /\ c.status = "active"
      <3>1. Shortfall(h) \in Nat /\ h.health_factor \in 0..(U32 - 1) /\ now + grace_period \in Nat
        BY <1>0 DEF Shortfall, CollateralHealthType
      <3> QED BY <3>1 DEF MarginCall
    <2> HIDE DEF c
    <2>3. /\ DOMAIN margin_calls' = DOMAIN margin_calls \cup {id} /\ margin_calls'[id] = c
          /\ \A l \in DOMAIN margin_calls : margin_calls'[l] = margin_calls[l]
      BY <2>1 DEF Store
    <2>4. /\ DOMAIN paused_utilities' = DOMAIN paused_utilities \cup {u}
          /\ paused_utilities'[u] = id
          /\ \A x \in DOMAIN paused_utilities : paused_utilities'[x] = paused_utilities[x]
      BY <2>1 DEF Store
    <2>5. HealthInv'
      BY <1>2, <2>3 DEF CollateralInv, HealthInv
    <2>6. CallsInv'
      BY <1>1, <1>2, <2>2, <2>3 DEF CollateralInv, CallsInv
    <2>7. PausesInv'
      BY <2>2, <2>3, <2>4 DEF CollateralInv, PausesInv
    <2> QED BY <1>3, <2>5, <2>6, <2>7 DEF CollateralInv
  <1> QED BY <1>4, <1>5

\* A health computed again from what is stored has its type, and then initialize was called.
LEMMA RecheckedTyped ==
    ASSUME CollateralInv, NEW id \in DOMAIN collateral_health
    PROVE  Rechecked(id) \in CollateralHealthType /\ health_threshold # None
  <1>1. /\ collateral_health[id].collateral_amount \in Int
        /\ collateral_health[id].minimum_fiat_collateral \in Int
    BY DEF CollateralInv, HealthInv, CollateralHealthType
  <1> QED BY <1>1, HealthTyped DEF Rechecked, CollateralInv, ConfigInv

LEMMA CheckInv ==
    ASSUME CollateralInv, NEW id \in BackedLeases, check_collateral_health(id)
    PROVE  CollateralInv'
  <1>1. id \in DOMAIN collateral_health /\ Judge(id, generated_address(id), Rechecked(id))
    BY DEF check_collateral_health
  <1>2. generated_address(id) \in CalledLessees
    BY DEF CalledLessees
  <1> QED BY <1>1, <1>2, RecheckedTyped, JudgeInv

LEMMA BatchInv ==
    ASSUME CollateralInv, NEW id \in BackedLeases, batch_health_check(id)
    PROVE  CollateralInv'
  <1>1. CASE check_collateral_health(id)
    BY <1>1, CheckInv
  <1>2. CASE ~check_collateral_health(id)
    <2> DEFINE h == Rechecked(id)
    <2>1. /\ id \in DOMAIN collateral_health /\ id \in DOMAIN margin_calls
          /\ collateral_health' = Store(collateral_health, id, h)
          /\ UNCHANGED <<margin_calls, paused_utilities, health_threshold, grace_period, now>>
      BY <1>2 DEF batch_health_check, NoMarginCall, callable
    <2>2. h \in CollateralHealthType
      BY <2>1, RecheckedTyped
    <2> HIDE DEF h
    <2>3. /\ DOMAIN collateral_health' = DOMAIN collateral_health \cup {id}
          /\ collateral_health'[id] = h
          /\ \A l \in DOMAIN collateral_health :
                l # id => collateral_health'[l] = collateral_health[l]
      BY <2>1 DEF Store
    <2>4. HealthInv'
      BY <2>1, <2>2, <2>3 DEF CollateralInv, HealthInv
    <2>5. ConfigInv' /\ CallsInv' /\ PausesInv'
      BY <2>1, <2>3 DEF CollateralInv, ConfigInv, CallsInv, PausesInv
    <2> QED BY <2>4, <2>5 DEF CollateralInv
  <1> QED BY <1>1, <1>2

LEMMA FulfillInv ==
    ASSUME CollateralInv, NEW id \in BackedLeases, NEW topup \in Topups,
           fulfill_margin_call(id, topup)
    PROVE  CollateralInv'
  <1> DEFINE h == collateral_health[id]
             amount == h.collateral_amount + topup
             value == calculate_fiat_value(amount)
             factor == health_factor(value, h.minimum_fiat_collateral)
             enough == factor >= CRITICAL_HEALTH_THRESHOLD
             st == IF enough THEN "healthy" ELSE "warning"
             k == [h EXCEPT !.collateral_amount = amount, !.current_fiat_value = value,
                            !.health_factor = factor, !.status = st]
             u == margin_calls[id].lessee
  <1>1. /\ id \in DOMAIN margin_calls /\ id \in DOMAIN collateral_health
        /\ h.minimum_fiat_collateral # 0
        /\ collateral_health' = [collateral_health EXCEPT ![id] = k]
        /\ \/ /\ margin_calls' = [margin_calls EXCEPT ![id].status = "satisfied"]
              /\ paused_utilities' = resume_utility_token(u)
           \/ UNCHANGED <<margin_calls, paused_utilities>>
        /\ UNCHANGED <<health_threshold, grace_period, now>>
    BY DEF fulfill_margin_call, NoMarginCall
  <1>2. h \in CollateralHealthType /\ margin_calls[id] \in MarginCall
    BY <1>1 DEF CollateralInv, HealthInv, CallsInv
  <1>3. amount \in Int /\ value \in Int /\ h.minimum_fiat_collateral \in Int
    <2>1. amount \in Int /\ h.minimum_fiat_collateral \in Int
      BY <1>2, CollateralAssumption DEF CollateralHealthType
    <2> HIDE DEF amount
    <2> QED BY <2>1, CollateralAssumption DEF calculate_fiat_value
  <1> HIDE DEF amount, value
  <1>4. factor \in 0..(U32 - 1)
    BY <1>1, <1>3, FactorFits
  <1>5. st \in {"healthy", "warning"}
    OBVIOUS
  <1> HIDE DEF factor, st, h
  <1>6. k \in CollateralHealthType /\ k.status = st
    BY <1>2, <1>3, <1>4, <1>5 DEF CollateralHealthType
  <1> HIDE DEF k
  <1>7. /\ DOMAIN collateral_health' = DOMAIN collateral_health /\ collateral_health'[id] = k
        /\ \A l \in DOMAIN collateral_health :
              l # id => collateral_health'[l] = collateral_health[l]
    BY <1>1
  <1>8. ConfigInv'
    BY <1>1, <1>7 DEF CollateralInv, ConfigInv
  <1>9. DOMAIN margin_calls' = DOMAIN margin_calls
    BY <1>1
  <1>10. HealthInv'
    BY <1>5, <1>6, <1>7, <1>9 DEF CollateralInv, HealthInv
  <1>11. CallsInv' /\ PausesInv'
    <2>1. CASE UNCHANGED <<margin_calls, paused_utilities>>
      BY <1>1, <1>7, <2>1 DEF CollateralInv, CallsInv, PausesInv
    <2>2. CASE /\ margin_calls' = [margin_calls EXCEPT ![id].status = "satisfied"]
               /\ paused_utilities' = resume_utility_token(u)
      <3>1. /\ margin_calls'[id] = [margin_calls[id] EXCEPT !.status = "satisfied"]
            /\ \A l \in DOMAIN margin_calls : l # id => margin_calls'[l] = margin_calls[l]
        BY <1>1, <2>2
      <3>2. margin_calls'[id] \in MarginCall /\ margin_calls'[id].status = "satisfied"
        BY <1>2, <3>1 DEF MarginCall
      <3>3. CallsInv'
        BY <1>1, <1>7, <1>9, <3>1, <3>2 DEF CollateralInv, CallsInv
      <3>4. /\ DOMAIN paused_utilities' = DOMAIN paused_utilities \ {u}
            /\ \A x \in DOMAIN paused_utilities' : paused_utilities'[x] = paused_utilities[x]
        BY <2>2 DEF resume_utility_token
      <3>5. ASSUME NEW x \in DOMAIN paused_utilities'
            PROVE  /\ x \in CalledLessees /\ paused_utilities'[x] \in DOMAIN margin_calls'
                   /\ margin_calls'[paused_utilities'[x]].lessee = x
                   /\ margin_calls'[paused_utilities'[x]].status # "satisfied"
        <4>1. /\ x \in CalledLessees /\ paused_utilities[x] \in DOMAIN margin_calls
              /\ margin_calls[paused_utilities[x]].lessee = x
              /\ margin_calls[paused_utilities[x]].status # "satisfied"
          BY <3>4 DEF CollateralInv, PausesInv
        <4>2. paused_utilities[x] # id
          BY <3>4, <4>1
        <4> QED BY <1>9, <3>1, <3>4, <4>1, <4>2
      <3>6. PausesInv'
        BY <3>5 DEF PausesInv
      <3> QED BY <3>3, <3>6
    <2> QED BY <1>1, <2>1, <2>2
  <1> QED BY <1>8, <1>10, <1>11 DEF CollateralInv

LEMMA TerminateInv ==
    ASSUME CollateralInv, NEW id \in BackedLeases, execute_emergency_termination(id)
    PROVE  CollateralInv'
  <1> DEFINE c == [margin_calls[id] EXCEPT !.status = "expired",
                                           !.emergency_termination_scheduled = TRUE]
             h == [collateral_health[id] EXCEPT !.status = "emergency_termination"]
  <1>1. /\ id \in DOMAIN margin_calls /\ id \in DOMAIN collateral_health
        /\ now > margin_calls[id].grace_period_end
        /\ margin_calls' = [margin_calls EXCEPT ![id] = c]
        /\ collateral_health' = [collateral_health EXCEPT ![id] = h]
        /\ UNCHANGED <<health_threshold, grace_period, paused_utilities, now>>
    BY DEF execute_emergency_termination, grace_over
  <1>2. collateral_health[id] \in CollateralHealthType /\ margin_calls[id] \in MarginCall
    BY <1>1 DEF CollateralInv, HealthInv, CallsInv
  <1>3. /\ c \in MarginCall /\ c.status = "expired" /\ c.lessee = margin_calls[id].lessee
        /\ c.grace_period_end = margin_calls[id].grace_period_end
    BY <1>2 DEF MarginCall
  <1>4. h \in CollateralHealthType /\ h.status = "emergency_termination"
    BY <1>2 DEF CollateralHealthType
  <1> HIDE DEF c, h
  <1>5. /\ DOMAIN margin_calls' = DOMAIN margin_calls /\ margin_calls'[id] = c
        /\ \A l \in DOMAIN margin_calls : l # id => margin_calls'[l] = margin_calls[l]
        /\ DOMAIN collateral_health' = DOMAIN collateral_health /\ collateral_health'[id] = h
        /\ \A l \in DOMAIN collateral_health :
              l # id => collateral_health'[l] = collateral_health[l]
    BY <1>1
  <1>6. ConfigInv'
    BY <1>1, <1>5 DEF CollateralInv, ConfigInv
  <1>7. HealthInv'
    BY <1>4, <1>5 DEF CollateralInv, HealthInv
  <1>8. CallsInv'
    BY <1>1, <1>3, <1>5 DEF CollateralInv, CallsInv
  <1>9. PausesInv'
    BY <1>1, <1>3, <1>5 DEF CollateralInv, PausesInv
  <1> QED BY <1>6, <1>7, <1>8, <1>9 DEF CollateralInv

LEMMA CollateralNextInv ==
    CollateralInv /\ [CollateralNext]_<<now, collateral_vars>> => CollateralInv'
  <1> SUFFICES ASSUME CollateralInv, [CollateralNext]_<<now, collateral_vars>>
               PROVE  CollateralInv'
    OBVIOUS
  <1>1. CASE UNCHANGED <<now, collateral_vars>>
    BY <1>1 DEF collateral_vars, CollateralInv, ConfigInv, HealthInv, CallsInv, PausesInv
  <1>2. CASE CollateralTick
    <2>1. now' \in StartTime..MaxTime /\ now' > now /\ now \in Nat /\ now' \in Nat
      BY <1>2, TickLater DEF CollateralTick, CollateralInv, ConfigInv
    <2>2. CallsInv'
      BY <1>2, <2>1 DEF CollateralTick, collateral_vars, CollateralInv, CallsInv, MarginCall
    <2> QED BY <1>2, <2>1, <2>2 DEF CollateralTick, collateral_vars, CollateralInv, ConfigInv,
                                    HealthInv, PausesInv
  <1>3. ASSUME NEW t \in Thresholds, NEW p \in Periods, initialize_collateral(t, p)
        PROVE  CollateralInv'
    BY <1>3, CollateralAssumption, LedgerAssumption
       DEF initialize_collateral, CollateralInv, ConfigInv, HealthInv, CallsInv, PausesInv
  <1>4. ASSUME NEW terms \in CollateralTerms, register_lease_collateral(terms)
        PROVE  CollateralInv'
    <2>1. /\ terms.lease_id \in BackedLeases /\ terms.lessee \in CalledLessees
          /\ terms.amount \in Int /\ terms.minimum \in Int
      BY CollateralAssumption DEF CalledLessees
    <2>2. HealthOf(terms.amount, terms.minimum) \in CollateralHealthType
      BY <2>1, HealthTyped
    <2> QED BY <1>4, <2>1, <2>2, JudgeInv DEF register_lease_collateral
  <1> QED BY <1>1, <1>2, <1>3, <1>4, CheckInv, BatchInv, FulfillInv, TerminateInv
          DEF CollateralNext

\* The monitor keeps its invariant (every function of collateral_health_monitor.rs).
THEOREM CollateralInvariance == CollateralSpec => []CollateralInv
  BY CollateralInitInv, CollateralNextInv, PTL DEF CollateralSpec

\* A lessee's utility is paused only for an unsatisfied margin call of his own, collateral
\* found insufficient has a call, and no call expires within its grace period
\* (trigger_margin_call, fulfill_margin_call, execute_emergency_termination,
\* batch_health_check).
THEOREM MarginCallsAlwaysJust == CollateralSpec => [](CollateralTypeOK /\ MarginCallsJust)
  <1>1. CollateralInv => MarginCallsJust
    BY DEF CollateralInv, HealthInv, CallsInv, PausesInv, MarginCallsJust, PauseJustified,
           GraceRespected
  <1>2. CollateralInv => CollateralTypeOK
    BY DEF CollateralInv, ConfigInv, HealthInv, CallsInv, PausesInv, CollateralTypeOK
  <1> QED BY <1>1, <1>2, CollateralInvariance, PTL

-----------------------------------------------------------------------------
(***************************************************************************)
(* The solvency ledger: the books always balance, and the check refuses an *)
(* update only for the reasons EscrowSound names.                          *)
(***************************************************************************)

\* The stored record passed the check of its last update, and what it holds is what was
\* paid in and not out.
EscrowInv ==
    /\ escrow \in EscrowInvariant
    /\ verify_core_invariant(escrow)
    /\ paid_in \in Nat /\ paid_out \in Nat
    /\ escrow.total_escrowed = paid_in - paid_out

LEMMA NewInvariantInv == ASSUME escrow = new_invariant, paid_in = 0, paid_out = 0 PROVE EscrowInv
  BY DEF new_invariant, EscrowInvariant, EscrowInv, verify_core_invariant, components

\* The same of the record initialize_invariant_tracking stores.
LEMMA NewInvariantStep ==
    ASSUME initialize_invariant_tracking PROVE EscrowInv'
  BY DEF initialize_invariant_tracking, new_invariant, EscrowInvariant, EscrowInv,
         verify_core_invariant, components

\* A product of natural numbers is one, and so is its quotient.
LEMMA ShareNat ==
    ASSUME NEW x \in Nat, NEW r \in Nat, NEW d \in Nat \ {0}
    PROVE  x * r \in Nat /\ (x * r) \div d \in Nat
  <1>1. x * r \in Nat
    OBVIOUS
  <1> DEFINE p == x * r
  <1>2. p \in Nat
    BY <1>1
  <1> HIDE DEF p
  <1>3. p \div d \in Nat
    BY <1>2
  <1> QED BY <1>1, <1>3 DEF p

\* The figures of a lease's creation.
LEMMA CreationStep ==
    ASSUME EscrowInv, NEW a \in Amounts, apply_lease_creation(a)
    PROVE  EscrowInv'
  <1> DEFINE e == escrow
             loss == IF a > PRECISION THEN simulate_soroban_precision_loss(a) ELSE 0
             f == with_lease(e, a)
  <1>1. /\ a \in Nat /\ verify_core_invariant(f) /\ escrow' = f
        /\ paid_in' = paid_in + a /\ paid_out' = paid_out
    BY EscrowAssumption DEF apply_lease_creation, save_verified
  <1>2. loss \in Int
    BY <1>1, EscrowAssumption DEF simulate_soroban_precision_loss
  <1>3. /\ f = [e EXCEPT !.total_escrowed = e.total_escrowed + a,
                         !.active_deposits = e.active_deposits + a,
                         !.vault_total_locked = e.vault_total_locked + a,
                         !.lease_count = e.lease_count + 1,
                         !.precision_loss_cumulative = e.precision_loss_cumulative + loss]
    BY DEF with_lease
  <1> HIDE DEF loss, f
  <1>4. f \in EscrowInvariant /\ f.total_escrowed = e.total_escrowed + a
    <2>1. /\ e.total_escrowed + a \in Int
          /\ e.active_deposits + a \in Int
          /\ e.vault_total_locked + a \in Int
          /\ e.precision_loss_cumulative + loss \in Int
          /\ e.lease_count + 1 \in Nat
      BY <1>1, <1>2 DEF EscrowInv, EscrowInvariant
    <2> QED BY <1>1, <1>3, <2>1 DEF EscrowInv, EscrowInvariant
  <1> QED BY <1>1, <1>4 DEF EscrowInv, EscrowInvariant

LEMMA YieldStep ==
    ASSUME EscrowInv, NEW a \in Amounts, apply_yield_accumulation(a)
    PROVE  EscrowInv'
  <1> DEFINE e == escrow
             loss == simulate_soroban_precision_loss(a)
             f == with_yield(e, a)
  <1>1. /\ a \in Nat /\ verify_core_invariant(f) /\ escrow' = f
        /\ UNCHANGED <<paid_in, paid_out>>
    BY EscrowAssumption DEF apply_yield_accumulation, save_verified
  <1>2. loss \in Int
    BY <1>1, EscrowAssumption DEF simulate_soroban_precision_loss
  <1>3. /\ f = [e EXCEPT !.active_deposits = e.active_deposits - a,
                         !.pending_yield = e.pending_yield + a,
                         !.precision_loss_cumulative = e.precision_loss_cumulative + loss]
    BY DEF with_yield
  <1> HIDE DEF loss, f
  <1>4. f \in EscrowInvariant /\ f.total_escrowed = e.total_escrowed
    <2>1. /\ e.active_deposits - a \in Int
          /\ e.pending_yield + a \in Int
          /\ e.precision_loss_cumulative + loss \in Int
      BY <1>1, <1>2 DEF EscrowInv, EscrowInvariant
    <2> QED BY <1>1, <1>3, <2>1 DEF EscrowInv, EscrowInvariant
  <1> QED BY <1>1, <1>4 DEF EscrowInv, EscrowInvariant

LEMMA DisputeStep ==
    ASSUME EscrowInv, NEW a \in Amounts, apply_dispute_initiation(a)
    PROVE  EscrowInv'
  <1> DEFINE e == escrow
             from == at_most(a, e.pending_yield)
             f == with_dispute(e, a)
  <1>1. /\ a \in Nat /\ verify_core_invariant(f) /\ escrow' = f
        /\ UNCHANGED <<paid_in, paid_out>>
    BY EscrowAssumption DEF apply_dispute_initiation, save_verified
  <1>2. from \in Int
    BY <1>1 DEF at_most, EscrowInv, EscrowInvariant
  <1>3. /\ f = [e EXCEPT !.pending_yield = e.pending_yield - from,
                         !.active_deposits = e.active_deposits - (a - from),
                         !.disputed_funds = e.disputed_funds + a]
    BY DEF with_dispute
  <1> HIDE DEF from, f
  <1>4. f \in EscrowInvariant /\ f.total_escrowed = e.total_escrowed
    <2>1. /\ e.pending_yield - from \in Int
          /\ e.active_deposits - (a - from) \in Int
          /\ e.disputed_funds + a \in Int
      BY <1>1, <1>2 DEF EscrowInv, EscrowInvariant
    <2> QED BY <1>1, <1>3, <2>1 DEF EscrowInv, EscrowInvariant
  <1> QED BY <1>1, <1>4 DEF EscrowInv, EscrowInvariant

\* The sources of a settlement the escrow can pay are parts of the components and add up.
LEMMA SourcesExact ==
    ASSUME NEW e \in EscrowInvariant, verify_core_invariant(e), NEW s \in 0..e.total_escrowed
    PROVE  LET from == sources(e, s)
           IN  /\ from[1] \in 0..e.disputed_funds /\ from[2] \in 0..e.pending_yield
               /\ from[3] \in 0..e.active_deposits
               /\ from[1] + from[2] + from[3] = s
  <1> DEFINE d == at_most(s, e.disputed_funds)
             p == at_most(s - d, e.pending_yield)
             a == at_most(s - d - p, e.active_deposits)
  <1>1. /\ e.disputed_funds \in Nat /\ e.pending_yield \in Nat /\ e.active_deposits \in Nat
        /\ e.active_deposits + e.pending_yield + e.disputed_funds = e.total_escrowed
        /\ s \in Nat /\ s <= e.total_escrowed
    BY DEF EscrowInvariant, verify_core_invariant, components
  <1>2. /\ d \in 0..e.disputed_funds /\ p \in 0..e.pending_yield /\ a \in 0..e.active_deposits
        /\ d + p + a = s
    <2>1. d \in 0..e.disputed_funds /\ (d = s \/ d = e.disputed_funds) /\ s - d \in Nat
      BY <1>1 DEF at_most
    <2> HIDE DEF d
    <2>2. /\ p \in 0..e.pending_yield /\ (p = s - d \/ p = e.pending_yield)
          /\ s - d - p \in Nat
      BY <1>1, <2>1 DEF at_most
    <2> HIDE DEF p
    <2>3. s - d - p <= e.active_deposits
      BY <1>1, <2>1, <2>2
    <2>4. a = s - d - p
      BY <2>3 DEF at_most
    <2> HIDE DEF a
    <2> QED BY <1>1, <2>1, <2>2, <2>3, <2>4
  <1>3. sources(e, s) = <<d, p, a>>
    BY DEF sources, calculate_settlement_sources
  <1> HIDE DEF d, p, a
  <1> QED BY <1>2, <1>3

\* The record a settlement leaves.
LEMMA SettledRecord ==
    ASSUME NEW e \in EscrowInvariant, verify_core_invariant(e), NEW s \in 0..e.total_escrowed,
           NEW f, f = without_settled(e, s)
    PROVE  /\ f \in EscrowInvariant
           /\ components(f) = f.total_escrowed /\ f.vault_total_locked = f.total_escrowed
           /\ f.total_escrowed = e.total_escrowed - s
           /\ f.active_deposits >= 0 /\ f.pending_yield >= 0 /\ f.disputed_funds >= 0
           /\ f.lease_count = IF s > 0 /\ e.lease_count > 0 THEN e.lease_count - 1
                              ELSE e.lease_count
  <1> DEFINE from == sources(e, s)
             dust == calculate_settlement_dust(s, e.total_escrowed)
             count == IF s > 0 /\ e.lease_count > 0 THEN e.lease_count - 1 ELSE e.lease_count
  <1>1. /\ from[1] \in 0..e.disputed_funds /\ from[2] \in 0..e.pending_yield
        /\ from[3] \in 0..e.active_deposits /\ from[1] + from[2] + from[3] = s
    BY SourcesExact
  <1>2. dust \in Int /\ count \in Nat /\ s \in Int
    BY DEF EscrowInvariant, calculate_settlement_dust
  <1>3. f = [e EXCEPT !.disputed_funds = e.disputed_funds - from[1],
                      !.pending_yield = e.pending_yield - from[2],
                      !.active_deposits = e.active_deposits - from[3],
                      !.total_escrowed = e.total_escrowed - s,
                      !.vault_total_locked = e.vault_total_locked - s,
                      !.lease_count = count, !.dust_cumulative = e.dust_cumulative + dust]
    BY DEF without_settled
  <1> HIDE DEF from, dust
  <1>4. f \in EscrowInvariant
    <2> HIDE DEF count
    <2>1. /\ e.disputed_funds - from[1] \in Int /\ e.pending_yield - from[2] \in Int
          /\ e.active_deposits - from[3] \in Int /\ e.total_escrowed - s \in Int
          /\ e.vault_total_locked - s \in Int /\ e.dust_cumulative + dust \in Int
      BY <1>1, <1>2 DEF EscrowInvariant
    <2> QED BY <1>2, <1>3, <2>1 DEF EscrowInvariant
  <1>5. /\ f.disputed_funds = e.disputed_funds - from[1]
        /\ f.pending_yield = e.pending_yield - from[2]
        /\ f.active_deposits = e.active_deposits - from[3]
        /\ f.total_escrowed = e.total_escrowed - s
        /\ f.vault_total_locked = e.vault_total_locked - s /\ f.lease_count = count
    BY <1>3 DEF EscrowInvariant
  <1>6. /\ e.disputed_funds \in Int /\ e.pending_yield \in Int /\ e.active_deposits \in Int
        /\ e.total_escrowed \in Int /\ e.vault_total_locked = e.total_escrowed
        /\ e.active_deposits + e.pending_yield + e.disputed_funds = e.total_escrowed
    BY DEF verify_core_invariant, components, EscrowInvariant
  <1>7. f.disputed_funds >= 0 /\ f.pending_yield >= 0 /\ f.active_deposits >= 0
    BY <1>1, <1>5, <1>6
  <1>8. components(f) = f.total_escrowed /\ f.vault_total_locked = f.total_escrowed
    BY <1>1, <1>2, <1>5, <1>6 DEF components
  <1> QED BY <1>4, <1>5, <1>7, <1>8

LEMMA SettlementStep ==
    ASSUME EscrowInv, NEW a \in Amounts, NEW b \in Amounts, NEW c \in Amounts,
           apply_lease_settlement(a, b, c)
    PROVE  EscrowInv'
  <1> DEFINE s == a + b + c
             f == without_settled(escrow, s)
  <1>1. /\ a \in Nat /\ b \in Nat /\ c \in Nat /\ s <= escrow.total_escrowed
        /\ verify_core_invariant(f) /\ escrow' = f
        /\ paid_out' = paid_out + s /\ paid_in' = paid_in
    BY EscrowAssumption DEF apply_lease_settlement, save_verified
  <1>2. s \in 0..escrow.total_escrowed
    BY <1>1 DEF EscrowInv, EscrowInvariant
  <1> HIDE DEF s, f
  <1>3. f \in EscrowInvariant /\ f.total_escrowed = escrow.total_escrowed - s
    BY <1>2, SettledRecord DEF EscrowInv, f
  <1> QED BY <1>1, <1>2, <1>3 DEF EscrowInv, EscrowInvariant

\* The record a mutual release leaves.
LEMMA ReleasedRecord ==
    ASSUME NEW e \in EscrowInvariant, NEW f, f = released(e)
    PROVE  /\ f \in EscrowInvariant /\ f.total_escrowed = 0
           /\ verify_core_invariant(f) <=> e.lease_count <= 1
  <1> DEFINE count == IF e.lease_count > 0 THEN e.lease_count - 1 ELSE 0
  <1>1. count \in Nat /\ (count > 0 <=> e.lease_count > 1) /\ e.lease_count \in Nat
    BY DEF EscrowInvariant
  <1>2. f = [e EXCEPT !.active_deposits = 0, !.pending_yield = 0, !.disputed_funds = 0,
                      !.total_escrowed = 0, !.vault_total_locked = 0, !.lease_count = count]
    BY DEF released
  <1> HIDE DEF count
  <1>3. /\ f \in EscrowInvariant /\ f.total_escrowed = 0 /\ f.vault_total_locked = 0
        /\ f.active_deposits = 0 /\ f.pending_yield = 0 /\ f.disputed_funds = 0
        /\ f.lease_count = count
    <2> DEFINE zero == 0
    <2>1. /\ zero \in Int
          /\ f = [e EXCEPT !.active_deposits = zero, !.pending_yield = zero,
                           !.disputed_funds = zero, !.total_escrowed = zero,
                           !.vault_total_locked = zero, !.lease_count = count]
      BY <1>2
    <2> HIDE DEF zero
    <2>2. f \in EscrowInvariant
      BY <1>1, <2>1 DEF EscrowInvariant
    <2> QED BY <1>2, <2>2 DEF EscrowInvariant
  <1> QED BY <1>1, <1>3 DEF verify_core_invariant, components

LEMMA ReleaseStep ==
    ASSUME EscrowInv, NEW a \in Amounts, NEW b \in Amounts, apply_mutual_release(a, b)
    PROVE  EscrowInv'
  <1> DEFINE f == released(escrow)
  <1>1. /\ a \in Nat /\ b \in Nat /\ a + b = escrow.total_escrowed
        /\ verify_core_invariant(f) /\ escrow' = f
        /\ paid_out' = paid_out + a + b /\ paid_in' = paid_in
    BY EscrowAssumption DEF apply_mutual_release, save_verified
  <1> HIDE DEF f
  <1>2. f \in EscrowInvariant /\ f.total_escrowed = 0
    BY ReleasedRecord DEF EscrowInv, f
  <1> QED BY <1>1, <1>2 DEF EscrowInv, EscrowInvariant

\* The record a partial slash leaves, and its dust when the shares add up.
LEMMA SlashedRecord ==
    ASSUME NEW e \in EscrowInvariant, verify_core_invariant(e), e.total_escrowed # 0,
           NEW bps \in Nat, NEW f, f = without_slashed(e, bps)
    PROVE  /\ f \in EscrowInvariant
           /\ slash_of(e, bps) \in Nat
           /\ f.total_escrowed = e.total_escrowed - slash_of(e, bps)
           /\ verify_core_invariant(f) => f.dust_cumulative = e.dust_cumulative
  <1> DEFINE slash == slash_of(e, bps)
             ratio == (slash * SCALE) \div e.total_escrowed
             share(x) == (x * ratio) \div SCALE
             sa == share(e.active_deposits)
             sp == share(e.pending_yield)
             sd == share(e.disputed_funds)
             taken == sa + sp + sd
             dust == IF taken < slash THEN e.dust_cumulative + slash - taken
                     ELSE e.dust_cumulative
  <1>1. /\ e.total_escrowed \in Nat \ {0} /\ e.active_deposits \in Nat
        /\ e.pending_yield \in Nat /\ e.disputed_funds \in Nat
    BY DEF verify_core_invariant, EscrowInvariant
  <1>2. slash \in Nat
    BY <1>1, ShareNat, EscrowAssumption DEF slash_of
  <1>3. f = [e EXCEPT !.active_deposits = e.active_deposits - sa,
                      !.pending_yield = e.pending_yield - sp,
                      !.disputed_funds = e.disputed_funds - sd,
                      !.total_escrowed = e.total_escrowed - slash,
                      !.vault_total_locked = e.vault_total_locked - slash,
                      !.dust_cumulative = dust]
    BY DEF without_slashed
  <1> HIDE DEF slash
  <1>4. ratio \in Nat
    BY <1>1, <1>2, ShareNat, EscrowAssumption
  <1> HIDE DEF ratio
  <1>5. sa \in Nat /\ sp \in Nat /\ sd \in Nat
    BY <1>1, <1>4, ShareNat, EscrowAssumption
  <1> HIDE DEF sa, sp, sd
  <1>6. dust \in Int
    BY <1>2, <1>5 DEF EscrowInvariant
  <1>7. /\ f \in EscrowInvariant
        /\ f.active_deposits = e.active_deposits - sa /\ f.pending_yield = e.pending_yield - sp
        /\ f.disputed_funds = e.disputed_funds - sd
        /\ f.total_escrowed = e.total_escrowed - slash /\ f.dust_cumulative = dust
    <2> HIDE DEF dust
    <2>1. /\ e.active_deposits - sa \in Int /\ e.pending_yield - sp \in Int
          /\ e.disputed_funds - sd \in Int /\ e.total_escrowed - slash \in Int
          /\ e.vault_total_locked - slash \in Int
      BY <1>1, <1>2, <1>5 DEF EscrowInvariant
    <2> QED BY <1>3, <1>6, <2>1 DEF EscrowInvariant
  <1>8. verify_core_invariant(f) => taken = slash
    BY <1>1, <1>2, <1>5, <1>7 DEF verify_core_invariant, components
  <1> QED BY <1>2, <1>5, <1>7, <1>8 DEF slash

LEMMA SlashStep ==
    ASSUME EscrowInv, NEW bps \in Rates, apply_partial_slashing(bps)
    PROVE  EscrowInv'
  <1> DEFINE f == without_slashed(escrow, bps)
             s == slash_of(escrow, bps)
  <1>1. /\ escrow.total_escrowed # 0 /\ verify_core_invariant(f) /\ escrow' = f
        /\ paid_out' = paid_out + s /\ paid_in' = paid_in
    BY DEF apply_partial_slashing, slash_stored_ok
  <1>2. bps \in Nat
    BY EscrowAssumption
  <1>3. f \in EscrowInvariant /\ s \in Nat /\ f.total_escrowed = escrow.total_escrowed - s
    BY <1>1, <1>2, SlashedRecord DEF EscrowInv
  <1> HIDE DEF s, f
  <1> QED BY <1>1, <1>3 DEF EscrowInv, EscrowInvariant

LEMMA EscrowNextInv == EscrowInv /\ [EscrowNext]_escrow_vars => EscrowInv'
  <1> SUFFICES ASSUME EscrowInv, [EscrowNext]_escrow_vars PROVE EscrowInv'
    OBVIOUS
  <1>1. CASE UNCHANGED escrow_vars
    BY <1>1 DEF EscrowInv, escrow_vars
  <1> QED BY <1>1, NewInvariantStep, CreationStep, YieldStep, DisputeStep, SettlementStep,
             ReleaseStep, SlashStep DEF EscrowNext

-----------------------------------------------------------------------------
\* The stored record always satisfies the check of escrow_invariant.rs and holds what was
\* paid in and not out.
THEOREM EscrowInvariance == EscrowSpec => []EscrowInv
  BY NewInvariantInv, EscrowNextInv, PTL DEF EscrowSpec, EscrowInit

\* Every state of the solvency ledger is well typed.
THEOREM EscrowTypes == EscrowSpec => []EscrowTypeOK
  <1>1. EscrowInv => EscrowTypeOK
    BY DEF EscrowInv, EscrowTypeOK
  <1> QED BY <1>1, EscrowInvariance, PTL

\* The check refuses a settlement the escrow can pay only for emptying the escrow of several
\* leases, and a mutual release only when several leases are open.
LEMMA RefusalsAreExplained == EscrowInv => RefusalsExplained
  <1> SUFFICES ASSUME EscrowInv PROVE RefusalsExplained
    OBVIOUS
  <1>0. escrow \in EscrowInvariant /\ verify_core_invariant(escrow)
    BY DEF EscrowInv
  <1>1. SettlementRefusedByCountOnly
    <2> SUFFICES ASSUME NEW s \in 0..escrow.total_escrowed
                 PROVE  /\ sources_exact(escrow, s)
                        /\ verify_core_invariant(without_settled(escrow, s))
                              <=> ~(s > 0 /\ s = escrow.total_escrowed /\ escrow.lease_count > 1)
      BY DEF SettlementRefusedByCountOnly
    <2>1. sources_exact(escrow, s)
      BY <1>0, SourcesExact DEF sources_exact
    <2> DEFINE f == without_settled(escrow, s)
    <2>2. /\ f \in EscrowInvariant
          /\ components(f) = f.total_escrowed /\ f.vault_total_locked = f.total_escrowed
          /\ f.total_escrowed = escrow.total_escrowed - s
          /\ f.active_deposits >= 0 /\ f.pending_yield >= 0 /\ f.disputed_funds >= 0
          /\ f.lease_count = IF s > 0 /\ escrow.lease_count > 0 THEN escrow.lease_count - 1
                             ELSE escrow.lease_count
      BY <1>0, SettledRecord
    <2> HIDE DEF f
    <2>3. /\ escrow.lease_count \in Nat /\ escrow.total_escrowed \in Int /\ s \in Int
          /\ s >= 0 /\ s <= escrow.total_escrowed
          /\ escrow.lease_count > 0 => escrow.total_escrowed # 0
      BY <1>0 DEF EscrowInvariant, verify_core_invariant
    <2>4. verify_core_invariant(f)
             <=> ~(s > 0 /\ s = escrow.total_escrowed /\ escrow.lease_count > 1)
      BY <2>2, <2>3 DEF verify_core_invariant
    <2> QED BY <2>1, <2>4 DEF f
  <1>2. verify_core_invariant(released(escrow)) <=> escrow.lease_count <= 1
    BY <1>0, ReleasedRecord
  <1> QED BY <1>1, <1>2 DEF RefusalsExplained

\* Whatever updates follow each other, the split adds up, agrees with the vault and holds
\* what was paid in and not out, and an update is refused only for the reasons named.
THEOREM EscrowAlwaysSound == EscrowSpec => []EscrowSound
  <1>1. EscrowInv => EscrowSound
    BY RefusalsAreExplained DEF EscrowSound, EscrowConserved, EscrowInv, verify_core_invariant
  <1> QED BY <1>1, EscrowInvariance, PTL

\* A partial slash that is stored has left no dust: one whose truncated shares do not add up
\* to the slash is refused by the check.
THEOREM SlashesLeaveNoDust == EscrowSpec => []SlashLeavesNoDust
  <1>1. EscrowInv => SlashLeavesNoDust
    BY SlashedRecord, EscrowAssumption DEF EscrowInv, SlashLeavesNoDust, slash_stored_ok
  <1> QED BY <1>1, EscrowInvariance, PTL

-----------------------------------------------------------------------------
(***************************************************************************)
(* The upgrade timelock: its approvals are counted truly, and it           *)
(* implements UpgradeGate.                                                 *)
(***************************************************************************)

\* What one proposal satisfies at time t: its approvers are finitely many and each was
\* counted once, and its status tells how far it came.
GoodProposal(p, t) ==
    /\ p \in UpgradeProposal
    /\ IsFiniteSet(p.approvals)
    /\ p.approval_count = Cardinality(p.approvals)
    /\ p.status \in {"Approved", "Executed"} => p.approval_count >= p.required_approvals
    /\ p.status = "Executed" => t >= p.execution_time
    /\ p.execution_time > p.created_at

SettingsInv ==
    /\ now \in StartTime..MaxTime
    /\ signers \subseteq Council
    /\ timelock_duration \in (Nat \ {0}) \cup {None}
    /\ min_approvals \in (Nat \ {0}) \cup {None}
    /\ timelock_duration = None => signers = {} /\ proposal_count = 0
    /\ timelock_duration = None <=> min_approvals = None
    /\ current_wasm_hash \in Hashes \cup {None}

ProposalsInv ==
    /\ proposal_count \in Nat
    /\ DOMAIN upgrade_proposals = 0..(proposal_count - 1)
    /\ \A id \in DOMAIN upgrade_proposals : GoodProposal(upgrade_proposals[id], now)

\* TimelockTypeOK and ApprovalsCounted, with what they need to be inductive: an approver set
\* is finite, and nothing was proposed before the duration was set, so that resetting the
\* counter in initialize_timelock cannot overwrite a proposal.
TimelockInv == SettingsInv /\ ProposalsInv

LEMMA TimelockInitInv == now = StartTime /\ TimelockInit => TimelockInv
  BY LedgerAssumption DEF TimelockInit, TimelockInv, SettingsInv, ProposalsInv

\* A proposal stays good as time passes.
LEMMA GoodLater ==
    ASSUME NEW p, NEW t \in Nat, NEW u \in Nat, u >= t, GoodProposal(p, t)
    PROVE  GoodProposal(p, u)
  BY DEF GoodProposal, UpgradeProposal

\* What a call that writes one stored proposal does to the invariant.
LEMMA ProposalWritten ==
    ASSUME ProposalsInv, NEW id \in DOMAIN upgrade_proposals, NEW p,
           GoodProposal(p, now), upgrade_proposals' = [upgrade_proposals EXCEPT ![id] = p],
           UNCHANGED <<proposal_count, now>>
    PROVE  ProposalsInv'
  <1>1. DOMAIN upgrade_proposals' = DOMAIN upgrade_proposals
    OBVIOUS
  <1>2. \A i \in DOMAIN upgrade_proposals :
            upgrade_proposals'[i] = IF i = id THEN p ELSE upgrade_proposals[i]
    OBVIOUS
  <1> QED BY <1>1, <1>2 DEF ProposalsInv

\* One more approval is one more approver.
LEMMA ApprovalGood ==
    ASSUME NEW p, NEW t, GoodProposal(p, t), NEW u \in Council, u \notin p.approvals,
           p.status \notin {"Executed", "Cancelled"}
    PROVE  GoodProposal([p EXCEPT !.approvals = @ \cup {u}, !.approval_count = @ + 1,
                                  !.status = IF p.approval_count + 1 >= p.required_approvals
                                             THEN "Approved" ELSE @], t)
  <1> DEFINE q == [p EXCEPT !.approvals = @ \cup {u}, !.approval_count = @ + 1,
                            !.status = IF p.approval_count + 1 >= p.required_approvals
                                       THEN "Approved" ELSE @]
  <1>1. /\ IsFiniteSet(p.approvals \cup {u})
        /\ Cardinality(p.approvals \cup {u}) = Cardinality(p.approvals) + 1
    BY FS_AddElement DEF GoodProposal
  <1>2. q \in UpgradeProposal
    <2> DEFINE st == IF p.approval_count + 1 >= p.required_approvals
                     THEN "Approved" ELSE p.status
    <2>1. p \in UpgradeProposal
      BY DEF GoodProposal
    <2>2. /\ p.approvals \cup {u} \in SUBSET Council /\ p.approval_count + 1 \in Nat
          /\ st \in {"Pending", "Approved", "Executed", "Cancelled"}
      BY <2>1 DEF UpgradeProposal
    <2>3. q = [p EXCEPT !.approvals = p.approvals \cup {u},
                        !.approval_count = p.approval_count + 1, !.status = st]
      OBVIOUS
    <2> HIDE DEF st, q
    <2> QED BY <2>1, <2>2, <2>3 DEF UpgradeProposal
  <1>3. /\ q.approvals = p.approvals \cup {u} /\ q.approval_count = p.approval_count + 1
        /\ q.required_approvals = p.required_approvals
        /\ q.execution_time = p.execution_time /\ q.created_at = p.created_at
        /\ q.status = "Approved" => q.approval_count >= q.required_approvals
        /\ q.status # "Executed"
    BY DEF GoodProposal, UpgradeProposal
  <1> HIDE DEF q
  <1>4. GoodProposal(q, t)
    BY <1>1, <1>2, <1>3 DEF GoodProposal
  <1> QED BY <1>4 DEF q

\* A signer exists only after initialize_timelock.
LEMMA SignerMeansConfigured ==
    ASSUME TimelockInv, NEW u, u \in signers
    PROVE  timelock_duration \in Nat \ {0} /\ min_approvals \in Nat \ {0}
  BY DEF TimelockInv, SettingsInv

LEMMA TimelockNextInv == TimelockInv /\ [TimelockNext]_<<now, timelock_vars>> => TimelockInv'
  <1> SUFFICES ASSUME TimelockInv, [TimelockNext]_<<now, timelock_vars>> PROVE TimelockInv'
    OBVIOUS
  <1>0. now \in Nat /\ SettingsInv /\ ProposalsInv
    BY LedgerAssumption DEF TimelockInv, SettingsInv
  <1>1. CASE UNCHANGED <<now, timelock_vars>>
    BY <1>1 DEF TimelockInv, SettingsInv, ProposalsInv, timelock_vars
  <1>2. CASE TimelockTick
    <2>1. now' \in Nat /\ now' >= now /\ now' \in StartTime..MaxTime
      BY <1>0, <1>2, LedgerAssumption DEF TimelockTick, Tick, SettingsInv
    <2>2. ProposalsInv'
      BY <1>0, <1>2, <2>1, GoodLater DEF TimelockTick, timelock_vars, ProposalsInv
    <2> QED BY <1>0, <1>2, <2>1, <2>2 DEF TimelockTick, timelock_vars, TimelockInv, SettingsInv
  <1>3. ASSUME NEW u \in Council, NEW d \in Delays, NEW q \in Quorums, initialize_timelock(u, d, q)
        PROVE  TimelockInv'
    <2>1. timelock_duration' \in Nat \ {0} /\ min_approvals' \in Nat \ {0}
      BY <1>3, TimelockAssumption DEF initialize_timelock
    <2>2. proposal_count = 0
      BY <1>0, <1>3 DEF initialize_timelock, SettingsInv
    <2>3. SettingsInv'
      BY <1>0, <1>3, <2>1, LedgerAssumption DEF initialize_timelock, SettingsInv
    <2>4. ProposalsInv'
      BY <1>0, <1>3, <2>2 DEF initialize_timelock, ProposalsInv
    <2> QED BY <2>3, <2>4 DEF TimelockInv
  <1>4. ASSUME NEW u \in Council, NEW v \in Council, add_signer(u, v) \/ remove_signer(u, v)
        PROVE  TimelockInv'
    BY <1>0, <1>4 DEF add_signer, remove_signer, require_signer, TimelockInv, SettingsInv,
                      ProposalsInv
  <1>5. ASSUME NEW u \in Council, NEW h \in Hashes, propose_upgrade(u, h)
        PROVE  TimelockInv'
    <2> DEFINE p == [proposer |-> u, new_wasm_hash |-> h, status |-> "Pending",
                     created_at |-> now, approvals |-> {}, approval_count |-> 0,
                     required_approvals |-> min_approvals,
                     execution_time |-> now + timelock_duration]
    <2>1. timelock_duration \in Nat \ {0} /\ min_approvals \in Nat \ {0}
      BY <1>5, SignerMeansConfigured DEF propose_upgrade, require_signer
    <2>2. IsFiniteSet({}) /\ Cardinality({}) = 0
      BY FS_EmptySet
    <2>3. GoodProposal(p, now)
      BY <1>0, <2>1, <2>2 DEF GoodProposal, UpgradeProposal
    <2>4. /\ DOMAIN upgrade_proposals' = DOMAIN upgrade_proposals \cup {proposal_count}
          /\ \A i \in DOMAIN upgrade_proposals' :
                upgrade_proposals'[i] = IF i = proposal_count THEN p ELSE upgrade_proposals[i]
      BY <1>5 DEF propose_upgrade, Store
    <2>5. ProposalsInv'
      <3> HIDE DEF p
      <3>1. proposal_count' = proposal_count + 1 /\ now' = now /\ proposal_count \in Nat
        BY <1>0, <1>5 DEF propose_upgrade, ProposalsInv
      <3>2. DOMAIN upgrade_proposals' = 0..(proposal_count' - 1)
        BY <1>0, <2>4, <3>1 DEF ProposalsInv
      <3> QED BY <1>0, <2>3, <2>4, <3>1, <3>2 DEF ProposalsInv
    <2>6. SettingsInv'
      BY <1>0, <1>5, <2>1, LedgerAssumption DEF propose_upgrade, SettingsInv
    <2> QED BY <2>5, <2>6 DEF TimelockInv
  <1>6. ASSUME NEW u \in Council, NEW id \in DOMAIN upgrade_proposals, approve_upgrade(u, id)
        PROVE  TimelockInv'
    <2> DEFINE p == upgrade_proposals[id]
               q == [p EXCEPT !.approvals = @ \cup {u}, !.approval_count = @ + 1,
                              !.status = IF p.approval_count + 1 >= p.required_approvals
                                         THEN "Approved" ELSE @]
    <2>1. /\ upgrade_proposals' = [upgrade_proposals EXCEPT ![id] = q]
          /\ p.status \notin {"Executed", "Cancelled"} /\ u \notin p.approvals
          /\ UNCHANGED <<signers, timelock_duration, min_approvals, proposal_count,
                         current_wasm_hash, now>>
      BY <1>6 DEF approve_upgrade, already_approved
    <2>2. GoodProposal(p, now)
      BY <1>0 DEF ProposalsInv
    <2>3. GoodProposal(q, now)
      <3> HIDE DEF p
      <3> QED BY <2>1, <2>2, ApprovalGood
    <2>4. ProposalsInv'
      <3> HIDE DEF q
      <3> QED BY <1>0, <2>1, <2>3, ProposalWritten
    <2>5. SettingsInv'
      BY <1>0, <2>1 DEF SettingsInv
    <2> QED BY <2>4, <2>5 DEF TimelockInv
  <1>7. ASSUME NEW id \in DOMAIN upgrade_proposals, execute_upgrade(id)
        PROVE  TimelockInv'
    <2> DEFINE p == upgrade_proposals[id]
               q == [p EXCEPT !.status = "Executed"]
    <2>1. /\ upgrade_proposals' = [upgrade_proposals EXCEPT ![id] = q]
          /\ p.status = "Approved" /\ now >= p.execution_time
          /\ current_wasm_hash' = p.new_wasm_hash
          /\ UNCHANGED <<signers, timelock_duration, min_approvals, proposal_count, now>>
      BY <1>7 DEF execute_upgrade, executable
    <2>2. GoodProposal(p, now)
      BY <1>0 DEF ProposalsInv
    <2>3. GoodProposal(q, now) /\ p.new_wasm_hash \in Hashes
      <3> HIDE DEF p
      <3> QED BY <2>1, <2>2 DEF GoodProposal, UpgradeProposal
    <2>4. ProposalsInv'
      <3> HIDE DEF q
      <3> QED BY <1>0, <2>1, <2>3, ProposalWritten
    <2>5. SettingsInv'
      BY <1>0, <2>1, <2>3 DEF SettingsInv
    <2> QED BY <2>4, <2>5 DEF TimelockInv
  <1>8. ASSUME NEW u \in Council, NEW id \in DOMAIN upgrade_proposals, cancel_upgrade(u, id)
        PROVE  TimelockInv'
    <2> DEFINE p == upgrade_proposals[id]
               q == [p EXCEPT !.status = "Cancelled"]
    <2>1. /\ upgrade_proposals' = [upgrade_proposals EXCEPT ![id] = q]
          /\ UNCHANGED <<signers, timelock_duration, min_approvals, proposal_count,
                         current_wasm_hash, now>>
      BY <1>8 DEF cancel_upgrade
    <2>2. GoodProposal(p, now)
      BY <1>0 DEF ProposalsInv
    <2>3. GoodProposal(q, now)
      <3> HIDE DEF p
      <3> QED BY <2>2 DEF GoodProposal, UpgradeProposal
    <2>4. ProposalsInv'
      <3> HIDE DEF q
      <3> QED BY <1>0, <2>1, <2>3, ProposalWritten
    <2>5. SettingsInv'
      BY <1>0, <2>1 DEF SettingsInv
    <2> QED BY <2>4, <2>5 DEF TimelockInv
  <1> QED BY <1>1, <1>2, <1>3, <1>4, <1>5, <1>6, <1>7, <1>8 DEF TimelockNext

\* The timelock keeps its invariant (every function of timelock_upgrade.rs).
THEOREM TimelockInvariance == TimelockSpec => []TimelockInv
  BY TimelockInitInv, TimelockNextInv, PTL DEF TimelockSpec

\* Every state of the timelock is well typed, and nothing exists before
\* initialize_timelock.
THEOREM TimelockTypes == TimelockSpec => []TimelockTypeOK
  <1>1. TimelockInv => TimelockTypeOK
    BY DEF TimelockInv, SettingsInv, ProposalsInv, GoodProposal, TimelockTypeOK
  <1> QED BY <1>1, TimelockInvariance, PTL

\* approve_upgrade counts every approver once, whatever add_signer and remove_signer do in
\* between, and a proposal is approved or executed only with the approvals it needed.
THEOREM ApprovalsTrue == TimelockSpec => []ApprovalsCounted
  <1>1. TimelockInv => ApprovalsCounted
    BY DEF TimelockInv, ProposalsInv, GoodProposal, ApprovalsCounted
  <1> QED BY <1>1, TimelockInvariance, PTL

-----------------------------------------------------------------------------
(***************************************************************************)
(* The timelock implements the gate.                                       *)
(***************************************************************************)
LEMMA GateInitRefined == now = StartTime /\ TimelockInit => Gate!GateInit
  BY LedgerAssumption DEF TimelockInit, Gate!GateInit, announced, approvers, executed,
                          cancelled, with_status

\* A step that leaves the proposals and the code alone leaves the gate's state alone.
LEMMA GateKept ==
    UNCHANGED upgrade_proposals =>
        UNCHANGED <<announced, approvers, executed, cancelled>>
  BY DEF announced, approvers, executed, cancelled, with_status

\* The gate counts its backers as the timelock does.
LEMMA SameCardinality == \A S : Gate!Cardinality(S) = Cardinality(S)
  BY DEF Gate!Cardinality, Cardinality

\* Every step of the timelock is a step of the gate or leaves the gate alone.
LEMMA GateStepRefined ==
    TimelockInv /\ [TimelockNext]_<<now, timelock_vars>> => [Gate!GateNext]_(Gate!gate_vars)
  <1> SUFFICES ASSUME TimelockInv, [TimelockNext]_<<now, timelock_vars>>
               PROVE  [Gate!GateNext]_(Gate!gate_vars)
    OBVIOUS
  <1>0. now \in Nat /\ SettingsInv /\ ProposalsInv
    BY LedgerAssumption DEF TimelockInv, SettingsInv
  <1>a. \A id \in DOMAIN upgrade_proposals :
            GoodProposal(upgrade_proposals[id], now) /\ upgrade_proposals[id] \in UpgradeProposal
    BY <1>0 DEF ProposalsInv, GoodProposal
  <1>1. CASE UNCHANGED <<now, timelock_vars>>
    BY <1>1, GateKept DEF timelock_vars, Gate!gate_vars
  <1>2. CASE TimelockTick
    <2>1. Gate!Wait
      BY <1>0, <1>2, GateKept DEF TimelockTick, Tick, timelock_vars, Gate!Wait
    <2> QED BY <2>1 DEF Gate!GateNext
  <1>3. ASSUME NEW u \in Council, NEW d \in Delays, NEW q \in Quorums, initialize_timelock(u, d, q)
        PROVE  UNCHANGED Gate!gate_vars
    BY <1>3, GateKept DEF initialize_timelock, Gate!gate_vars
  <1>4. ASSUME NEW u \in Council, NEW v \in Council, add_signer(u, v) \/ remove_signer(u, v)
        PROVE  UNCHANGED Gate!gate_vars
    BY <1>4, GateKept DEF add_signer, remove_signer, Gate!gate_vars
  <1>5. ASSUME NEW u \in Council, NEW h \in Hashes, propose_upgrade(u, h)
        PROVE  Gate!GateNext
    <2> DEFINE p == [proposer |-> u, new_wasm_hash |-> h, status |-> "Pending",
                     created_at |-> now, approvals |-> {}, approval_count |-> 0,
                     required_approvals |-> min_approvals,
                     execution_time |-> now + timelock_duration]
               ps == upgrade_proposals
               qs == upgrade_proposals'
               id == proposal_count
    <2>1. /\ DOMAIN qs = DOMAIN ps \cup {id} /\ qs[id] = p
          /\ \A i \in DOMAIN ps : i # id => qs[i] = ps[i]
          /\ UNCHANGED <<now, current_wasm_hash>>
      BY <1>5 DEF propose_upgrade, Store
    <2>2. timelock_duration \in Nat \ {0}
      BY <1>5, SignerMeansConfigured DEF propose_upgrade, require_signer
    <2>3. id \notin DOMAIN ps
      BY <1>0 DEF ProposalsInv
    <2>4. p.execution_time > now /\ p.approvals = {} /\ p.status = "Pending"
      BY <1>0, <2>2
    <2> HIDE DEF p
    <2>5. /\ executed' = executed
          /\ cancelled' = cancelled
      BY <2>1, <2>3, <2>4 DEF executed, cancelled, with_status
    <2>6. /\ DOMAIN announced = DOMAIN ps /\ DOMAIN announced' = DOMAIN announced \cup {id}
          /\ DOMAIN approvers' = DOMAIN announced'
          /\ approvers'[id] = {} /\ announced'[id].ready > now
          /\ \A old \in DOMAIN announced : /\ announced'[old] = announced[old]
                                             /\ approvers'[old] = approvers[old]
      BY <2>1, <2>3, <2>4 DEF announced, approvers
    <2>7. Gate!Announce
      BY <2>1, <2>3, <2>5, <2>6 DEF Gate!Announce
    <2> QED BY <2>7 DEF Gate!GateNext
  <1>6. ASSUME NEW u \in Council, NEW id \in DOMAIN upgrade_proposals, approve_upgrade(u, id)
        PROVE  Gate!GateNext
    <2> DEFINE p == upgrade_proposals[id]
               q == [p EXCEPT !.approvals = @ \cup {u}, !.approval_count = @ + 1,
                              !.status = IF p.approval_count + 1 >= p.required_approvals
                                         THEN "Approved" ELSE @]
               ps == upgrade_proposals
               qs == upgrade_proposals'
    <2>1. /\ upgrade_proposals' = [upgrade_proposals EXCEPT ![id] = q]
          /\ p.status \notin {"Executed", "Cancelled"} /\ u \notin p.approvals
          /\ UNCHANGED <<now, current_wasm_hash>>
      BY <1>6 DEF approve_upgrade, already_approved
    <2>2. p \in UpgradeProposal
      BY <1>a
    <2>3. /\ q.new_wasm_hash = p.new_wasm_hash /\ q.required_approvals = p.required_approvals
          /\ q.execution_time = p.execution_time /\ q.approvals = p.approvals \cup {u}
          /\ q.status \notin {"Executed", "Cancelled"}
      <3> HIDE DEF p
      <3> QED BY <2>1, <2>2 DEF UpgradeProposal
    <2>4. /\ announced' = announced
          /\ approvers' = [approvers EXCEPT ![id] = @ \cup {u}]
          /\ executed' = executed
          /\ cancelled' = cancelled
      <3> HIDE DEF q
      <3>1. /\ DOMAIN qs = DOMAIN ps /\ qs[id] = q
            /\ \A i \in DOMAIN ps : i # id => qs[i] = ps[i]
        BY <2>1
      <3>2. announced' = announced
        BY <2>3, <3>1 DEF announced
      <3>3. approvers' = [approvers EXCEPT ![id] = @ \cup {u}]
        BY <2>3, <3>1 DEF approvers
      <3> QED BY <2>1, <2>3, <3>1, <3>2, <3>3 DEF executed, cancelled, with_status
    <2>5. /\ id \in DOMAIN approvers /\ u \notin approvers[id]
          /\ id \notin executed \cup cancelled
      BY <2>1 DEF approvers, executed, cancelled, with_status
    <2> HIDE DEF q, p
    <2>6. Gate!Back
      BY <2>1, <2>4, <2>5 DEF Gate!Back
    <2> QED BY <2>6 DEF Gate!GateNext
  <1>7. ASSUME NEW id \in DOMAIN upgrade_proposals, execute_upgrade(id)
        PROVE  Gate!GateNext
    <2> DEFINE ps == upgrade_proposals
               qs == upgrade_proposals'
    <2>1. /\ qs = [ps EXCEPT ![id].status = "Executed"]
          /\ ps[id].status = "Approved" /\ now >= ps[id].execution_time
          /\ current_wasm_hash' = ps[id].new_wasm_hash /\ now' = now
      BY <1>7 DEF execute_upgrade, executable
    <2>2. /\ announced' = announced /\ approvers' = approvers
          /\ executed' = executed \cup {id}
          /\ cancelled' = cancelled
      <3>1. /\ DOMAIN qs = DOMAIN ps /\ qs[id] = [ps[id] EXCEPT !.status = "Executed"]
            /\ \A i \in DOMAIN ps : i # id => qs[i] = ps[i]
        BY <2>1
      <3>2. /\ qs[id].new_wasm_hash = ps[id].new_wasm_hash
            /\ qs[id].required_approvals = ps[id].required_approvals
            /\ qs[id].execution_time = ps[id].execution_time
            /\ qs[id].approvals = ps[id].approvals /\ qs[id].status = "Executed"
        BY <1>a, <3>1 DEF UpgradeProposal
      <3>3. announced' = announced
        BY <3>1, <3>2 DEF announced
      <3>4. approvers' = approvers
        BY <3>1, <3>2 DEF approvers
      <3> QED BY <2>1, <3>1, <3>2, <3>3, <3>4 DEF executed, cancelled, with_status
    <2>3. /\ Cardinality(ps[id].approvals) >= ps[id].required_approvals
          /\ ps[id].required_approvals > 0
      BY <1>a, <2>1 DEF GoodProposal, UpgradeProposal
    <2>4. /\ id \in DOMAIN announced
          /\ id \notin executed \cup cancelled
          /\ Cardinality(approvers[id]) >= announced[id].quorum
          /\ announced[id].quorum > 0 /\ now >= announced[id].ready
          /\ current_wasm_hash' = announced[id].hash
      BY <2>1, <2>3 DEF announced, approvers, executed, cancelled, with_status
    <2>5. Gate!Replace
      BY <2>1, <2>2, <2>4, SameCardinality DEF Gate!Replace
    <2> QED BY <2>5 DEF Gate!GateNext
  <1>8. ASSUME NEW u \in Council, NEW id \in DOMAIN upgrade_proposals, cancel_upgrade(u, id)
        PROVE  Gate!GateNext
    <2> DEFINE ps == upgrade_proposals
               qs == upgrade_proposals'
    <2>1. /\ qs = [ps EXCEPT ![id].status = "Cancelled"]
          /\ ps[id].status \notin {"Executed", "Cancelled"}
          /\ UNCHANGED <<now, current_wasm_hash>>
      BY <1>8 DEF cancel_upgrade, cancellable
    <2>2. /\ announced' = announced /\ approvers' = approvers
          /\ cancelled' = cancelled \cup {id}
          /\ executed' = executed
      <3>1. /\ DOMAIN qs = DOMAIN ps /\ qs[id] = [ps[id] EXCEPT !.status = "Cancelled"]
            /\ \A i \in DOMAIN ps : i # id => qs[i] = ps[i]
        BY <2>1
      <3>2. /\ qs[id].new_wasm_hash = ps[id].new_wasm_hash
            /\ qs[id].required_approvals = ps[id].required_approvals
            /\ qs[id].execution_time = ps[id].execution_time
            /\ qs[id].approvals = ps[id].approvals /\ qs[id].status = "Cancelled"
        BY <1>a, <3>1 DEF UpgradeProposal
      <3>3. announced' = announced
        BY <3>1, <3>2 DEF announced
      <3>4. approvers' = approvers
        BY <3>1, <3>2 DEF approvers
      <3> QED BY <2>1, <3>1, <3>2, <3>3, <3>4 DEF executed, cancelled, with_status
    <2>3. /\ id \in DOMAIN announced
          /\ id \notin executed \cup cancelled
      BY <2>1 DEF announced, executed, cancelled, with_status
    <2>4. Gate!Withdraw
      BY <2>1, <2>2, <2>3 DEF Gate!Withdraw
    <2> QED BY <2>4 DEF Gate!GateNext
  <1> QED BY <1>1, <1>2, <1>3, <1>4, <1>5, <1>6, <1>7, <1>8 DEF TimelockNext

\* The timelock implements the gate: execute_upgrade replaces the code only by a proposal
\* that enough different signers approved, after its delay, uncancelled and once.
THEOREM GateImplemented == TimelockSpec => ImplementsGate
  BY GateInitRefined, GateStepRefined, TimelockInvariance, PTL
     DEF TimelockSpec, ImplementsGate, Gate!GateSpec

-----------------------------------------------------------------------------
(***************************************************************************)
(* The services side by side: a behaviour of MCServices is a behaviour of  *)
(* every one of them, so that what is proved above of each holds of all    *)
(* together, however the clock they share is moved by the others.          *)
(***************************************************************************)
\* Only the clock's own action moves the clock.
LEMMA TimelockClock == TimelockNext => Tick \/ UNCHANGED now
  BY DEF TimelockNext, TimelockTick, initialize_timelock, add_signer, remove_signer,
         propose_upgrade, approve_upgrade, execute_upgrade, cancel_upgrade

LEMMA GovernanceClock == GovernanceNext => Tick \/ UNCHANGED now
  BY DEF GovernanceNext, GovernanceTick, initialize_governance, add_governance_admin,
         remove_governance_admin, whitelist_oracle, emergency_blacklist, suspend_oracle,
         reactivate_oracle, migrate_lease_oracle

LEMMA CollateralClock == CollateralNext => Tick \/ UNCHANGED now
  BY DEF CollateralNext, CollateralTick, initialize_collateral, register_lease_collateral,
         check_collateral_health, batch_health_check, Judge, fulfill_margin_call,
         execute_emergency_termination

LEMMA SymbolClock == SymbolNext => Tick \/ UNCHANGED now
  BY DEF SymbolNext, initialize_lease, create_lease, activate_lease, end_lease,
         set_buyout_price, pay_rent, pay_rent_receipt

LEMMA AccessClock == AccessNext => Tick \/ UNCHANGED now
  BY DEF AccessNext, Clock, LeaseSteps, mint_lessee_access_token, revoke_access_token,
         handle_lease_state_change, renew_access_token, verify_access_token,
         transfer_access_token

LEMMA LibraryClock == LibraryNext => Tick \/ UNCHANGED now
  <1>1. IoTNext => Tick \/ UNCHANGED now
    BY AccessClock DEF IoTNext, query_token_validity, verify_access_token, register_device,
       process_access_request, update_device_status
  <1>2. RightsNext => Tick \/ UNCHANGED now
    BY DEF RightsNext, Clock, LeaseSteps, mint_lessor_rights_token, update_nft_lock,
       release_nft_lock, refund_deposit_to_nft_holder, mutual_release_with_nft_verification,
       transfer_nft
  <1>3. CleanupNext => Tick \/ UNCHANGED now
    BY DEF CleanupNext, CleanupSteps, Clock, LeaseSteps, prune_finalized_lease,
       place_legal_hold, release_legal_hold, add_prune_whitelist, remove_prune_whitelist
  <1> QED BY <1>1, <1>2, <1>3 DEF LibraryNext

\* A step of the token libraries, alone or with pruning, is a step of the libraries.
LEMMA LibraryStepIs == LibraryStep => LibraryNext
  <1> SUFFICES ASSUME LibraryStep PROVE LibraryNext
    OBVIOUS
  <1>1. CASE AccessNext /\ UNCHANGED <<iot_vars, rights_vars, cleanup_vars>>
    BY <1>1 DEF LibraryNext, IoTNext
  <1>2. CASE IoTNext /\ UNCHANGED <<rights_vars, cleanup_vars>>
    BY <1>2 DEF LibraryNext
  <1>3. CASE RightsNext /\ UNCHANGED <<access_vars, iot_vars, cleanup_vars>>
    BY <1>3 DEF LibraryNext
  <1>4. CASE CleanupNext /\ UNCHANGED <<access_vars, iot_vars, rights_vars>>
    BY <1>4 DEF LibraryNext
  <1>5. CASE Pruning /\ UNCHANGED <<access_vars, iot_vars, rights_vars>>
    BY <1>5 DEF LibraryNext, CleanupNext, CleanupSteps, Pruning
  <1> QED BY <1>1, <1>2, <1>3, <1>4, <1>5 DEF LibraryStep

\* Time passing is a step of each service that does not use it.
LEMMA ClockIsEachOnes ==
    /\ Tick /\ UNCHANGED timelock_vars => TimelockNext
    /\ Tick /\ UNCHANGED governance_vars => GovernanceNext
    /\ Tick /\ UNCHANGED collateral_vars => CollateralNext
    /\ Tick /\ UNCHANGED library_vars => LibraryNext
    /\ Tick /\ UNCHANGED symbol_vars => SymbolNext
  <1>1. Tick /\ UNCHANGED timelock_vars => TimelockNext
    BY DEF TimelockNext, TimelockTick
  <1>2. Tick /\ UNCHANGED governance_vars => GovernanceNext
    BY DEF GovernanceNext, GovernanceTick
  <1>3. Tick /\ UNCHANGED collateral_vars => CollateralNext
    BY DEF CollateralNext, CollateralTick
  <1>4. Tick /\ UNCHANGED library_vars => LibraryNext
    BY DEF LibraryNext, CleanupNext, Clock, library_vars
  <1>5. Tick /\ UNCHANGED symbol_vars => SymbolNext
    BY DEF SymbolNext
  <1> QED BY <1>1, <1>2, <1>3, <1>4, <1>5

\* A step of the composition is a step of each service or leaves it alone.
LEMMA StepOfEach ==
    ASSUME [MCNext]_service_vars
    PROVE  /\ [TimelockNext]_<<now, timelock_vars>>
           /\ [GovernanceNext]_<<now, governance_vars>>
           /\ [CollateralNext]_<<now, collateral_vars>>
           /\ [LibraryNext]_<<now, library_vars>>
           /\ [EscrowNext]_escrow_vars
           /\ [SymbolNext]_<<now, symbol_vars>>
  <1> DEFINE Moved == Tick \/ UNCHANGED now
  <1>1. CASE UNCHANGED service_vars
    BY <1>1 DEF service_vars, guard_vars
  <1>2. CASE GuardStep
    <2>1. Moved
      BY <1>2, TimelockClock, GovernanceClock, CollateralClock DEF GuardStep
    <2> HIDE DEF Moved
    <2>2. UNCHANGED library_vars /\ UNCHANGED escrow_vars /\ UNCHANGED symbol_vars
      BY <1>2 DEF GuardStep
    <2>3. /\ TimelockNext \/ UNCHANGED timelock_vars
          /\ GovernanceNext \/ UNCHANGED governance_vars
          /\ CollateralNext \/ UNCHANGED collateral_vars
      BY <1>2 DEF GuardStep
    <2> QED BY <2>1, <2>2, <2>3, ClockIsEachOnes DEF Moved
  <1>3. CASE LibraryStep
    <2>1. LibraryNext
      BY <1>3, LibraryStepIs
    <2>2. Moved
      BY <2>1, LibraryClock
    <2> HIDE DEF Moved
    <2>3. /\ UNCHANGED timelock_vars /\ UNCHANGED governance_vars /\ UNCHANGED collateral_vars
          /\ UNCHANGED escrow_vars /\ UNCHANGED symbol_vars
      BY <1>3 DEF LibraryStep, guard_vars
    <2> QED BY <2>1, <2>2, <2>3, ClockIsEachOnes DEF Moved
  <1>4. CASE EscrowStep
    <2>1. /\ UNCHANGED timelock_vars /\ UNCHANGED governance_vars /\ UNCHANGED collateral_vars
          /\ UNCHANGED library_vars /\ UNCHANGED symbol_vars /\ UNCHANGED now /\ EscrowNext
      BY <1>4 DEF EscrowStep, guard_vars
    <2> QED BY <2>1
  <1>5. CASE SymbolStep
    <2>1. Moved
      BY <1>5, SymbolClock DEF SymbolStep
    <2> HIDE DEF Moved
    <2>2. /\ UNCHANGED timelock_vars /\ UNCHANGED governance_vars /\ UNCHANGED collateral_vars
          /\ UNCHANGED library_vars /\ UNCHANGED escrow_vars /\ SymbolNext
      BY <1>5 DEF SymbolStep, guard_vars
    <2> QED BY <2>1, <2>2, ClockIsEachOnes DEF Moved
  <1> QED BY <1>1, <1>2, <1>3, <1>4, <1>5 DEF MCNext

\* The services share no storage and only the clock: whichever of them is exercised, each
\* runs as its own specification says.
THEOREM EachServiceRuns ==
    MCSpec => /\ TimelockSpec /\ GovernanceSpec /\ CollateralSpec
              /\ LibrarySpec /\ EscrowSpec /\ SymbolSpec
  <1>1. MCInit => /\ now = StartTime /\ TimelockInit /\ GovernanceInit /\ CollateralInit
                  /\ LibraryInit /\ EscrowInit /\ SymbolInit
    BY DEF MCInit
  <1>2. [MCNext]_service_vars =>
           /\ [TimelockNext]_<<now, timelock_vars>>
           /\ [GovernanceNext]_<<now, governance_vars>>
           /\ [CollateralNext]_<<now, collateral_vars>>
           /\ [LibraryNext]_<<now, library_vars>>
           /\ [EscrowNext]_escrow_vars
           /\ [SymbolNext]_<<now, symbol_vars>>
    BY StepOfEach
  <1> QED
    BY <1>1, <1>2, PTL DEF MCSpec, TimelockSpec, GovernanceSpec, CollateralSpec,
                           LibrarySpec, EscrowSpec, SymbolSpec

\* Every variable of every service keeps its type, whatever the services do.
THEOREM ServicesTyped == MCSpec => []ServicesTypeOK
  <1>1. SymbolInv => SymbolTypeOK
    BY DEF SymbolInv
  <1>2. /\ TimelockTypeOK /\ GovernanceTypeOK /\ CollateralTypeOK
        /\ IoTTypeOK /\ RightsTypeOK /\ CleanupTypeOK /\ EscrowTypeOK /\ SymbolTypeOK
        => ServicesTypeOK
    BY DEF ServicesTypeOK
  <1> QED
    BY <1>1, <1>2, EachServiceRuns, TimelockTypes, StaleOraclesExplained,
       MarginCallsAlwaysJust, LibraryTypes, EscrowTypes, SymbolTypes, PTL

\* What the services promise one by one they promise side by side: the gate before an
\* upgrade, oracles and margin calls explained, holders paid, holds respected, the ledger
\* sound, access that ends with its token and closed leases that take nothing.
THEOREM ServicesKeepPromises ==
    MCSpec => /\ ImplementsGate /\ AccessFollowsToken /\ ClosedLeaseTakesNothing
              /\ [](/\ StaleOracleExplained /\ MarginCallsJust /\ HolderPaid
                    /\ HoldsRespected /\ EscrowSound)
  BY EachServiceRuns, GateImplemented, StaleOraclesExplained, MarginCallsAlwaysJust,
     HolderAlwaysPaid, HoldsAlwaysRespected, EscrowAlwaysSound, AccessAlwaysFollows,
     ClosedLeaseStaysClosed, PTL
=============================================================================
