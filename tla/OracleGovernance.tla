-------------------------- MODULE OracleGovernance --------------------------
(***************************************************************************)
(* The oracle registry of oracle_governance.rs: which oracle keys are      *)
(* whitelisted, suspended or blacklisted, and which oracle serves a lease. *)
(* Reasons and events are left out.  Definitions whose name ends in _X are *)
(* wrong variants.                                                         *)
(***************************************************************************)
EXTENDS Ledger

CONSTANTS
    Governors,      \* addresses that may become governance admins
    OracleKeys,     \* oracle public keys
    ServedLeases,   \* lease ids
    MaxDecisions    \* bound: entries into the white- and into the blacklist

ASSUME GovernanceAssumption ==
    MaxDecisions \in Nat /\ None \notin {"Whitelisted", "Blacklisted", "Suspended"}

VARIABLES
    governance_admins,
    oracle_records,         \* oracle key -> record
    whitelist_count, blacklist_count,
    active_lease_oracle,    \* lease id -> oracle key
    migration_history       \* lease id -> last migration

governance_vars == <<governance_admins, oracle_records, whitelist_count, blacklist_count,
                     active_lease_oracle, migration_history>>

OracleGovernanceRecord ==
    [status : {"Whitelisted", "Blacklisted", "Suspended"}, added_at : Nat, updated_at : Nat,
     affected_leases : SUBSET ServedLeases, added_by : Governors]

OracleMigration ==
    [old_oracle : OracleKeys, new_oracle : OracleKeys, migrated_at : Nat,
     migrated_by : Governors]

GovernanceInit ==
    /\ governance_admins = {} /\ oracle_records = << >>
    /\ whitelist_count = 0 /\ blacklist_count = 0
    /\ active_lease_oracle = << >> /\ migration_history = << >>

StatusOf(o) == IF o \in DOMAIN oracle_records THEN oracle_records[o].status ELSE None

\* The check for an earlier call looks at the caller's own key only.
initialize_governance(admin) ==
    /\ admin \notin governance_admins
    /\ governance_admins' = governance_admins \cup {admin}
    /\ UNCHANGED <<oracle_records, whitelist_count, blacklist_count,
                   active_lease_oracle, migration_history, now>>

add_governance_admin(caller, new_admin) ==
    /\ caller \in governance_admins
    /\ governance_admins' = governance_admins \cup {new_admin}
    /\ UNCHANGED <<oracle_records, whitelist_count, blacklist_count,
                   active_lease_oracle, migration_history, now>>

remove_governance_admin(caller, admin) ==
    /\ caller \in governance_admins
    /\ governance_admins' = governance_admins \ {admin}
    /\ UNCHANGED <<oracle_records, whitelist_count, blacklist_count,
                   active_lease_oracle, migration_history, now>>

NewRecord(admin, status, affected) ==
    [status |-> status, added_at |-> now, updated_at |-> now,
     affected_leases |-> affected, added_by |-> admin]

\* A key is added when it is unknown, or taken off the blacklist.
whitelist_oracle(admin, o) ==
    /\ admin \in governance_admins
    /\ StatusOf(o) \in {None, "Blacklisted"}
    /\ whitelist_count < MaxDecisions
    /\ oracle_records' = Store(oracle_records, o, NewRecord(admin, "Whitelisted", {}))
    /\ whitelist_count' = whitelist_count + 1
    /\ UNCHANGED <<governance_admins, blacklist_count, active_lease_oracle,
                   migration_history, now>>

emergency_blacklist(admin, o, affected) ==
    /\ admin \in governance_admins
    /\ blacklist_count < MaxDecisions
    /\ oracle_records' = Store(oracle_records, o,
            IF o \in DOMAIN oracle_records
            THEN [oracle_records[o] EXCEPT !.status = "Blacklisted", !.updated_at = now,
                                           !.affected_leases = affected]
            ELSE NewRecord(admin, "Blacklisted", affected))
    /\ blacklist_count' = blacklist_count + 1
    /\ UNCHANGED <<governance_admins, whitelist_count, active_lease_oracle,
                   migration_history, now>>

suspend_oracle(admin, o) ==
    /\ admin \in governance_admins
    /\ StatusOf(o) \notin {None, "Blacklisted"}
    /\ oracle_records' = [oracle_records EXCEPT ![o].status = "Suspended", ![o].updated_at = now]
    /\ UNCHANGED <<governance_admins, whitelist_count, blacklist_count,
                   active_lease_oracle, migration_history, now>>

\* Wrong: a blacklisted oracle may be reactivated.
reactivatable_X(o) == StatusOf(o) # None

reactivatable(o) == StatusOf(o) \notin {None, "Blacklisted"}

reactivate_oracle(admin, o) ==
    /\ admin \in governance_admins
    /\ reactivatable(o)
    /\ oracle_records' = [oracle_records EXCEPT ![o].status = "Whitelisted", ![o].updated_at = now]
    /\ UNCHANGED <<governance_admins, whitelist_count, blacklist_count,
                   active_lease_oracle, migration_history, now>>

\* Wrong: any registered oracle may take over a lease.
may_serve_X(o) == StatusOf(o) # None

may_serve(o) == StatusOf(o) = "Whitelisted"

\* Anyone may migrate a lease; the oracle named as the old one is not looked up.
migrate_lease_oracle(caller, l, old, new) ==
    /\ may_serve(new)
    /\ migration_history' = Store(migration_history, l,
            [old_oracle |-> old, new_oracle |-> new, migrated_at |-> now,
             migrated_by |-> caller])
    /\ active_lease_oracle' = Store(active_lease_oracle, l, new)
    /\ UNCHANGED <<governance_admins, oracle_records, whitelist_count, blacklist_count, now>>

GovernanceTick == Tick /\ UNCHANGED governance_vars

GovernanceNext ==
    \/ GovernanceTick
    \/ \E u \in Governors : initialize_governance(u)
    \/ \E u, v \in Governors : add_governance_admin(u, v)
    \/ \E u, v \in Governors : remove_governance_admin(u, v)
    \/ \E u \in Governors, o \in OracleKeys : whitelist_oracle(u, o)
    \/ \E u \in Governors, o \in OracleKeys, affected \in SUBSET ServedLeases :
          emergency_blacklist(u, o, affected)
    \/ \E u \in Governors, o \in OracleKeys : suspend_oracle(u, o)
    \/ \E u \in Governors, o \in OracleKeys : reactivate_oracle(u, o)
    \/ \E u \in Governors, l \in ServedLeases, old, new \in OracleKeys :
          migrate_lease_oracle(u, l, old, new)

GovernanceSpec == now = StartTime /\ GovernanceInit /\ [][GovernanceNext]_<<now, governance_vars>>

-----------------------------------------------------------------------------
\* Each variable of the registry has its type.
GovernanceTypeOK ==
    /\ governance_admins \subseteq Governors
    /\ DOMAIN oracle_records \subseteq OracleKeys
    /\ \A o \in DOMAIN oracle_records : oracle_records[o] \in OracleGovernanceRecord
    /\ whitelist_count \in Nat /\ blacklist_count \in Nat
    /\ DOMAIN active_lease_oracle \subseteq ServedLeases
    /\ DOMAIN migration_history = DOMAIN active_lease_oracle
    /\ \A l \in DOMAIN active_lease_oracle : active_lease_oracle[l] \in OracleKeys
    /\ \A l \in DOMAIN migration_history : migration_history[l] \in OracleMigration

\* A lease is served by an oracle that is not whitelisted only when the registry changed
\* after the lease was migrated to it, and the last migration names the oracle that
\* serves (migrate_lease_oracle): nothing moves the leases of an oracle that is suspended
\* or blacklisted, so such a lease can be told by comparing the two times.
StaleOracleExplained ==
    \A l \in DOMAIN active_lease_oracle :
        LET o == active_lease_oracle[l]
        IN /\ o = migration_history[l].new_oracle
           /\ StatusOf(o) # None
           /\ StatusOf(o) # "Whitelisted" =>
                oracle_records[o].updated_at >= migration_history[l].migrated_at

\* An oracle leaves the blacklist only by a new entry into the whitelist, which counts it
\* and forgets the leases it had affected (whitelist_oracle): suspending and reactivating
\* do not bring it back.
BlacklistLeftByReentry ==
    [][\A o \in OracleKeys :
         (StatusOf(o) = "Blacklisted" /\ StatusOf(o)' # "Blacklisted") =>
            /\ whitelist_count' = whitelist_count + 1
            /\ oracle_records'[o].affected_leases = {}]_governance_vars
=============================================================================
