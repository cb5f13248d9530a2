---------------------------- MODULE OracleSlash ----------------------------
(***************************************************************************)
(* The oracles of contracts/leaseflow_contracts/src/lib.rs and what their  *)
(* reports do to the leases of module LeaseContract: damage reports that   *)
(* slash a deposit (execute_deposit_slash), condition reports that reach   *)
(* the asset registry (update_asset_condition_metadata), and the hierarchy *)
(* of a primary and a backup oracle.                                       *)
(*                                                                         *)
(* A report may reach the contract any number of times, late and in any    *)
(* order: every payload is offered in every state.  The signature check    *)
(* and the registry are external and succeed.  No function stores a        *)
(* security council, so a massive slash is executed like any other one.    *)
(*                                                                         *)
(* A report from an oracle that is not available makes the code demote it  *)
(* and activate the fallback, and then return Err.  These writes are       *)
(* modelled, and host_commit says what is left of them.                    *)
(***************************************************************************)
EXTENDS LeaseContract

CONSTANTS
    Oracles,                \* public keys of oracles
    Nonces, Timestamps,     \* values offered in the payloads
    Severities, Conditions, \* damage severities and asset conditions offered
    STALENESS_THRESHOLD,    \* 48 hours in the code
    DAY, HOUR,              \* 86400 and 3600 in the code
    BACKUP_FAILURE_THRESHOLD,   \* seven days in the code
    MAX_ORACLE_FAILURES,    \* 3 in the code
    MaxReports              \* bound: reports accepted

DamageSeverity ==
    {"NormalWearAndTear", "Minor", "Moderate", "Major", "Severe", "Catastrophic"}
AssetCondition == {"Mint", "Worn", "Damaged", "Destroyed"}

ASSUME OracleAssumption ==
    /\ None \notin Oracles
    /\ Nonces \subseteq Nat /\ Timestamps \subseteq Nat
    /\ Severities \subseteq DamageSeverity /\ Conditions \subseteq AssetCondition
    /\ STALENESS_THRESHOLD \in Nat /\ DAY \in Nat /\ HOUR \in Nat \ {0}
    /\ BACKUP_FAILURE_THRESHOLD \in Nat /\ MAX_ORACLE_FAILURES \in Nat
    /\ MaxReports \in Nat

VARIABLES
    oracle_whitelist,     \* oracles the admin has listed
    oracle_config,        \* oracle -> configuration
    fallback_hierarchy,   \* the hierarchy, or None
    oracle_nonce,         \* oracle -> last nonce used, 0 without one
    tenant_flag,          \* ids whose tenant is flagged
    asset_condition,      \* id -> condition
    oracle_rate_limit,    \* pairs <<oracle, hour>>
    accepted,             \* observed: accepted reports in order
    slashed,              \* observed: ids whose current lease was slashed
    failed_over,          \* observed: oracles of the hierarchy refused as stale or unavailable
    destroyed             \* observed: active leases reported as destroyed

oracle_settings == <<oracle_whitelist, oracle_config, fallback_hierarchy>>
report_book == <<oracle_nonce, tenant_flag, asset_condition, oracle_rate_limit>>
report_observed == <<accepted, slashed, failed_over, destroyed>>
oracle_vars == <<oracle_settings, report_book, report_observed>>

OracleConfig ==
    [tier : {"Primary", "Backup"}, status : {"Active", "Demoted", "Failed"},
     last_successful_timestamp : Nat, demotion_timestamp : Nat \cup {None},
     failure_count : Nat]

FallbackHierarchy ==
    [primary_oracle : Oracles, backup_oracle : Oracles, dao_arbitration_enabled : BOOLEAN,
     hierarchy_active : BOOLEAN, last_demotion_time : Nat \cup {None}]

OraclePayload ==
    [lease_id : Ids, oracle_pubkey : Oracles, damage_severity : Severities,
     nonce : Nonces, timestamp : Timestamps]

AssetConditionMetadataPayload ==
    [lease_id : Ids, oracle_pubkey : Oracles, asset_condition : Conditions,
     nonce : Nonces, timestamp : Timestamps]

OracleInit ==
    /\ Init
    /\ oracle_whitelist = {} /\ oracle_config = << >> /\ fallback_hierarchy = None
    /\ oracle_nonce = [o \in Oracles |-> 0]
    /\ tenant_flag = {} /\ asset_condition = << >> /\ oracle_rate_limit = {}
    /\ accepted = << >> /\ slashed = {} /\ failed_over = {} /\ destroyed = {}

-----------------------------------------------------------------------------
(* Settings, by the admin. *)

whitelist_oracle(o) ==
    /\ admin # None
    /\ oracle_whitelist' = oracle_whitelist \cup {o}
    /\ UNCHANGED <<vars, oracle_config, fallback_hierarchy, report_book, report_observed>>

\* The configuration and the place in the hierarchy stay.
remove_oracle(o) ==
    /\ admin # None
    /\ oracle_whitelist' = oracle_whitelist \ {o}
    /\ UNCHANGED <<vars, oracle_config, fallback_hierarchy, report_book, report_observed>>

NewConfig(tier) ==
    [tier |-> tier, status |-> "Active", last_successful_timestamp |-> now,
     demotion_timestamp |-> None, failure_count |-> 0]

set_fallback_hierarchy(primary, backup, dao_enabled) ==
    /\ admin # None
    /\ {primary, backup} \subseteq oracle_whitelist
    /\ primary # backup
    /\ oracle_config' = Put(Put(oracle_config, primary, NewConfig("Primary")),
                            backup, NewConfig("Backup"))
    /\ fallback_hierarchy' =
          [primary_oracle |-> primary, backup_oracle |-> backup,
           dao_arbitration_enabled |-> dao_enabled, hierarchy_active |-> FALSE,
           last_demotion_time |-> None]
    /\ UNCHANGED <<vars, oracle_whitelist, report_book, report_observed>>

reset_oracle_status(o) ==
    /\ admin # None
    /\ o \in DOMAIN oracle_config
    /\ oracle_config' = Put(oracle_config, o, NewConfig(oracle_config[o].tier))
    /\ UNCHANGED <<vars, oracle_whitelist, fallback_hierarchy, report_book, report_observed>>

-----------------------------------------------------------------------------
(* The checks of a report. *)

staleness_check(time) == time <= now /\ now - time <= STALENESS_THRESHOLD

\* The oracle has no configuration: the call ends in an Err whatever else holds.
check_oracle_availability(o) ==
    LET config == oracle_config[o]
    IN  \/ config.status = "Active"
        \/ /\ config.status = "Demoted" /\ config.demotion_timestamp # None
           /\ now - config.demotion_timestamp > DAY
           /\ config.failure_count < MAX_ORACLE_FAILURES

oracle_available(o) == o \in oracle_whitelist /\ check_oracle_availability(o)

bypasses_backup(o) ==
    /\ fallback_hierarchy # None /\ fallback_hierarchy.hierarchy_active
    /\ o # fallback_hierarchy.backup_oracle

\* Wrong: a nonce may be used again.
fresh_nonce_X(o, nonce) == nonce >= oracle_nonce[o]

fresh_nonce(o, nonce) == nonce > oracle_nonce[o]

calculate_penalty_percentage(severity) ==
    CASE severity = "NormalWearAndTear" -> 0
      [] severity = "Minor" -> 10
      [] severity = "Moderate" -> 25
      [] severity = "Major" -> 50
      [] severity = "Severe" -> 75
      [] severity = "Catastrophic" -> 100

slash_penalty(lease, severity) ==
    Quot(total_deposit(lease) * calculate_penalty_percentage(severity), 100)

\* Wrong: the deposit may be settled already.
may_slash_X(lease) == lease.status \in {"Terminated", "Expired"}

may_slash(lease) ==
    lease.status \in {"Terminated", "Expired"} /\ lease.deposit_status # "Settled"

\* The configuration after a report that went through.
reinstated(config) ==
    IF config.status = "Demoted" /\ config.failure_count < MAX_ORACLE_FAILURES
    THEN NewConfig(config.tier)
    ELSE [config EXCEPT !.last_successful_timestamp = now]

accept(kind, p) ==
    /\ Len(accepted) < MaxReports
    /\ oracle_nonce' = [oracle_nonce EXCEPT ![p.oracle_pubkey] = p.nonce]
    /\ accepted' = Append(accepted, [kind |-> kind, oracle |-> p.oracle_pubkey,
                                     nonce |-> p.nonce, hour |-> now \div HOUR])

-----------------------------------------------------------------------------
(* Damage reports. *)

\* The tenant is flagged when a severe damage takes the whole deposit.
flag_tenant(lease, p) ==
    IF p.damage_severity \in {"Severe", "Catastrophic"}
          /\ slash_penalty(lease, p.damage_severity) >= total_deposit(lease)
    THEN tenant_flag \cup {p.lease_id}
    ELSE tenant_flag

execute_deposit_slash(p) ==
    /\ staleness_check(p.timestamp) /\ now - p.timestamp <= DAY
    /\ p.oracle_pubkey \in DOMAIN oracle_config /\ oracle_available(p.oracle_pubkey)
    /\ ~bypasses_backup(p.oracle_pubkey)
    /\ fresh_nonce(p.oracle_pubkey, p.nonce)
    /\ p.lease_id \in DOMAIN lease_instance
    /\ may_slash(lease_instance[p.lease_id])
    /\ CanMeasure(now)
    /\ LET lease == lease_instance[p.lease_id]
           tracker == initialize_lessor(lease.landlord)
           landlord_payout == slash_penalty(lease, p.damage_severity)
           tenant_refund == total_deposit(lease) - landlord_payout
           refunded == pay(balance, Contract, lease.tenant, tenant_refund)
       IN  /\ WithinLimits(tracker, now)
           /\ CanPay(balance, Contract, tenant_refund)
           /\ CanPay(refunded, Contract, landlord_payout)
           /\ balance' = pay(refunded, Contract, lease.landlord, landlord_payout)
           /\ lease_instance' = Put(lease_instance, p.lease_id,
                 [lease EXCEPT !.deposit_status = "Settled", !.active = FALSE])
           /\ velocity' = Put(velocity, lease.landlord,
                              shrink_portfolio(record_termination(tracker, now)))
           /\ paid_out' = [paid_out EXCEPT ![p.lease_id] = @ + Max({tenant_refund, 0})
                                                             + Max({landlord_payout, 0})]
           /\ tenant_flag' = flag_tenant(lease, p)
    /\ oracle_config' = Put(oracle_config, p.oracle_pubkey,
                            reinstated(oracle_config[p.oracle_pubkey]))
    /\ accept("slash", p)
    /\ slashed' = slashed \cup {p.lease_id}
    /\ UNCHANGED <<now, settings, archive, rent_book, created, tripped, oracle_whitelist,
                   fallback_hierarchy, asset_condition, oracle_rate_limit, failed_over, destroyed>>

demote_oracle(o) ==
    IF oracle_config[o].status = "Demoted" THEN oracle_config
    ELSE [oracle_config EXCEPT ![o].status = "Demoted", ![o].demotion_timestamp = now,
                               ![o].failure_count = @ + 1]

activate_fallback_hierarchy ==
    IF fallback_hierarchy.hierarchy_active THEN fallback_hierarchy
    ELSE [fallback_hierarchy EXCEPT !.hierarchy_active = TRUE, !.last_demotion_time = now]

\* The backup has been failing for more than seven days since the primary fell out.
backup_exhausted ==
    /\ fallback_hierarchy.last_demotion_time # None
    /\ now - fallback_hierarchy.last_demotion_time > BACKUP_FAILURE_THRESHOLD

trigger_dao_arbitration(id) ==
    Put(lease_instance, id, [lease_instance[id] EXCEPT !.status = "DaoArbitration"])

\* What the call has written when it answers an oracle that is not available.
failover(p) ==
    IF p.oracle_pubkey = fallback_hierarchy.primary_oracle
    THEN [config |-> demote_oracle(p.oracle_pubkey),
          hierarchy |-> activate_fallback_hierarchy, leases |-> lease_instance]
    ELSE IF backup_exhausted
    THEN [config |-> oracle_config, hierarchy |-> fallback_hierarchy,
          leases |-> trigger_dao_arbitration(p.lease_id)]
    ELSE [config |-> demote_oracle(p.oracle_pubkey),
          hierarchy |-> fallback_hierarchy, leases |-> lease_instance]

\* Wrong: the call answers Ok once it has switched over.
failover_answers_ok_X == TRUE

\* Every branch of the failover returns OracleStale or OracleUnavailable.
failover_answers_ok == FALSE

\* The host keeps the writes of a call only when it answers Ok.
host_commit(ok, writes) ==
    /\ oracle_config' = IF ok THEN writes.config ELSE oracle_config
    /\ fallback_hierarchy' = IF ok THEN writes.hierarchy ELSE fallback_hierarchy
    /\ lease_instance' = IF ok THEN writes.leases ELSE lease_instance

deposit_slash_unavailable(p) ==
    /\ staleness_check(p.timestamp)
    /\ fallback_hierarchy # None
    /\ p.oracle_pubkey \in {fallback_hierarchy.primary_oracle,
                            fallback_hierarchy.backup_oracle}
    /\ ~oracle_available(p.oracle_pubkey)
    /\ p.lease_id \in DOMAIN lease_instance
    /\ host_commit(failover_answers_ok, failover(p))
    /\ failed_over' = failed_over \cup {p.oracle_pubkey}
    /\ UNCHANGED <<now, settings, archive, rent_book, velocity, balance, observed,
                   oracle_whitelist, report_book, accepted, slashed, destroyed>>

\* staleness_check comes first: a report that is too old, or from the future, is refused
\* before the call looks at the hierarchy.
deposit_slash_stale(p) ==
    /\ ~staleness_check(p.timestamp)
    /\ fallback_hierarchy # None
    /\ p.oracle_pubkey \in {fallback_hierarchy.primary_oracle,
                            fallback_hierarchy.backup_oracle}
    /\ failed_over' = failed_over \cup {p.oracle_pubkey}
    /\ UNCHANGED <<vars, oracle_settings, report_book, accepted, slashed, destroyed>>

-----------------------------------------------------------------------------
(* Condition reports. *)

\* A destroyed asset ends an active lease: it is archived first and slashed then,
\* and the slash no longer finds it.
slash_finds(id, store) == id \in DOMAIN store

\* Whether a condition report is answered with Ok.
condition_ok(p) ==
    LET id == p.lease_id
    IN  p.asset_condition = "Destroyed" =>
           /\ id \in DOMAIN lease_instance
           /\ lease_instance[id].status = "Active" => slash_finds(id, Drop(lease_instance, id))

\* Wrong: the hour is not marked as used.
rate_limited_X(o) == oracle_rate_limit

rate_limited(o) == oracle_rate_limit \cup {<<o, now \div HOUR>>}

\* The answer of check_oracle_availability is dropped: only a missing configuration
\* refuses the report.
may_report_condition(p) ==
    /\ <<p.oracle_pubkey, now \div HOUR>> \notin oracle_rate_limit
    /\ staleness_check(p.timestamp)
    /\ p.oracle_pubkey \in oracle_whitelist \cap DOMAIN oracle_config
    /\ fresh_nonce(p.oracle_pubkey, p.nonce)

update_asset_condition_metadata(p) ==
    /\ may_report_condition(p)
    /\ condition_ok(p)
    /\ asset_condition' = Put(asset_condition, p.lease_id, p.asset_condition)
    /\ oracle_rate_limit' = rate_limited(p.oracle_pubkey)
    /\ accept("condition", p)
    /\ UNCHANGED <<vars, oracle_settings, tenant_flag, slashed, failed_over, destroyed>>

\* The report of a destroyed asset on an active lease: everything it wrote, the
\* termination included, is rolled back with the slash that fails.
condition_report_refused(p) ==
    /\ may_report_condition(p)
    /\ p.lease_id \in DOMAIN lease_instance
    /\ ~condition_ok(p)
    /\ destroyed' = destroyed \cup {p.lease_id}
    /\ UNCHANGED <<vars, oracle_settings, report_book, accepted, slashed, failed_over>>

-----------------------------------------------------------------------------
OracleSettings ==
    \E o \in Oracles :
       \/ whitelist_oracle(o)
       \/ remove_oracle(o)
       \/ reset_oracle_status(o)
       \/ \E backup \in Oracles : set_fallback_hierarchy(o, backup, TRUE)

Reports ==
    \/ \E p \in OraclePayload :
          execute_deposit_slash(p) \/ deposit_slash_unavailable(p) \/ deposit_slash_stale(p)
    \/ \E p \in AssetConditionMetadataPayload :
          update_asset_condition_metadata(p) \/ condition_report_refused(p)

\* A step of the leases themselves; a lease that is stored anew was not slashed yet.
LeaseStep ==
    /\ Next
    /\ slashed' = IF created' = created THEN slashed
                  ELSE {id \in slashed : id \in DOMAIN lease_instance
                                            /\ lease_instance'[id] = lease_instance[id]}
    /\ UNCHANGED <<oracle_settings, report_book, accepted, failed_over, destroyed>>

OracleNext == LeaseStep \/ OracleSettings \/ Reports

all_vars == <<vars, oracle_vars>>

OracleSpec == OracleInit /\ [][OracleNext]_all_vars

-----------------------------------------------------------------------------
(* Properties. *)

\* However reports are repeated, delayed or reordered, the accepted ones of an oracle
\* carry increasing nonces, slashes and condition reports together, and no oracle has
\* two condition reports accepted in the same hour of the clock; the last minute of one
\* hour and the first of the next are two hours (rate_limited).
ReportsOnce ==
    \A i, j \in DOMAIN accepted :
       i < j /\ accepted[i].oracle = accepted[j].oracle =>
          /\ accepted[i].nonce < accepted[j].nonce
          /\ accepted[i].kind = "condition" /\ accepted[j].kind = "condition" =>
                accepted[i].hour < accepted[j].hour

\* A slashed deposit is settled for good: nothing but a dispute by a party brings the
\* lease back to a state in which a further report can slash it again.
SlashedAgainAfterDispute ==
    [][\A id \in slashed \cap DOMAIN lease_instance :
          (Len(accepted') > Len(accepted) /\ paid_out'[id] # paid_out[id])
             => lease_instance[id].deposit_status = "Disputed"]_all_vars

\* The demotion of an oracle, the activation of the fallback and the arbitration are
\* written by calls that return Err: none of them outlives its call, the backup never
\* replaces the primary and no lease ever waits for the DAO.
FailoverRolledBack ==
    /\ \A o \in DOMAIN oracle_config :
          oracle_config[o].status = "Active" /\ oracle_config[o].failure_count = 0
    /\ fallback_hierarchy # None => ~fallback_hierarchy.hierarchy_active
    /\ \A id \in DOMAIN lease_instance : lease_instance[id].status # "DaoArbitration"

\* What oracle_fallback_tests.rs:206-217 assert of a report refused as OracleStale: the
\* primary that sent it is demoted and the fallback is active.
PrimaryDemotedWhenStale ==
    [][\A o \in failed_over' \ failed_over :
          o = fallback_hierarchy.primary_oracle =>
             /\ oracle_config'[o].status = "Demoted" /\ oracle_config'[o].failure_count = 1
             /\ fallback_hierarchy'.hierarchy_active]_all_vars

\* An active lease whose asset is reported as destroyed is terminated.
DestroyedReportHonoured ==
    \A id \in destroyed \cap DOMAIN lease_instance : lease_instance[id].status # "Active"

OracleTypeOK ==
    /\ TypeOK
    /\ oracle_whitelist \subseteq Oracles
    /\ DOMAIN oracle_config \subseteq Oracles
    /\ \A o \in DOMAIN oracle_config : oracle_config[o] \in OracleConfig
    /\ fallback_hierarchy \in FallbackHierarchy \cup {None}
    /\ oracle_nonce \in [Oracles -> Nat]
    /\ tenant_flag \subseteq Nat /\ DOMAIN asset_condition \subseteq Nat
    /\ oracle_rate_limit \subseteq Oracles \X Nat
=============================================================================
