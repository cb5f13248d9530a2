--------------------------- MODULE StorageCleanup ---------------------------
(***************************************************************************)
(* The pruning of finished leases (storage_cleanup.rs): a relayer replaces *)
(* a lease by a tombstone once the cooldown is over, unless a legal hold   *)
(* is on it.                                                               *)
(*                                                                         *)
(* Nobody signs a prune, a hold or a release: the caller's address is all  *)
(* that is compared.  The size of a stored lease is a constant             *)
(* (arbitrators are left out), and a hash is the tuple of the fields it is *)
(* taken of.  The removals for a random payer and a random roommate remove *)
(* nothing.                                                                *)
(***************************************************************************)
EXTENDS LeaseStore

CONSTANTS
    CleanupAdmin,       \* the administrator of the contract
    Relayers,           \* addresses offered to the whitelist
    HoldExpiries,       \* expires_at offered to place_legal_hold
    PRUNE_COOLDOWN,     \* PRUNE_COOLDOWN_SECONDS
    LEASE_SIZE,         \* calculate_lease_storage_size
    TOMBSTONE_SIZE,     \* calculate_tombstone_size
    MaxPrunes           \* bound: leases pruned

ASSUME CleanupAssumption ==
    /\ CleanupAdmin \notin Relayers
    /\ HoldExpiries \subseteq Nat \cup {None}
    /\ {PRUNE_COOLDOWN, LEASE_SIZE, TOMBSTONE_SIZE, MaxPrunes} \subseteq Nat

VARIABLES
    lease_tombstone,    \* lease id -> tombstone
    legal_hold,         \* lease id -> hold
    prune_whitelist,    \* relayers that may prune
    storage_metrics

cleanup_vars == <<lease_tombstone, legal_hold, prune_whitelist, storage_metrics>>

LegalHoldType == {"Appeal", "RegulatoryHold", "CourtOrder", "Investigation"}

LegalHold ==
    [hold_type : LegalHoldType, initiated_by : {CleanupAdmin}, initiated_at : Nat,
     expires_at : Nat \cup {None}]

LeaseTombstone ==
    [original_hash : Parties \X Parties \X Nat \X Nat \X Nat \X Statuses,
     terminated_at : Nat, final_status : Statuses, total_deposits : Nat, created_at : Nat,
     pruned_at : Nat, pruned_by : Relayers \cup {CleanupAdmin}, bytes_recovered : Nat]

StorageMetrics ==
    [total_leases_pruned : Nat, total_bytes_recovered : Nat, total_tombstones_created : Nat,
     active_legal_holds : Nat, last_prune_timestamp : Nat, average_lease_size_bytes : Nat]

CleanupInit ==
    /\ lease_tombstone = << >> /\ legal_hold = << >> /\ prune_whitelist = {}
    /\ storage_metrics =
          [total_leases_pruned |-> 0, total_bytes_recovered |-> 0,
           total_tombstones_created |-> 0, active_legal_holds |-> 0,
           last_prune_timestamp |-> 0, average_lease_size_bytes |-> 0]

is_admin(address) == address = CleanupAdmin

verify_prune_authorization(caller) == caller \in prune_whitelist \/ is_admin(caller)

verify_legal_authority(caller) == is_admin(caller)

\* The end date of the terms stands for the termination: a lease that ended early waits
\* for the end it was written with.
verify_prune_cooldown(l) == now >= l.end_date + PRUNE_COOLDOWN

\* Wrong: a hold past its expires_at no longer counts.
verify_no_legal_holds_X(id) ==
    id \in DOMAIN legal_hold =>
       legal_hold[id].expires_at # None /\ legal_hold[id].expires_at < now

\* expires_at is not looked at.
verify_no_legal_holds(id) == id \notin DOMAIN legal_hold

compute_lease_hash(l) ==
    <<l.landlord, l.tenant, l.deposit, l.start_date, l.end_date, l.status>>

create_tombstone(id, caller) ==
    LET l == lease[id]
    IN  [original_hash |-> compute_lease_hash(l), terminated_at |-> l.end_date,
         final_status |-> l.status, total_deposits |-> l.deposit, created_at |-> l.start_date,
         pruned_at |-> now, pruned_by |-> caller, bytes_recovered |-> 0]

bytes_recovered == Max({LEASE_SIZE - TOMBSTONE_SIZE, 0})

update_storage_metrics(m) ==
    LET pruned == m.total_leases_pruned + 1
        bytes == m.total_bytes_recovered + bytes_recovered
    IN  [m EXCEPT !.total_leases_pruned = pruned, !.total_bytes_recovered = bytes,
                  !.total_tombstones_created = @ + 1, !.last_prune_timestamp = now,
                  !.average_lease_size_bytes = bytes \div pruned]

\* Neither the deposit nor an earlier tombstone under the same id is looked at.
prune_finalized_lease(id, caller) ==
    /\ verify_prune_authorization(caller)
    /\ id \in DOMAIN lease
    /\ lease[id].status \in Finalized
    /\ verify_prune_cooldown(lease[id])
    /\ verify_no_legal_holds(id)
    /\ storage_metrics.total_leases_pruned < MaxPrunes
    /\ lease_tombstone' = Store(lease_tombstone, id, create_tombstone(id, caller))
    /\ lease' = [x \in DOMAIN lease \ {id} |-> lease[x]]
    /\ tenant_flag' = [x \in DOMAIN tenant_flag \ {id} |-> tenant_flag[x]]
    /\ storage_metrics' = update_storage_metrics(storage_metrics)
    /\ UNCHANGED <<now, opened, legal_hold, prune_whitelist>>

place_legal_hold(id, hold_type, expires_at, caller) ==
    /\ verify_legal_authority(caller)
    /\ id \in DOMAIN lease
    /\ id \notin DOMAIN legal_hold
    /\ legal_hold' = Store(legal_hold, id,
          [hold_type |-> hold_type, initiated_by |-> caller, initiated_at |-> now,
           expires_at |-> expires_at])
    /\ storage_metrics' = [storage_metrics EXCEPT !.active_legal_holds = @ + 1]
    /\ UNCHANGED <<now, lease_vars, lease_tombstone, prune_whitelist>>

\* The lease itself may be gone by now.
release_legal_hold(id, caller) ==
    /\ verify_legal_authority(caller)
    /\ id \in DOMAIN legal_hold
    /\ legal_hold' = [x \in DOMAIN legal_hold \ {id} |-> legal_hold[x]]
    /\ storage_metrics' =
          [storage_metrics EXCEPT !.active_legal_holds = IF @ = 0 THEN 0 ELSE @ - 1]
    /\ UNCHANGED <<now, lease_vars, lease_tombstone, prune_whitelist>>

add_prune_whitelist(admin, address) ==
    /\ is_admin(admin)
    /\ prune_whitelist' = prune_whitelist \cup {address}
    /\ UNCHANGED <<now, lease_vars, lease_tombstone, legal_hold, storage_metrics>>

remove_prune_whitelist(admin, address) ==
    /\ is_admin(admin)
    /\ prune_whitelist' = prune_whitelist \ {address}
    /\ UNCHANGED <<now, lease_vars, lease_tombstone, legal_hold, storage_metrics>>

CleanupSteps ==
    \E caller \in Relayers \cup {CleanupAdmin} :
       \/ \E id \in LeaseIds :
             \/ prune_finalized_lease(id, caller)
             \/ \E e \in HoldExpiries : place_legal_hold(id, "Appeal", e, caller)
             \/ release_legal_hold(id, caller)
       \/ \E r \in Relayers : add_prune_whitelist(caller, r) \/ remove_prune_whitelist(caller, r)

CleanupNext ==
    \/ Clock /\ UNCHANGED cleanup_vars
    \/ LeaseSteps /\ UNCHANGED cleanup_vars
    \/ CleanupSteps

CleanupTypeOK ==
    /\ \A id \in DOMAIN lease_tombstone : lease_tombstone[id] \in LeaseTombstone
    /\ \A id \in DOMAIN legal_hold : legal_hold[id] \in LegalHold
    /\ prune_whitelist \subseteq Relayers
    /\ storage_metrics \in StorageMetrics

-----------------------------------------------------------------------------
(* Properties. *)

\* A lease under a legal hold is not pruned: the tombstone of its id, if there is one, is
\* older than the hold.  A hold counts until it is released, past its expires_at too, and
\* the metrics count every hold, the ones whose lease the contract has removed included.
HoldsRespected ==
    /\ \A id \in DOMAIN legal_hold \cap DOMAIN lease_tombstone :
          lease_tombstone[id].pruned_at <= legal_hold[id].initiated_at
    /\ storage_metrics.active_legal_holds = Cardinality(DOMAIN legal_hold)
=============================================================================
