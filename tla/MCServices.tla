----------------------------- MODULE MCServices -----------------------------
(***************************************************************************)
(* The services around the leases, one behaviour at a time.  The upgrade   *)
(* timelock, the oracle registry, the collateral monitor, the solvency     *)
(* ledger and the Symbol-keyed leases share no storage, so a behaviour     *)
(* chooses the service it exercises and the others keep their initial      *)
(* state.  The token and cleanup libraries do share the leases and the     *)
(* key TenantFlag: access tokens and lessor rights are each run together   *)
(* with the pruning of the leases, and access tokens once more with the    *)
(* doors they open.                                                        *)
(* Values of the constants for TLC.                                        *)
(***************************************************************************)
EXTENDS TimelockUpgrade, OracleGovernance, CollateralHealth, LeaseLibraries, EscrowLedger,
        SymbolLeases

CONSTANTS
    Ann, Bob,
    DoorLeases      \* bound: leases created in a behaviour of the doors

VARIABLE service    \* the service this behaviour exercises

guard_vars == <<timelock_vars, governance_vars, collateral_vars>>
service_vars == <<now, service, guard_vars, library_vars, escrow_vars, symbol_vars>>

MCInit ==
    /\ now = StartTime
    /\ service \in {"timelock", "governance", "collateral", "access", "doors",
                   "rights", "cleanup", "escrow", "symbols"}
    /\ TimelockInit /\ GovernanceInit /\ CollateralInit
    /\ LibraryInit /\ EscrowInit /\ SymbolInit

\* A step of one of the services that guard the protocol.
GuardStep ==
    /\ UNCHANGED <<library_vars, escrow_vars, symbol_vars>>
    /\ \/ service = "timelock" /\ TimelockNext /\ UNCHANGED <<governance_vars, collateral_vars>>
       \/ service = "governance" /\ GovernanceNext /\ UNCHANGED <<timelock_vars, collateral_vars>>
       \/ service = "collateral" /\ CollateralNext /\ UNCHANGED <<timelock_vars, governance_vars>>

\* The administrator prunes a lease.
Pruning == \E id \in LeaseIds : prune_finalized_lease(id, CleanupAdmin)

\* A step of the leases, of a token library on them, or of the cleanup.
LibraryStep ==
    /\ UNCHANGED <<guard_vars, escrow_vars, symbol_vars>>
    /\ \/ service = "access" /\ AccessNext /\ UNCHANGED <<iot_vars, rights_vars, cleanup_vars>>
       \/ service = "doors" /\ IoTNext /\ opened' <= DoorLeases
          /\ UNCHANGED <<rights_vars, cleanup_vars>>
       \/ service = "rights" /\ RightsNext /\ UNCHANGED <<access_vars, iot_vars, cleanup_vars>>
       \/ service = "cleanup" /\ CleanupNext /\ UNCHANGED <<access_vars, iot_vars, rights_vars>>
       \/ service \in {"access", "rights"} /\ Pruning
          /\ UNCHANGED <<access_vars, iot_vars, rights_vars>>

EscrowStep ==
    service = "escrow" /\ EscrowNext /\ UNCHANGED <<now, guard_vars, library_vars, symbol_vars>>

SymbolStep ==
    service = "symbols" /\ SymbolNext /\ UNCHANGED <<guard_vars, library_vars, escrow_vars>>

MCNext ==
    /\ UNCHANGED service
    /\ GuardStep \/ LibraryStep \/ EscrowStep \/ SymbolStep

MCSpec == MCInit /\ [][MCNext]_service_vars

\* Collateral of one and of two units against a minimum of two, a minimum of none, and an
\* amount whose health factor does not fit the width it is cast to.
MCCollateral ==
    {[lease_id |-> 1, lessee |-> Ann, amount |-> 1, minimum |-> 2],
     [lease_id |-> 1, lessee |-> Ann, amount |-> 2, minimum |-> 2],
     [lease_id |-> 2, lessee |-> Ann, amount |-> 1, minimum |-> 2],
     [lease_id |-> 2, lessee |-> Bob, amount |-> 13, minimum |-> 2],
     [lease_id |-> 2, lessee |-> Bob, amount |-> 0, minimum |-> 0]}

\* A top-up of a negative amount is accepted by the code.
MCTopups == {1, -1}

\* A payment of a negative amount is accepted by the code.
MCSymbolPayments == {2, -1}

\* Releases of a deposit of two that divide it, and one that does not.
MCShares == {<<1, 1>>, <<2, 0>>, <<2, 1>>}

\* Each variable of the services has its type.
ServicesTypeOK ==
    /\ TimelockTypeOK /\ GovernanceTypeOK /\ CollateralTypeOK
    /\ IoTTypeOK /\ RightsTypeOK /\ CleanupTypeOK
    /\ EscrowTypeOK /\ SymbolTypeOK
=============================================================================
