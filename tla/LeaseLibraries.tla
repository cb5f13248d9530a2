--------------------------- MODULE LeaseLibraries ---------------------------
(***************************************************************************)
(* The libraries that work on the stored leases, all at once: the access   *)
(* tokens with the doors they open (lessee_access_token.rs,                *)
(* iot_integration.rs), the lessor rights NFTs with their payments         *)
(* (lessor_rights_nft.rs, lease_payment_router.rs) and the pruning of      *)
(* leases (storage_cleanup.rs).  They share the leases and the key         *)
(* TenantFlag; a call of one may come between any two calls of another.    *)
(***************************************************************************)
EXTENDS IoTDevices, LessorRights, StorageCleanup

library_vars == <<lease_vars, access_vars, iot_vars, rights_vars, cleanup_vars>>

LibraryInit == LeaseInit /\ AccessInit /\ IoTInit /\ RightsInit /\ CleanupInit

LibraryNext ==
    \/ IoTNext /\ UNCHANGED <<rights_vars, cleanup_vars>>
    \/ RightsNext /\ UNCHANGED <<access_vars, iot_vars, cleanup_vars>>
    \/ CleanupNext /\ UNCHANGED <<access_vars, iot_vars, rights_vars>>

LibrarySpec == now = StartTime /\ LibraryInit /\ [][LibraryNext]_<<now, library_vars>>
=============================================================================
