------------------------- MODULE LeaseLibraryProofs -------------------------
(***************************************************************************)
(* Proofs about LeaseLibraries: the properties of the access tokens, the   *)
(* lessor rights NFTs and the pruning hold when the calls of all libraries *)
(* and every change of the leases interleave, for any parties, leases,     *)
(* dates and bounds.                                                       *)
(***************************************************************************)
EXTENDS LeaseLibraries, FiniteSetTheorems, TLAPS

LeaseInv == now \in StartTime..MaxTime /\ LeaseTypeOK

\* The tombstones and the holds are dated, and the holds are counted.
CleanupInv ==
    /\ CleanupTypeOK
    /\ \A id \in DOMAIN lease_tombstone : lease_tombstone[id].pruned_at <= now
    /\ IsFiniteSet(DOMAIN legal_hold)
    /\ HoldsRespected

\* An NFT is named after its lease, is the only one of its lease and is listed for its
\* holder alone.
NFTSound(tid) ==
    LET m == nft_metadata[tid]
    IN  /\ m \in LessorRightsNFTMetadata
        /\ tid[1] = m.lease_id
        /\ m.lease_id \in DOMAIN lease_nft
        /\ \A p \in Parties : tid \in holder_nfts[p] <=> m.current_holder = p

PaidToHolder == {r \in [lease_id : LeaseIds, to : Parties, amount : Int, holder : Parties] :
                    r.to = r.holder}

RightsInv ==
    /\ \A tid \in DOMAIN nft_metadata : NFTSound(tid)
    /\ \A id \in DOMAIN lease_nft :
          lease_nft[id] \in DOMAIN nft_metadata /\ nft_metadata[lease_nft[id]].lease_id = id
    /\ DOMAIN holder_nfts = Parties
    /\ \A p \in Parties : holder_nfts[p] \subseteq DOMAIN nft_metadata
    /\ \A id \in DOMAIN nft_lock : nft_lock[id] \in NFTIndestructibilityLock
    /\ routed \in Seq(PaidToHolder)

\* The same of an access token.
TokenSound(tid) ==
    LET t == access_token[tid]
    IN  /\ t \in LesseeAccessToken
        /\ tid[1] = t.lease_id
        /\ t.lease_id \in DOMAIN lease_access /\ lease_access[t.lease_id] = tid
        /\ \A p \in Parties : tid \in lessee_tokens[p] <=> t.lessee = p

AccessInv ==
    /\ \A tid \in DOMAIN access_token : TokenSound(tid)
    /\ \A id \in DOMAIN lease_access : lease_access[id] \in DOMAIN access_token
    /\ DOMAIN lessee_tokens = Parties
    /\ \A p \in Parties : lessee_tokens[p] \subseteq DOMAIN access_token

DoorInv ==
    /\ device \in IoTDevice \cup {None}
    /\ grant \in [user : Parties, expires_at : Nat] \cup {None}

LibraryInv == LeaseInv /\ CleanupInv /\ RightsInv /\ AccessInv /\ DoorInv

-----------------------------------------------------------------------------
\* The larger of two integers.
LEMMA MaxOfTwo ==
    ASSUME NEW a \in Int, NEW b \in Int
    PROVE  Max({a, b}) = IF a >= b THEN a ELSE b
  <1> DEFINE m == IF a >= b THEN a ELSE b
  <1>1. m \in {a, b} /\ \A y \in {a, b} : m >= y
    OBVIOUS
  <1>2. \A x \in {a, b} : (\A y \in {a, b} : x >= y) => x = m
    OBVIOUS
  <1>3. Max({a, b}) \in {a, b} /\ \A y \in {a, b} : Max({a, b}) >= y
    BY <1>1 DEF Max
  <1> QED BY <1>2, <1>3

LEMMA LibraryInitInv == now = StartTime /\ LibraryInit => LibraryInv
  <1> SUFFICES ASSUME now = StartTime, LibraryInit PROVE LibraryInv
    OBVIOUS
  <1>1. LeaseInv
    BY LedgerAssumption DEF LibraryInit, LeaseInit, LeaseInv, LeaseTypeOK
  <1>2. CleanupInv
    <2>1. IsFiniteSet({}) /\ Cardinality({}) = 0
      BY FS_EmptySet
    <2>2. storage_metrics \in StorageMetrics /\ storage_metrics.active_legal_holds = 0
      BY DEF LibraryInit, CleanupInit, StorageMetrics
    <2>3. DOMAIN legal_hold = {} /\ DOMAIN lease_tombstone = {} /\ prune_whitelist = {}
      BY DEF LibraryInit, CleanupInit
    <2> QED BY <2>1, <2>2, <2>3 DEF CleanupInv, CleanupTypeOK, HoldsRespected
  <1>3. RightsInv
    BY DEF LibraryInit, RightsInit, RightsInv
  <1>4. AccessInv /\ DoorInv
    BY DEF LibraryInit, AccessInit, IoTInit, AccessInv, DoorInv
  <1> QED BY <1>1, <1>2, <1>3, <1>4 DEF LibraryInv

\* A legal hold placed at time now is not older than any tombstone, and counts one more.
LEMMA HoldPlaced ==
    ASSUME LeaseInv, CleanupInv, NEW id \in LeaseIds, NEW e \in HoldExpiries, NEW u,
           place_legal_hold(id, "Appeal", e, u)
    PROVE  CleanupInv'
  <1> DEFINE h == [hold_type |-> "Appeal", initiated_by |-> u, initiated_at |-> now,
                   expires_at |-> e]
  <1>1. /\ u = CleanupAdmin /\ id \notin DOMAIN legal_hold
        /\ legal_hold' = Store(legal_hold, id, h)
        /\ storage_metrics' = [storage_metrics EXCEPT !.active_legal_holds = @ + 1]
        /\ UNCHANGED <<now, lease_tombstone, prune_whitelist>>
    BY DEF place_legal_hold, verify_legal_authority, is_admin
  <1>2. now \in Nat /\ storage_metrics \in StorageMetrics
    BY LedgerAssumption DEF LeaseInv, CleanupInv, CleanupTypeOK
  <1>3. h \in LegalHold /\ h.initiated_at = now
    <2>1. e \in Nat \cup {None}
      BY CleanupAssumption
    <2> QED BY <1>1, <1>2, <2>1 DEF LegalHold, LegalHoldType
  <1>4. /\ storage_metrics' \in StorageMetrics
        /\ storage_metrics'.active_legal_holds = storage_metrics.active_legal_holds + 1
    <2>1. storage_metrics.active_legal_holds + 1 \in Nat
      BY <1>2 DEF StorageMetrics
    <2> QED BY <1>1, <1>2, <2>1 DEF StorageMetrics
  <1> HIDE DEF h
  <1>5. /\ DOMAIN legal_hold' = DOMAIN legal_hold \cup {id} /\ legal_hold'[id] = h
        /\ \A x \in DOMAIN legal_hold : legal_hold'[x] = legal_hold[x]
    BY <1>1 DEF Store
  <1>6. /\ IsFiniteSet(DOMAIN legal_hold')
        /\ Cardinality(DOMAIN legal_hold') = Cardinality(DOMAIN legal_hold) + 1
    BY <1>1, <1>5, FS_AddElement DEF CleanupInv
  <1>7. CleanupTypeOK'
    BY <1>1, <1>3, <1>4, <1>5 DEF CleanupInv, CleanupTypeOK
  <1>8. \A x \in DOMAIN legal_hold' \cap DOMAIN lease_tombstone' :
            lease_tombstone'[x].pruned_at <= legal_hold'[x].initiated_at
    BY <1>1, <1>3, <1>5 DEF CleanupInv, HoldsRespected
  <1>9. HoldsRespected'
    BY <1>4, <1>6, <1>8 DEF CleanupInv, HoldsRespected
  <1> QED BY <1>1, <1>6, <1>7, <1>9 DEF CleanupInv

LEMMA HoldReleased ==
    ASSUME LeaseInv, CleanupInv, NEW id \in LeaseIds, NEW u, release_legal_hold(id, u)
    PROVE  CleanupInv'
  <1> DEFINE c == storage_metrics.active_legal_holds
             n == IF c = 0 THEN 0 ELSE c - 1
  <1>1. /\ id \in DOMAIN legal_hold
        /\ legal_hold' = [x \in DOMAIN legal_hold \ {id} |-> legal_hold[x]]
        /\ storage_metrics' = [storage_metrics EXCEPT !.active_legal_holds = n]
        /\ UNCHANGED <<now, lease_tombstone, prune_whitelist>>
    BY DEF release_legal_hold
  <1>2. storage_metrics \in StorageMetrics /\ c \in Nat /\ c = Cardinality(DOMAIN legal_hold)
        /\ IsFiniteSet(DOMAIN legal_hold)
    BY DEF CleanupInv, CleanupTypeOK, HoldsRespected, StorageMetrics
  <1>3. /\ DOMAIN legal_hold' = DOMAIN legal_hold \ {id}
        /\ \A x \in DOMAIN legal_hold' : legal_hold'[x] = legal_hold[x]
    BY <1>1
  <1>4. /\ IsFiniteSet(DOMAIN legal_hold')
        /\ Cardinality(DOMAIN legal_hold') = Cardinality(DOMAIN legal_hold) - 1
    BY <1>1, <1>2, <1>3, FS_RemoveElement
  <1>5. c # 0 /\ n = Cardinality(DOMAIN legal_hold') /\ n \in Nat
    <2>1. Cardinality(DOMAIN legal_hold') \in Nat
      BY <1>4, FS_CardinalityType
    <2> QED BY <1>2, <1>4, <2>1
  <1> HIDE DEF n
  <1>6. storage_metrics' \in StorageMetrics /\ storage_metrics'.active_legal_holds = n
    BY <1>1, <1>2, <1>5 DEF StorageMetrics
  <1>7. CleanupTypeOK'
    BY <1>1, <1>3, <1>6 DEF CleanupInv, CleanupTypeOK
  <1>8. HoldsRespected'
    BY <1>1, <1>3, <1>5, <1>6 DEF CleanupInv, HoldsRespected
  <1> QED BY <1>1, <1>4, <1>7, <1>8 DEF CleanupInv

-----------------------------------------------------------------------------
(* The leases and the clock. *)

\* A step either leaves the clock alone or lets it advance within its bound.
LEMMA TimeAdvances ==
    ASSUME LeaseInv, LibraryNext
    PROVE  now' \in StartTime..MaxTime /\ now <= now'
  <1> USE LedgerAssumption DEF LeaseInv
  <1>1. CASE Tick
    BY <1>1 DEF Tick
  <1>2. CASE UNCHANGED now
    BY <1>2
  <1>3. Tick \/ UNCHANGED now
    <2>1. CASE IoTNext
      BY <2>1 DEF IoTNext, AccessNext, Clock, LeaseSteps, mint_lessee_access_token,
         revoke_access_token, handle_lease_state_change, renew_access_token,
         verify_access_token, transfer_access_token, query_token_validity,
         register_device, process_access_request, update_device_status
    <2>2. CASE RightsNext
      BY <2>2 DEF RightsNext, Clock, LeaseSteps, mint_lessor_rights_token, update_nft_lock,
         release_nft_lock, refund_deposit_to_nft_holder,
         mutual_release_with_nft_verification, transfer_nft
    <2>3. CASE CleanupNext
      BY <2>3 DEF CleanupNext, CleanupSteps, Clock, LeaseSteps, prune_finalized_lease,
         place_legal_hold, release_legal_hold, add_prune_whitelist, remove_prune_whitelist
    <2> QED BY <2>1, <2>2, <2>3 DEF LibraryNext
  <1> QED BY <1>1, <1>2, <1>3

\* The leases stay well formed when one of them is replaced by a lease, or removed.
LEMMA LeaseReplaced ==
    ASSUME LeaseTypeOK, NEW id \in LeaseIds, NEW l \in StoredLease,
           DOMAIN lease' = DOMAIN lease \cup {id}, lease'[id] = l,
           \A x \in DOMAIN lease : x # id => lease'[x] = lease[x],
           DOMAIN tenant_flag' \subseteq LeaseIds, opened' \in Nat
    PROVE  LeaseTypeOK'
  BY DEF LeaseTypeOK

LEMMA LeaseRemoved ==
    ASSUME LeaseTypeOK, NEW id,
           lease' = [x \in DOMAIN lease \ {id} |-> lease[x]],
           DOMAIN tenant_flag' \subseteq LeaseIds, opened' \in Nat
    PROVE  LeaseTypeOK'
  BY DEF LeaseTypeOK

\* Every change of the contract to its leases keeps them well formed.
LEMMA LeaseStepsTyped ==
    ASSUME LeaseInv, LeaseSteps
    PROVE  LeaseTypeOK'
  <1> USE LedgerAssumption, LeaseStoreAssumption
  <1>1. PICK id \in LeaseIds :
          \/ \E l, t \in Parties, end \in Terms : l # t /\ lease_opened(id, l, t, end)
          \/ \E s \in {"Disputed", "Terminated", "Expired"} : lease_moved(id, s)
          \/ lease_removed(id)
          \/ tenant_flagged(id)
    BY DEF LeaseSteps
  <1>2. now \in Nat /\ opened \in Nat /\ LeaseTypeOK /\ DOMAIN tenant_flag \subseteq LeaseIds
    BY DEF LeaseInv, LeaseTypeOK
  <1>3. CASE \E l, t \in Parties, end \in Terms : l # t /\ lease_opened(id, l, t, end)
    <2>1. PICK l \in Parties, t \in Parties, end \in Terms : lease_opened(id, l, t, end)
      BY <1>3
    <2> DEFINE v == [landlord |-> l, tenant |-> t, status |-> "Active",
                     deposit_status |-> "Held", deposit |-> 2, start_date |-> now,
                     end_date |-> end, token_id |-> None]
    <2>2. v \in StoredLease
      BY <1>2 DEF StoredLease, Statuses
    <2>3. lease' = Store(lease, id, v) /\ tenant_flag' = tenant_flag /\ opened' = opened + 1
      BY <2>1 DEF lease_opened
    <2> HIDE DEF v
    <2>4. /\ DOMAIN lease' = DOMAIN lease \cup {id} /\ lease'[id] = v
          /\ \A x \in DOMAIN lease : x # id => lease'[x] = lease[x]
      BY <2>3 DEF Store
    <2> QED BY <1>2, <2>2, <2>3, <2>4, LeaseReplaced
  <1>4. CASE \E s \in {"Disputed", "Terminated", "Expired"} : lease_moved(id, s)
    <2>1. PICK s \in {"Disputed", "Terminated", "Expired"} : lease_moved(id, s)
      BY <1>4
    <2> DEFINE v == [lease[id] EXCEPT !.status = s]
    <2>2. id \in DOMAIN lease /\ lease' = [lease EXCEPT ![id] = v]
          /\ tenant_flag' = tenant_flag /\ opened' = opened
      BY <2>1 DEF lease_moved
    <2>3. v \in StoredLease
      BY <1>2, <2>2 DEF LeaseTypeOK, StoredLease, Statuses
    <2> HIDE DEF v
    <2>4. /\ DOMAIN lease' = DOMAIN lease \cup {id} /\ lease'[id] = v
          /\ \A x \in DOMAIN lease : x # id => lease'[x] = lease[x]
      BY <2>2
    <2> QED BY <1>2, <2>2, <2>3, <2>4, LeaseReplaced
  <1>5. CASE lease_removed(id)
    BY <1>2, <1>5, LeaseRemoved DEF lease_removed
  <1>6. CASE tenant_flagged(id)
    <2>1. lease' = lease /\ opened' = opened /\ tenant_flag' = Store(tenant_flag, id, Flag(0))
      BY <1>6 DEF tenant_flagged
    <2>2. DOMAIN tenant_flag' \subseteq LeaseIds
      BY <1>2, <2>1 DEF Store
    <2> QED BY <1>2, <2>1, <2>2 DEF LeaseTypeOK
  <1> QED BY <1>1, <1>3, <1>4, <1>5, <1>6

\* So does every step of the libraries.
LEMMA LeasesKept ==
    ASSUME LeaseInv, LibraryNext
    PROVE  LeaseInv'
  <1> USE LedgerAssumption, LeaseStoreAssumption
  <1>1. now \in Nat /\ opened \in Nat /\ LeaseTypeOK /\ DOMAIN tenant_flag \subseteq LeaseIds
    BY DEF LeaseInv, LeaseTypeOK
  <1>2. CASE UNCHANGED lease_vars
    BY <1>1, <1>2, TimeAdvances DEF LeaseInv, LeaseTypeOK, lease_vars
  <1>3. CASE LeaseSteps
    BY <1>3, LeaseStepsTyped, TimeAdvances DEF LeaseInv
  <1>4. ASSUME NEW id \in LeaseIds, id \in DOMAIN lease,
               lease' = [lease EXCEPT ![id].token_id = <<id, now>>],
               UNCHANGED <<tenant_flag, opened>>
        PROVE  LeaseTypeOK'
    <2> DEFINE v == [lease[id] EXCEPT !.token_id = <<id, now>>]
    <2>1. v \in StoredLease
      <3>1. <<id, now>> \in Nat \X Nat
        BY <1>1
      <3> QED BY <1>1, <1>4, <3>1 DEF LeaseTypeOK, StoredLease
    <2>2. lease' = [lease EXCEPT ![id] = v]
      BY <1>4
    <2> HIDE DEF v
    <2>3. /\ DOMAIN lease' = DOMAIN lease \cup {id} /\ lease'[id] = v
          /\ \A x \in DOMAIN lease : x # id => lease'[x] = lease[x]
      BY <1>4, <2>2
    <2> QED BY <1>1, <1>4, <2>1, <2>3, LeaseReplaced
  <1>5. ASSUME NEW id \in LeaseIds, NEW b, mint_lessee_access_token(id, b)
        PROVE  LeaseTypeOK'
    BY <1>4, <1>5 DEF mint_lessee_access_token, generate_access_token_id
  <1>6. ASSUME NEW id \in LeaseIds, NEW p, mint_lessor_rights_token(id, p)
        PROVE  LeaseTypeOK'
    BY <1>4, <1>6 DEF mint_lessor_rights_token, generate_nft_id
  <1>7. ASSUME NEW id \in LeaseIds, NEW r, revoke_access_token(id, r)
        PROVE  LeaseTypeOK'
    <2> DEFINE n == Counter(revocation_index(id) + 1)
    <2>1. tenant_flag' = Store(tenant_flag, id, n) /\ UNCHANGED <<lease, opened>>
      BY <1>7 DEF revoke_access_token
    <2> HIDE DEF n
    <2>2. DOMAIN tenant_flag' \subseteq LeaseIds
      BY <1>1, <2>1 DEF Store
    <2> QED BY <1>1, <2>1, <2>2 DEF LeaseTypeOK
  <1>8. ASSUME NEW id \in LeaseIds, NEW t, NEW h, NEW a, NEW b,
               mutual_release_with_nft_verification(id, t, h, a, b)
        PROVE  LeaseTypeOK'
    <2> DEFINE v == [lease[id] EXCEPT !.status = "Terminated", !.deposit_status = "Settled"]
    <2>1. id \in DOMAIN lease /\ lease' = [lease EXCEPT ![id] = v]
          /\ UNCHANGED <<tenant_flag, opened>>
      BY <1>8 DEF mutual_release_with_nft_verification
    <2>2. v \in StoredLease
      BY <1>1, <2>1 DEF LeaseTypeOK, StoredLease, Statuses
    <2> HIDE DEF v
    <2>3. /\ DOMAIN lease' = DOMAIN lease \cup {id} /\ lease'[id] = v
          /\ \A x \in DOMAIN lease : x # id => lease'[x] = lease[x]
      BY <2>1
    <2> QED BY <1>1, <2>1, <2>2, <2>3, LeaseReplaced
  <1>9. ASSUME NEW id \in LeaseIds, NEW u, prune_finalized_lease(id, u)
        PROVE  LeaseTypeOK'
    <2>1. /\ lease' = [x \in DOMAIN lease \ {id} |-> lease[x]] /\ opened' = opened
          /\ tenant_flag' = [x \in DOMAIN tenant_flag \ {id} |-> tenant_flag[x]]
      BY <1>9 DEF prune_finalized_lease
    <2> QED BY <1>1, <2>1, LeaseRemoved
  <1>10. \/ UNCHANGED lease_vars \/ LeaseSteps
         \/ LeaseTypeOK'
    <2>1. CASE IoTNext
      BY <2>1, <1>5, <1>7 DEF IoTNext, AccessNext, Clock, lease_vars,
         handle_lease_state_change, renew_access_token,
         verify_access_token, transfer_access_token, query_token_validity,
         register_device, process_access_request, update_device_status
    <2>2. CASE RightsNext
      BY <2>2, <1>6, <1>8 DEF RightsNext, Clock, lease_vars, update_nft_lock,
         release_nft_lock, refund_deposit_to_nft_holder, transfer_nft
    <2>3. CASE CleanupNext
      BY <2>3, <1>9 DEF CleanupNext, CleanupSteps, Clock, lease_vars,
         place_legal_hold, release_legal_hold, add_prune_whitelist, remove_prune_whitelist
    <2> QED BY <2>1, <2>2, <2>3 DEF LibraryNext
  <1> QED BY <1>2, <1>3, <1>10, TimeAdvances DEF LeaseInv

-----------------------------------------------------------------------------
(* The pruning of the leases. *)

\* Nothing is newer than the clock: what was dated before stays so when time passes.
LEMMA CleanupUntouched ==
    ASSUME LeaseInv, LeaseInv', CleanupInv, UNCHANGED cleanup_vars, now <= now'
    PROVE  CleanupInv'
  <1>1. now \in Nat /\ now' \in Nat
    BY LedgerAssumption DEF LeaseInv
  <1>2. \A id \in DOMAIN lease_tombstone : lease_tombstone[id].pruned_at \in Nat
    BY DEF CleanupInv, CleanupTypeOK, LeaseTombstone
  <1>3. \A id \in DOMAIN lease_tombstone' : lease_tombstone'[id].pruned_at <= now'
    BY <1>1, <1>2 DEF CleanupInv, cleanup_vars
  <1> QED BY <1>3 DEF CleanupInv, CleanupTypeOK, HoldsRespected, cleanup_vars

\* A lease is pruned only without a hold on its id: the tombstone written now can be
\* newer than no hold.
LEMMA LeasePruned ==
    ASSUME LeaseInv, CleanupInv, NEW id \in LeaseIds, NEW u \in Relayers \cup {CleanupAdmin},
           prune_finalized_lease(id, u)
    PROVE  CleanupInv'
  <1> DEFINE t == create_tombstone(id, u)
             m == storage_metrics
  <1>1. /\ id \in DOMAIN lease /\ id \notin DOMAIN legal_hold
        /\ lease_tombstone' = Store(lease_tombstone, id, t)
        /\ storage_metrics' = update_storage_metrics(m)
        /\ UNCHANGED <<now, legal_hold, prune_whitelist>>
    BY DEF prune_finalized_lease, verify_no_legal_holds
  <1>2. now \in Nat /\ m \in StorageMetrics /\ lease[id] \in StoredLease
    BY <1>1, LedgerAssumption DEF LeaseInv, LeaseTypeOK, CleanupInv, CleanupTypeOK
  <1>3. t \in LeaseTombstone /\ t.pruned_at = now
    <2> DEFINE l == lease[id]
    <2>1. /\ l.landlord \in Parties /\ l.tenant \in Parties /\ l.status \in Statuses
          /\ l.deposit \in Nat /\ l.start_date \in Nat /\ l.end_date \in Nat
      BY <1>2 DEF StoredLease
    <2> HIDE DEF l
    <2>2. compute_lease_hash(l) \in Parties \X Parties \X Nat \X Nat \X Nat \X Statuses
      BY <2>1 DEF compute_lease_hash
    <2>3. t = [original_hash |-> compute_lease_hash(l), terminated_at |-> l.end_date,
               final_status |-> l.status, total_deposits |-> l.deposit,
               created_at |-> l.start_date, pruned_at |-> now, pruned_by |-> u,
               bytes_recovered |-> 0]
      BY DEF create_tombstone, l
    <2> QED BY <1>2, <2>1, <2>2, <2>3 DEF LeaseTombstone
  <1>4. /\ storage_metrics' \in StorageMetrics
        /\ storage_metrics'.active_legal_holds = m.active_legal_holds
    <2> DEFINE pruned == m.total_leases_pruned + 1
               bytes == m.total_bytes_recovered + bytes_recovered
               made == m.total_tombstones_created + 1
               avg == bytes \div pruned
    <2>1. bytes_recovered \in Nat
      BY CleanupAssumption, MaxOfTwo DEF bytes_recovered
    <2>2. pruned \in Nat \ {0} /\ bytes \in Nat /\ made \in Nat
      BY <1>2, <2>1 DEF StorageMetrics
    <2>3. avg \in Nat
      <3> HIDE DEF pruned, bytes
      <3> QED BY <2>2
    <2>4. storage_metrics' =
            [m EXCEPT !.total_leases_pruned = pruned, !.total_bytes_recovered = bytes,
                      !.total_tombstones_created = made, !.last_prune_timestamp = now,
                      !.average_lease_size_bytes = avg]
      BY <1>1 DEF update_storage_metrics
    <2> HIDE DEF pruned, bytes, made, avg
    <2> QED BY <1>2, <2>2, <2>3, <2>4 DEF StorageMetrics
  <1> HIDE DEF t
  <1>5. /\ DOMAIN lease_tombstone' = DOMAIN lease_tombstone \cup {id}
        /\ lease_tombstone'[id] = t
        /\ \A x \in DOMAIN lease_tombstone : x # id => lease_tombstone'[x] = lease_tombstone[x]
    BY <1>1 DEF Store
  <1>6. CleanupTypeOK'
    BY <1>1, <1>3, <1>4, <1>5 DEF CleanupInv, CleanupTypeOK
  <1>7. \A x \in DOMAIN lease_tombstone' : lease_tombstone'[x].pruned_at <= now'
    BY <1>1, <1>2, <1>3, <1>5 DEF CleanupInv
  <1>8. HoldsRespected'
    BY <1>1, <1>4, <1>5 DEF CleanupInv, HoldsRespected
  <1> QED BY <1>1, <1>6, <1>7, <1>8 DEF CleanupInv

LEMMA CleanupKept ==
    ASSUME LeaseInv, CleanupInv, LibraryNext
    PROVE  CleanupInv'
  <1>1. LeaseInv' /\ now <= now'
    BY LeasesKept, TimeAdvances
  <1>2. CASE UNCHANGED cleanup_vars
    BY <1>1, <1>2, CleanupUntouched
  <1>3. CASE CleanupSteps
    <2>1. PICK u \in Relayers \cup {CleanupAdmin} :
            \/ \E id \in LeaseIds :
                  \/ prune_finalized_lease(id, u)
                  \/ \E e \in HoldExpiries : place_legal_hold(id, "Appeal", e, u)
                  \/ release_legal_hold(id, u)
            \/ \E r \in Relayers : add_prune_whitelist(u, r) \/ remove_prune_whitelist(u, r)
      BY <1>3 DEF CleanupSteps
    <2>2. ASSUME NEW r \in Relayers, add_prune_whitelist(u, r) \/ remove_prune_whitelist(u, r)
          PROVE  CleanupInv'
      BY <2>2 DEF add_prune_whitelist, remove_prune_whitelist, CleanupInv, CleanupTypeOK,
         HoldsRespected
    <2> QED BY <2>1, <2>2, LeasePruned, HoldPlaced, HoldReleased
  <1> QED BY <1>2, <1>3 DEF LibraryNext, CleanupNext

-----------------------------------------------------------------------------
(* The lessor rights NFTs. *)

\* Writing one NFT, new or not, and listing it for its holder alone keeps the NFTs sound.
LEMMA NFTWritten ==
    ASSUME RightsInv, NEW tid, NEW m \in LessorRightsNFTMetadata, tid[1] = m.lease_id,
           DOMAIN nft_metadata' = DOMAIN nft_metadata \cup {tid}, nft_metadata'[tid] = m,
           \A x \in DOMAIN nft_metadata : x # tid => nft_metadata'[x] = nft_metadata[x],
           DOMAIN holder_nfts' = Parties,
           \A p \in Parties : \A x :
              x \in holder_nfts'[p] <=> IF x = tid THEN p = m.current_holder
                                                   ELSE x \in holder_nfts[p],
           DOMAIN lease_nft \subseteq DOMAIN lease_nft', m.lease_id \in DOMAIN lease_nft',
           \A id \in DOMAIN lease_nft' : lease_nft'[id] \in DOMAIN nft_metadata'
                                          /\ nft_metadata'[lease_nft'[id]].lease_id = id,
           \A id \in DOMAIN nft_lock' : nft_lock'[id] \in NFTIndestructibilityLock,
           routed' = routed
    PROVE  RightsInv'
  <1>1. ASSUME NEW x \in DOMAIN nft_metadata' PROVE NFTSound(x)'
    <2>1. CASE x = tid
      BY <2>1 DEF NFTSound
    <2>2. CASE x # tid
      <3>1. x \in DOMAIN nft_metadata /\ nft_metadata'[x] = nft_metadata[x] /\ NFTSound(x)
        BY <1>1, <2>2 DEF RightsInv
      <3> QED BY <2>2, <3>1 DEF NFTSound
    <2> QED BY <2>1, <2>2
  <1>2. \A p \in Parties : holder_nfts'[p] \subseteq DOMAIN nft_metadata'
    BY DEF RightsInv
  <1>3. routed' \in Seq(PaidToHolder)
    BY DEF RightsInv
  <1> QED BY <1>1, <1>2, <1>3 DEF RightsInv

\* An NFT is minted once per lease, so its identifier is new.
LEMMA NFTMinted ==
    ASSUME LeaseInv, RightsInv, NEW id \in LeaseIds, NEW p \in Parties,
           mint_lessor_rights_token(id, p)
    PROVE  RightsInv'
  <1> DEFINE tid == <<id, now>>
             m == create_nft_metadata(id, p)
             k == [lock_reason |-> "LeaseActive", locked_at |-> now, expires_at |-> None]
  <1>1. /\ id \in DOMAIN lease /\ id \notin DOMAIN lease_nft
        /\ nft_metadata' = Store(nft_metadata, tid, m)
        /\ lease_nft' = Store(lease_nft, id, tid)
        /\ holder_nfts' = [holder_nfts EXCEPT ![p] = @ \cup {tid}]
        /\ nft_lock' = Store(nft_lock, id, k)
        /\ routed' = routed
    BY DEF mint_lessor_rights_token, generate_nft_id
  <1>2. now \in Nat /\ lease[id] \in StoredLease
    BY <1>1, LedgerAssumption DEF LeaseInv, LeaseTypeOK
  <1>3. m \in LessorRightsNFTMetadata /\ m.lease_id = id /\ m.current_holder = p
    <2>1. lease[id].end_date \in Nat /\ lease[id].deposit \in Nat /\ lease[id].start_date \in Nat
      BY <1>2 DEF StoredLease
    <2> QED BY <1>2, <2>1 DEF create_nft_metadata, LessorRightsNFTMetadata
  <1>4. k \in NFTIndestructibilityLock
    BY <1>2 DEF NFTIndestructibilityLock, LockReason
  <1>5. tid[1] = id
    OBVIOUS
  <1> HIDE DEF tid, m, k
  <1>6. tid \notin DOMAIN nft_metadata
    BY <1>1, <1>5 DEF RightsInv, NFTSound
  <1>7. \A q \in Parties : tid \notin holder_nfts[q]
    BY <1>6 DEF RightsInv
  <1>8. /\ DOMAIN nft_metadata' = DOMAIN nft_metadata \cup {tid} /\ nft_metadata'[tid] = m
        /\ \A x \in DOMAIN nft_metadata : x # tid => nft_metadata'[x] = nft_metadata[x]
    BY <1>1 DEF Store
  <1>9. /\ DOMAIN lease_nft' = DOMAIN lease_nft \cup {id} /\ lease_nft'[id] = tid
        /\ \A x \in DOMAIN lease_nft : x # id => lease_nft'[x] = lease_nft[x]
    BY <1>1 DEF Store
  <1>10. /\ DOMAIN holder_nfts' = Parties
         /\ \A q \in Parties : holder_nfts'[q] = IF q = p THEN holder_nfts[q] \cup {tid}
                                                          ELSE holder_nfts[q]
    BY <1>1 DEF RightsInv
  <1>11. \A q \in Parties : \A x :
            x \in holder_nfts'[q] <=> IF x = tid THEN q = m.current_holder
                                                 ELSE x \in holder_nfts[q]
    BY <1>3, <1>7, <1>10
  <1>12. \A x \in DOMAIN nft_lock' : nft_lock'[x] \in NFTIndestructibilityLock
    BY <1>1, <1>4 DEF Store, RightsInv
  <1>13. \A x \in DOMAIN lease_nft' : lease_nft'[x] \in DOMAIN nft_metadata'
                                        /\ nft_metadata'[lease_nft'[x]].lease_id = x
    BY <1>1, <1>3, <1>6, <1>8, <1>9 DEF RightsInv
  <1> QED
    BY <1>1, <1>3, <1>5, <1>8, <1>9, <1>10, <1>11, <1>12, <1>13, NFTWritten

\* A transfer takes the NFT from the list of the holder and puts it in that of the buyer,
\* who may be the holder.
LEMMA NFTTransferred ==
    ASSUME LeaseInv, RightsInv, NEW tid \in DOMAIN nft_metadata, NEW from \in Parties,
           NEW to \in Parties, transfer_nft(tid, from, to)
    PROVE  RightsInv'
  <1> DEFINE m == with_new_holder(nft_metadata[tid], to)
  <1>1. /\ nft_metadata[tid].current_holder = from
        /\ nft_metadata' = [nft_metadata EXCEPT ![tid] = m]
        /\ holder_nfts' = [[holder_nfts EXCEPT ![from] = @ \ {tid}] EXCEPT ![to] = @ \cup {tid}]
        /\ UNCHANGED <<lease_nft, nft_lock, routed>>
    BY DEF transfer_nft, update_holder_mappings
  <1>2. now \in Nat /\ NFTSound(tid)
    BY LedgerAssumption DEF LeaseInv, RightsInv
  <1>3. m \in LessorRightsNFTMetadata /\ m.current_holder = to
        /\ m.lease_id = nft_metadata[tid].lease_id
    <2> DEFINE n == nft_metadata[tid].transfer_count + 1
    <2>1. n \in Nat /\ nft_metadata[tid] \in LessorRightsNFTMetadata
      BY <1>2 DEF NFTSound, LessorRightsNFTMetadata
    <2>2. m = [nft_metadata[tid] EXCEPT !.current_holder = to, !.last_transfer = now,
                  !.transfer_count = n, !.billing_cycle_start = now]
      BY DEF with_new_holder
    <2> HIDE DEF n
    <2> QED BY <1>2, <2>1, <2>2 DEF LessorRightsNFTMetadata
  <1> HIDE DEF m
  <1>4. /\ DOMAIN nft_metadata' = DOMAIN nft_metadata \cup {tid} /\ nft_metadata'[tid] = m
        /\ \A x \in DOMAIN nft_metadata : x # tid => nft_metadata'[x] = nft_metadata[x]
    BY <1>1
  <1>5. /\ DOMAIN holder_nfts' = Parties
        /\ \A q \in Parties : holder_nfts'[q] =
              IF q = to THEN holder_nfts[q] \cup {tid}
                        ELSE IF q = from THEN holder_nfts[q] \ {tid} ELSE holder_nfts[q]
    <2> DEFINE hn == [holder_nfts EXCEPT ![from] = @ \ {tid}]
    <2>1. DOMAIN hn = Parties /\ \A q \in Parties :
            hn[q] = IF q = from THEN holder_nfts[q] \ {tid} ELSE holder_nfts[q]
      BY DEF RightsInv
    <2>2. holder_nfts' = [hn EXCEPT ![to] = hn[to] \cup {tid}]
      BY <1>1
    <2> HIDE DEF hn
    <2>3. holder_nfts'[to] = hn[to] \cup {tid} /\ DOMAIN holder_nfts' = Parties
          /\ \A q \in Parties : q # to => holder_nfts'[q] = hn[q]
      BY <2>1, <2>2
    <2>4. CASE from = to
      <3>1. tid \in holder_nfts[from]
        BY <1>1, <1>2 DEF NFTSound
      <3> QED BY <2>1, <2>3, <2>4, <3>1
    <2>5. CASE from # to
      BY <2>1, <2>3, <2>5
    <2> QED BY <2>4, <2>5
  <1>6. \A q \in Parties : tid \in holder_nfts[q] <=> q = from
    BY <1>1, <1>2 DEF NFTSound
  <1>7. \A q \in Parties : \A x :
            x \in holder_nfts'[q] <=> IF x = tid THEN q = m.current_holder
                                                 ELSE x \in holder_nfts[q]
    BY <1>3, <1>5, <1>6
  <1>8. tid[1] = m.lease_id /\ m.lease_id \in DOMAIN lease_nft
    BY <1>2, <1>3 DEF NFTSound
  <1>9. \A x \in DOMAIN lease_nft' : lease_nft'[x] \in DOMAIN nft_metadata'
                                       /\ nft_metadata'[lease_nft'[x]].lease_id = x
    BY <1>1, <1>3, <1>4 DEF RightsInv
  <1>10. \A x \in DOMAIN nft_lock' : nft_lock'[x] \in NFTIndestructibilityLock
    BY <1>1 DEF RightsInv
  <1> QED
    BY <1>1, <1>3, <1>4, <1>5, <1>7, <1>8, <1>9, <1>10, NFTWritten

\* A payment goes to whoever holds the NFT at that moment.
LEMMA PaymentToHolder ==
    ASSUME RightsInv, NEW id \in LeaseIds, id \in DOMAIN lease_nft, NEW a \in Int
    PROVE  PaymentRouted(id, payee(id), a) \in PaidToHolder
  <1> DEFINE tid == lease_nft[id]
  <1>1. nft_metadata[tid] \in LessorRightsNFTMetadata
    BY DEF RightsInv, NFTSound
  <1>2. nft_metadata[tid].current_holder \in Parties
    BY <1>1 DEF LessorRightsNFTMetadata
  <1> QED BY <1>2 DEF PaymentRouted, payee, get_current_holder, PaidToHolder

\* Locks and payments change neither an NFT nor a list.
LEMMA RightsBooked ==
    ASSUME RightsInv, UNCHANGED <<nft_metadata, lease_nft, holder_nfts>>,
           \A id \in DOMAIN nft_lock' : nft_lock'[id] \in NFTIndestructibilityLock,
           routed' \in Seq(PaidToHolder)
    PROVE  RightsInv'
  BY DEF RightsInv, NFTSound

LEMMA RightsKept ==
    ASSUME LeaseInv, RightsInv, LibraryNext
    PROVE  RightsInv'
  <1> USE RightsAssumption, LedgerAssumption
  <1>1. /\ now \in Nat /\ routed \in Seq(PaidToHolder)
        /\ \A id \in DOMAIN nft_lock : nft_lock[id] \in NFTIndestructibilityLock
    BY DEF LeaseInv, RightsInv
  <1>2. CASE UNCHANGED rights_vars
    BY <1>1, <1>2, RightsBooked DEF rights_vars
  <1>3. ASSUME NEW id \in LeaseIds, NEW e \in LockExpiries, update_nft_lock(id, "LeaseDisputed", e)
        PROVE  RightsInv'
    <2> DEFINE k == [lock_reason |-> "LeaseDisputed", locked_at |-> now, expires_at |-> e]
    <2>1. nft_lock' = Store(nft_lock, id, k)
          /\ UNCHANGED <<nft_metadata, lease_nft, holder_nfts, routed>>
      BY <1>3 DEF update_nft_lock
    <2>2. k \in NFTIndestructibilityLock
      BY <1>1 DEF NFTIndestructibilityLock, LockReason
    <2> HIDE DEF k
    <2>3. \A x \in DOMAIN nft_lock' : nft_lock'[x] \in NFTIndestructibilityLock
      BY <1>1, <2>1, <2>2 DEF Store
    <2> QED BY <1>1, <2>1, <2>3, RightsBooked
  <1>4. ASSUME NEW id \in LeaseIds, release_nft_lock(id)
        PROVE  RightsInv'
    <2>1. \A x \in DOMAIN nft_lock' : nft_lock'[x] \in NFTIndestructibilityLock
      BY <1>1, <1>4 DEF release_nft_lock, without_lock
    <2> QED BY <1>1, <1>4, <2>1, RightsBooked DEF release_nft_lock
  <1>5. ASSUME NEW id \in LeaseIds, refund_deposit_to_nft_holder(id, 1)
        PROVE  RightsInv'
    <2> DEFINE r == PaymentRouted(id, payee(id), 1)
    <2>1. /\ id \in DOMAIN lease_nft /\ routed' = Append(routed, r)
          /\ UNCHANGED <<nft_metadata, lease_nft, holder_nfts, nft_lock>>
      BY <1>5 DEF refund_deposit_to_nft_holder
    <2>2. r \in PaidToHolder
      BY <2>1, PaymentToHolder
    <2> HIDE DEF r
    <2>3. routed' \in Seq(PaidToHolder)
      BY <1>1, <2>1, <2>2
    <2> QED BY <1>1, <2>1, <2>3, RightsBooked
  <1>6. ASSUME NEW id \in LeaseIds, NEW t, NEW h, NEW s \in Shares,
               mutual_release_with_nft_verification(id, t, h, s[1], s[2])
        PROVE  RightsInv'
    <2> DEFINE r == PaymentRouted(id, payee(id), s[2])
    <2>1. /\ id \in DOMAIN lease_nft /\ (routed' = routed \/ routed' = Append(routed, r))
          /\ nft_lock' = without_lock(id)
          /\ UNCHANGED <<nft_metadata, lease_nft, holder_nfts>>
      BY <1>6 DEF mutual_release_with_nft_verification
    <2>2. s[2] \in Int
      OBVIOUS
    <2>3. r \in PaidToHolder
      BY <2>1, <2>2, PaymentToHolder
    <2> HIDE DEF r
    <2>4. routed' \in Seq(PaidToHolder)
      BY <1>1, <2>1, <2>3
    <2>5. \A x \in DOMAIN nft_lock' : nft_lock'[x] \in NFTIndestructibilityLock
      BY <1>1, <2>1 DEF without_lock
    <2> QED BY <2>1, <2>4, <2>5, RightsBooked
  <1>7. CASE RightsNext
    BY <1>2, <1>3, <1>4, <1>5, <1>6, <1>7, NFTMinted, NFTTransferred DEF RightsNext
  <1> QED BY <1>2, <1>7 DEF LibraryNext

-----------------------------------------------------------------------------
(* The access tokens and the doors. *)

\* Storing one token, new or not, as the token of its lease and in the list of its lessee
\* alone keeps the tokens sound.
LEMMA TokenWritten ==
    ASSUME AccessInv, NEW tid, NEW t \in LesseeAccessToken, tid[1] = t.lease_id,
           store_access_token(tid, t),
           \A x \in DOMAIN access_token : x # tid => access_token[x].lease_id # t.lease_id,
           DOMAIN lessee_tokens' = Parties,
           \A p \in Parties : \A x :
              x \in lessee_tokens'[p] <=> IF x = tid THEN p = t.lessee
                                                     ELSE x \in lessee_tokens[p]
    PROVE  AccessInv'
  <1>1. /\ DOMAIN access_token' = DOMAIN access_token \cup {tid} /\ access_token'[tid] = t
        /\ \A x \in DOMAIN access_token : x # tid => access_token'[x] = access_token[x]
    BY DEF store_access_token, Store
  <1>2. /\ DOMAIN lease_access' = DOMAIN lease_access \cup {t.lease_id}
        /\ lease_access'[t.lease_id] = tid
        /\ \A x \in DOMAIN lease_access : x # t.lease_id => lease_access'[x] = lease_access[x]
    BY DEF store_access_token, Store
  <1>3. ASSUME NEW x \in DOMAIN access_token' PROVE TokenSound(x)'
    <2>1. CASE x = tid
      BY <1>1, <1>2, <2>1 DEF TokenSound
    <2>2. CASE x # tid
      <3>1. x \in DOMAIN access_token /\ access_token'[x] = access_token[x] /\ TokenSound(x)
        BY <1>1, <2>2 DEF AccessInv
      <3> QED BY <1>2, <2>2, <3>1 DEF TokenSound
    <2> QED BY <2>1, <2>2
  <1>4. \A x \in DOMAIN lease_access' : lease_access'[x] \in DOMAIN access_token'
    BY <1>1, <1>2 DEF AccessInv
  <1>5. \A p \in Parties : lessee_tokens'[p] \subseteq DOMAIN access_token'
    BY <1>1 DEF AccessInv
  <1> QED BY <1>3, <1>4, <1>5 DEF AccessInv

\* A token is the only one of its lease.
LEMMA OneTokenPerLease ==
    ASSUME AccessInv, NEW tid \in DOMAIN access_token, NEW x \in DOMAIN access_token,
           access_token[x].lease_id = access_token[tid].lease_id
    PROVE  x = tid
  BY DEF AccessInv, TokenSound

\* Storing a token again with its lease and its lessee, as a revocation and a renewal do.
LEMMA TokenUpdated ==
    ASSUME AccessInv, NEW tid \in DOMAIN access_token, NEW t \in LesseeAccessToken,
           t.lease_id = access_token[tid].lease_id, t.lessee = access_token[tid].lessee,
           store_access_token(tid, t), lessee_tokens' = listed(tid, access_token[tid].lessee)
    PROVE  AccessInv'
  <1>1. TokenSound(tid) /\ t.lessee \in Parties /\ DOMAIN lessee_tokens = Parties
    BY DEF AccessInv, LesseeAccessToken
  <1>2. tid[1] = t.lease_id
    BY <1>1 DEF TokenSound
  <1>3. \A x \in DOMAIN access_token : x # tid => access_token[x].lease_id # t.lease_id
    BY OneTokenPerLease
  <1>4. \A p \in Parties : tid \in lessee_tokens[p] <=> p = t.lessee
    BY <1>1 DEF TokenSound
  <1>5. /\ DOMAIN lessee_tokens' = Parties
        /\ \A p \in Parties : lessee_tokens'[p] = IF p = t.lessee THEN lessee_tokens[p] \cup {tid}
                                                                  ELSE lessee_tokens[p]
    BY <1>1 DEF listed
  <1>6. \A p \in Parties : \A x :
           x \in lessee_tokens'[p] <=> IF x = tid THEN p = t.lessee ELSE x \in lessee_tokens[p]
    <2> SUFFICES ASSUME NEW p \in Parties, NEW x
                 PROVE  x \in lessee_tokens'[p] <=> IF x = tid THEN p = t.lessee
                                                              ELSE x \in lessee_tokens[p]
      OBVIOUS
    <2>1. CASE p = t.lessee
      BY <1>4, <1>5, <2>1
    <2>2. CASE p # t.lessee
      BY <1>4, <1>5, <2>2
    <2> QED BY <2>1, <2>2
  <1> QED BY <1>2, <1>3, <1>5, <1>6, TokenWritten

LEMMA TokenMinted ==
    ASSUME LeaseInv, AccessInv, NEW id \in LeaseIds, NEW b \in BOOLEAN,
           mint_lessee_access_token(id, b)
    PROVE  AccessInv'
  <1> DEFINE tid == <<id, now>>
             t == [lease_id |-> id, lessee |-> lease[id].tenant,
                   expiration_timestamp |-> lease[id].end_date, minted_at |-> now,
                   last_verified |-> now, verification_count |-> 0,
                   transferable |-> b, transfer_count |-> 0,
                   revoked |-> FALSE, revoked_at |-> None, revocation_reason |-> None]
  <1>1. /\ id \in DOMAIN lease /\ id \notin DOMAIN lease_access
        /\ store_access_token(tid, t)
        /\ lessee_tokens' = [lessee_tokens EXCEPT ![t.lessee] = @ \cup {tid}]
    BY DEF mint_lessee_access_token, generate_access_token_id, listed
  <1>2. now \in Nat /\ lease[id].tenant \in Parties /\ lease[id].end_date \in Nat
    BY <1>1, LedgerAssumption DEF LeaseInv, LeaseTypeOK, StoredLease
  <1>3. t \in LesseeAccessToken /\ t.lease_id = id /\ t.lessee \in Parties
    BY <1>2 DEF LesseeAccessToken
  <1>4. tid[1] = id
    OBVIOUS
  <1> HIDE DEF tid, t
  <1>5. \A x \in DOMAIN access_token : access_token[x].lease_id # id /\ x # tid
    BY <1>1, <1>4 DEF AccessInv, TokenSound
  <1>6. \A p \in Parties : tid \notin lessee_tokens[p]
    BY <1>5 DEF AccessInv
  <1>7. /\ DOMAIN lessee_tokens' = Parties
        /\ \A p \in Parties : lessee_tokens'[p] = IF p = t.lessee THEN lessee_tokens[p] \cup {tid}
                                                                  ELSE lessee_tokens[p]
    BY <1>1, <1>3 DEF AccessInv
  <1>8. \A p \in Parties : \A x :
           x \in lessee_tokens'[p] <=> IF x = tid THEN p = t.lessee ELSE x \in lessee_tokens[p]
    BY <1>6, <1>7
  <1> QED BY <1>1, <1>3, <1>4, <1>5, <1>7, <1>8, TokenWritten

LEMMA TokenTransferred ==
    ASSUME AccessInv, NEW tid \in DOMAIN access_token, NEW from \in Parties,
           NEW to \in Parties, transfer_access_token(tid, from, to)
    PROVE  AccessInv'
  <1> DEFINE n == access_token[tid].transfer_count + 1
             t == [access_token[tid] EXCEPT !.lessee = to, !.transfer_count = n]
  <1>1. /\ access_token[tid].lessee = from /\ store_access_token(tid, t)
        /\ lessee_tokens' = [[lessee_tokens EXCEPT ![from] = @ \ {tid}] EXCEPT ![to] = @ \cup {tid}]
    BY DEF transfer_access_token, update_lessee_mappings
  <1>2. TokenSound(tid) /\ DOMAIN lessee_tokens = Parties
    BY DEF AccessInv
  <1>3. access_token[tid] \in LesseeAccessToken /\ n \in Nat
    BY <1>2 DEF TokenSound, LesseeAccessToken
  <1>4. t \in LesseeAccessToken /\ t.lessee = to /\ t.lease_id = access_token[tid].lease_id
    <2> HIDE DEF n
    <2> QED BY <1>3 DEF LesseeAccessToken
  <1> HIDE DEF t, n
  <1>5. \A p \in Parties : tid \in lessee_tokens[p] <=> p = from
    BY <1>1, <1>2 DEF TokenSound
  <1>6. /\ DOMAIN lessee_tokens' = Parties
        /\ \A p \in Parties : \A x :
              x \in lessee_tokens'[p] <=> IF x = tid THEN p = to ELSE x \in lessee_tokens[p]
    <2> DEFINE lt == [lessee_tokens EXCEPT ![from] = @ \ {tid}]
    <2>1. DOMAIN lt = Parties /\ \A p \in Parties :
            lt[p] = IF p = from THEN lessee_tokens[p] \ {tid} ELSE lessee_tokens[p]
      BY <1>2
    <2>2. lessee_tokens' = [lt EXCEPT ![to] = lt[to] \cup {tid}]
      BY <1>1
    <2> HIDE DEF lt
    <2>3. lessee_tokens'[to] = lt[to] \cup {tid} /\ DOMAIN lessee_tokens' = Parties
          /\ \A p \in Parties : p # to => lessee_tokens'[p] = lt[p]
      BY <2>1, <2>2
    <2> QED BY <1>5, <2>1, <2>3
  <1>7. tid[1] = t.lease_id
    BY <1>2, <1>4 DEF TokenSound
  <1>8. \A x \in DOMAIN access_token : x # tid => access_token[x].lease_id # t.lease_id
    BY <1>4, OneTokenPerLease
  <1>9. \A p \in Parties : \A x :
           x \in lessee_tokens'[p] <=> IF x = tid THEN p = t.lessee ELSE x \in lessee_tokens[p]
    BY <1>4, <1>6
  <1> QED BY <1>1, <1>4, <1>6, <1>7, <1>8, <1>9, TokenWritten

LEMMA TokenVerified ==
    ASSUME LeaseInv, AccessInv, NEW tid \in DOMAIN access_token, verify_access_token(tid)
    PROVE  AccessInv'
  <1> DEFINE n == access_token[tid].verification_count + 1
             t == [access_token[tid] EXCEPT !.last_verified = now, !.verification_count = n]
  <1>1. /\ access_token' = [access_token EXCEPT ![tid] = t]
        /\ UNCHANGED <<lease_access, lessee_tokens>>
    BY DEF verify_access_token
  <1>2. now \in Nat /\ access_token[tid] \in LesseeAccessToken
    BY LedgerAssumption DEF LeaseInv, AccessInv, TokenSound
  <1>3. t \in LesseeAccessToken /\ t.lessee = access_token[tid].lessee
        /\ t.lease_id = access_token[tid].lease_id
    <2>1. n \in Nat
      BY <1>2 DEF LesseeAccessToken
    <2> HIDE DEF n
    <2> QED BY <1>2, <2>1 DEF LesseeAccessToken
  <1> HIDE DEF t, n
  <1>4. DOMAIN access_token' = DOMAIN access_token /\ access_token'[tid] = t
        /\ \A x \in DOMAIN access_token : x # tid => access_token'[x] = access_token[x]
    BY <1>1
  <1>5. ASSUME NEW x \in DOMAIN access_token PROVE TokenSound(x)'
    <2>1. TokenSound(x) /\ access_token'[x].lessee = access_token[x].lessee
          /\ access_token'[x].lease_id = access_token[x].lease_id
          /\ access_token'[x] \in LesseeAccessToken
      BY <1>3, <1>4 DEF AccessInv, TokenSound
    <2> QED BY <1>1, <2>1 DEF TokenSound
  <1> QED BY <1>1, <1>4, <1>5 DEF AccessInv

LEMMA TokenRevoked ==
    ASSUME LeaseInv, AccessInv, NEW id \in LeaseIds, NEW r \in RevocationReason,
           revoke_access_token(id, r)
    PROVE  AccessInv'
  <1> DEFINE tid == lease_access[id]
             yes == TRUE
             t == [access_token[tid] EXCEPT !.revoked = yes, !.revoked_at = now,
                                            !.revocation_reason = r]
  <1>1. /\ id \in DOMAIN lease_access /\ store_access_token(tid, t)
        /\ lessee_tokens' = listed(tid, access_token[tid].lessee)
    BY DEF revoke_access_token
  <1>2. tid \in DOMAIN access_token /\ access_token[tid] \in LesseeAccessToken /\ now \in Nat
    BY <1>1, LedgerAssumption DEF LeaseInv, AccessInv, TokenSound
  <1>3. t \in LesseeAccessToken /\ t.lessee = access_token[tid].lessee
        /\ t.lease_id = access_token[tid].lease_id
    BY <1>2 DEF LesseeAccessToken
  <1> HIDE DEF t
  <1> QED BY <1>1, <1>2, <1>3, TokenUpdated

LEMMA TokenRenewed ==
    ASSUME AccessInv, NEW id \in LeaseIds, NEW e \in Nat, renew_access_token(id, e)
    PROVE  AccessInv'
  <1> DEFINE tid == lease_access[id]
             t == [access_token[tid] EXCEPT !.expiration_timestamp = e]
  <1>1. /\ id \in DOMAIN lease_access /\ store_access_token(tid, t)
        /\ lessee_tokens' = listed(tid, access_token[tid].lessee)
    BY DEF renew_access_token
  <1>2. tid \in DOMAIN access_token /\ access_token[tid] \in LesseeAccessToken
    BY <1>1 DEF AccessInv, TokenSound
  <1>3. t \in LesseeAccessToken /\ t.lessee = access_token[tid].lessee
        /\ t.lease_id = access_token[tid].lease_id
    BY <1>2 DEF LesseeAccessToken
  <1> HIDE DEF t
  <1> QED BY <1>1, <1>2, <1>3, TokenUpdated

\* What a step of the access tokens can do.
LEMMA AccessSteps ==
    ASSUME LibraryNext
    PROVE  \/ UNCHANGED access_vars
           \/ \E id \in LeaseIds, b \in BOOLEAN : mint_lessee_access_token(id, b)
           \/ \E id \in LeaseIds, r \in RevocationReason : revoke_access_token(id, r)
           \/ \E id \in LeaseIds, t \in Renewals : renew_access_token(id, t)
           \/ \E tid \in DOMAIN access_token : verify_access_token(tid)
           \/ \E tid \in DOMAIN access_token, from, to \in Parties :
                 transfer_access_token(tid, from, to)
  <1>1. CASE AccessNext
    BY <1>1 DEF AccessNext, handle_lease_state_change, RevocationReason
  <1>2. CASE IoTNext /\ ~AccessNext
    BY <1>2 DEF IoTNext, query_token_validity, register_device, process_access_request,
       update_device_status
  <1> QED BY <1>1, <1>2 DEF LibraryNext

LEMMA AccessKept ==
    ASSUME LeaseInv, AccessInv, LibraryNext
    PROVE  AccessInv'
  <1>1. CASE UNCHANGED access_vars
    BY <1>1 DEF AccessInv, TokenSound, access_vars
  <1>2. Renewals \subseteq Nat
    BY AccessAssumption
  <1> QED BY <1>1, <1>2, AccessSteps, TokenMinted, TokenRevoked, TokenRenewed, TokenVerified,
          TokenTransferred

LEMMA DoorKept ==
    ASSUME LeaseInv, DoorInv, LibraryNext
    PROVE  DoorInv'
  <1>1. now \in Nat
    BY LedgerAssumption DEF LeaseInv
  <1>2. CASE UNCHANGED iot_vars
    BY <1>2 DEF DoorInv, iot_vars
  <1>3. ASSUME NEW p \in Parties, NEW b \in BOOLEAN, register_device(p, b) PROVE DoorInv'
    <2>1. "Online" \in DeviceStatus
      BY DEF DeviceStatus
    <2> QED BY <1>3, <2>1 DEF register_device, DoorInv, IoTDevice
  <1>4. ASSUME NEW p \in Parties, NEW m, NEW d \in Durations, process_access_request(p, m, d)
        PROVE  DoorInv'
    <2>1. now + d \in Nat
      BY <1>1, IoTAssumption
    <2>2. grant' = [user |-> p, expires_at |-> now + d] /\ device' = device
      BY <1>4 DEF process_access_request
    <2> QED BY <2>1, <2>2 DEF DoorInv
  <1>5. ASSUME NEW p \in Parties, NEW s \in OfferedStatuses, update_device_status(s, p)
        PROVE  DoorInv'
    <2>1. device \in IoTDevice /\ s \in DeviceStatus
      BY <1>5, IoTAssumption DEF update_device_status, DoorInv
    <2> QED BY <1>5, <2>1 DEF update_device_status, DoorInv, IoTDevice
  <1>6. CASE IoTNext
    BY <1>2, <1>3, <1>4, <1>5, <1>6 DEF IoTNext, query_token_validity
  <1> QED BY <1>2, <1>6 DEF LibraryNext

LEMMA LibraryNextInv ==
    ASSUME LibraryInv, [LibraryNext]_<<now, library_vars>>
    PROVE  LibraryInv'
  <1>1. CASE LibraryNext
    BY <1>1, LeasesKept, CleanupKept, RightsKept, AccessKept, DoorKept DEF LibraryInv
  <1>2. CASE UNCHANGED <<now, library_vars>>
    <2>1. /\ LeaseInv' /\ DoorInv'
          /\ UNCHANGED <<now, cleanup_vars, rights_vars, access_vars>>
      BY <1>2 DEF LibraryInv, LeaseInv, LeaseTypeOK, DoorInv, library_vars, lease_vars, iot_vars
    <2>2. now <= now'
      BY <2>1, LedgerAssumption DEF LibraryInv, LeaseInv
    <2>3. CleanupInv'
      BY <2>1, <2>2, CleanupUntouched DEF LibraryInv
    <2>4. RightsInv'
      BY <2>1 DEF LibraryInv, RightsInv, NFTSound, rights_vars
    <2>5. AccessInv'
      BY <2>1 DEF LibraryInv, AccessInv, TokenSound, access_vars
    <2> QED BY <2>1, <2>3, <2>4, <2>5 DEF LibraryInv
  <1> QED BY <1>1, <1>2

-----------------------------------------------------------------------------
(* The theorems. *)

\* All the libraries together keep the invariant.
THEOREM LibraryInvariance == LibrarySpec => []LibraryInv
  <1>1. now = StartTime /\ LibraryInit => LibraryInv
    BY LibraryInitInv
  <1>2. LibraryInv /\ [LibraryNext]_<<now, library_vars>> => LibraryInv'
    BY LibraryNextInv
  <1> QED BY <1>1, <1>2, PTL DEF LibrarySpec

\* Every variable of the libraries has its type, the billing cycle an NFT still has to run
\* included.
THEOREM LibraryTypes == LibrarySpec => [](IoTTypeOK /\ RightsTypeOK /\ CleanupTypeOK)
  <1>1. LibraryInv => IoTTypeOK /\ RightsTypeOK /\ CleanupTypeOK
    <2> SUFFICES ASSUME LibraryInv PROVE IoTTypeOK /\ RightsTypeOK /\ CleanupTypeOK
      OBVIOUS
    <2>1. IoTTypeOK /\ CleanupTypeOK
      BY DEF LibraryInv, LeaseInv, AccessInv, TokenSound, DoorInv, CleanupInv, IoTTypeOK,
         AccessTypeOK
    <2>2. ASSUME NEW m \in LessorRightsNFTMetadata
          PROVE  billing_cycle_remaining(m) \in 0..MONTH
      <3> DEFINE a == now - m.billing_cycle_start
                 b == Max({a, 0})
      <3>1. a \in Int /\ MONTH \in Nat
        BY LedgerAssumption, RightsAssumption DEF LibraryInv, LeaseInv, LessorRightsNFTMetadata
      <3> HIDE DEF a
      <3>2. b = IF a >= 0 THEN a ELSE 0
        BY <3>1, MaxOfTwo
      <3>3. b \in Nat
        BY <3>1, <3>2
      <3>4. billing_cycle_remaining(m) = Max({MONTH - b, 0})
        BY DEF billing_cycle_remaining, a
      <3> HIDE DEF b
      <3>5. MONTH - b \in Int
        BY <3>1, <3>3
      <3>6. Max({MONTH - b, 0}) = IF MONTH - b >= 0 THEN MONTH - b ELSE 0
        BY <3>5, MaxOfTwo
      <3> QED BY <3>1, <3>3, <3>4, <3>6
    <2>3. RightsTypeOK
      BY <2>2 DEF LibraryInv, LeaseInv, RightsInv, NFTSound, RightsTypeOK
    <2> QED BY <2>1, <2>3
  <1> QED BY <1>1, LibraryInvariance, PTL

\* However the NFTs are sold on, each is listed for its holder alone, and every payment of
\* the router went to the holder of that moment.
THEOREM HolderAlwaysPaid == LibrarySpec => []HolderPaid
  <1>1. LibraryInv => HolderPaid
    <2> SUFFICES ASSUME LibraryInv PROVE HolderPaid
      OBVIOUS
    <2>1. \A tid \in DOMAIN nft_metadata, p \in Parties :
            tid \in holder_nfts[p] <=> nft_metadata[tid].current_holder = p
      BY DEF LibraryInv, RightsInv, NFTSound
    <2>2. \A i \in DOMAIN routed : routed[i] \in PaidToHolder
      BY DEF LibraryInv, RightsInv
    <2> QED BY <2>1, <2>2 DEF HolderPaid, PaidToHolder
  <1> QED BY <1>1, LibraryInvariance, PTL

\* A lease under a legal hold is not pruned, and the metrics count every hold.
THEOREM HoldsAlwaysRespected == LibrarySpec => []HoldsRespected
  <1>1. LibraryInv => HoldsRespected
    BY DEF LibraryInv, CleanupInv
  <1> QED BY <1>1, LibraryInvariance, PTL

\* A token is listed for its lessee alone and is the token of its lease.
THEOREM TokensAlwaysListed == LibrarySpec => []TokensListed
  <1>1. LibraryInv => TokensListed
    BY DEF LibraryInv, AccessInv, TokenSound, TokensListed
  <1> QED BY <1>1, LibraryInvariance, PTL

\* A step keeps a revoked token as it is, and gives an expired one nothing but a later end.
LEMMA TokenEnds ==
    ASSUME LibraryInv, LibraryNext, NEW x \in DOMAIN access_token
    PROVE  EndsForGood(access_token[x], access_token'[x])
  <1> DEFINE t == access_token[x]
  <1>1. /\ t \in LesseeAccessToken /\ now \in Nat /\ TokenSound(x)
        /\ x \in DOMAIN access_token
    BY LedgerAssumption DEF LibraryInv, LeaseInv, AccessInv, TokenSound
  <1>2. t.expiration_timestamp \in Nat
    BY <1>1 DEF LesseeAccessToken
  <1>3. ASSUME access_token'[x] = t PROVE EndsForGood(t, access_token'[x])
    BY <1>3 DEF EndsForGood
  <1>4. ASSUME NEW k, NEW v, store_access_token(k, v), k # x
        PROVE  access_token'[x] = t
    BY <1>4 DEF store_access_token, Store
  <1>5. ASSUME NEW v, store_access_token(x, v)
        PROVE  access_token'[x] = v /\ now <= v.expiration_timestamp
    BY <1>5 DEF store_access_token, Store, can_store
  <1>6. ASSUME NEW id \in LeaseIds, NEW b \in BOOLEAN, mint_lessee_access_token(id, b)
        PROVE  EndsForGood(t, access_token'[x])
    <2>1. id \notin DOMAIN lease_access /\ \E v : store_access_token(<<id, now>>, v)
      BY <1>6 DEF mint_lessee_access_token, generate_access_token_id
    <2>2. x # <<id, now>>
      BY <1>1, <2>1 DEF TokenSound
    <2> QED BY <1>3, <1>4, <2>1, <2>2
  <1>7. ASSUME NEW id \in LeaseIds, NEW r \in RevocationReason, revoke_access_token(id, r)
        PROVE  EndsForGood(t, access_token'[x])
    <2> DEFINE k == lease_access[id]
               v == [access_token[k] EXCEPT !.revoked = TRUE, !.revoked_at = now,
                                            !.revocation_reason = r]
    <2>1. store_access_token(k, v)
      BY <1>7 DEF revoke_access_token
    <2>2. CASE k # x
      BY <1>3, <1>4, <2>1, <2>2
    <2>3. CASE k = x
      <3>1. access_token'[x] = v /\ now <= v.expiration_timestamp
        BY <1>5, <2>1, <2>3
      <3>2. v.revoked = TRUE /\ v.lessee = t.lessee
            /\ v.expiration_timestamp = t.expiration_timestamp
        BY <1>1, <2>3 DEF LesseeAccessToken
      <3> HIDE DEF v
      <3> QED BY <1>1, <1>2, <3>1, <3>2 DEF EndsForGood
    <2> QED BY <2>2, <2>3
  <1>8. ASSUME NEW id \in LeaseIds, NEW e \in Renewals, renew_access_token(id, e)
        PROVE  EndsForGood(t, access_token'[x])
    <2> DEFINE k == lease_access[id]
               v == [access_token[k] EXCEPT !.expiration_timestamp = e]
    <2>1. store_access_token(k, v) /\ ~access_token[k].revoked
      BY <1>8 DEF renew_access_token, may_renew
    <2>2. CASE k # x
      BY <1>3, <1>4, <2>1, <2>2
    <2>3. CASE k = x
      <3>1. access_token'[x] = v /\ now <= v.expiration_timestamp
        BY <1>5, <2>1, <2>3
      <3>2. v.revoked = t.revoked /\ v.lessee = t.lessee /\ v.expiration_timestamp \in Nat
        BY <1>1, <2>3, AccessAssumption DEF LesseeAccessToken
      <3> HIDE DEF v
      <3> QED BY <1>1, <1>2, <2>1, <2>3, <3>1, <3>2 DEF EndsForGood
    <2> QED BY <2>2, <2>3
  <1>9. ASSUME NEW k \in DOMAIN access_token, verify_access_token(k)
        PROVE  EndsForGood(t, access_token'[x])
    <2> DEFINE n == access_token[k].verification_count + 1
               v == [access_token[k] EXCEPT !.last_verified = now, !.verification_count = n]
    <2>1. access_token' = [access_token EXCEPT ![k] = v]
      BY <1>9 DEF verify_access_token
    <2>2. CASE k # x
      BY <1>1, <1>3, <2>1, <2>2
    <2>3. CASE k = x
      <3>1. v.revoked = t.revoked /\ v.lessee = t.lessee
            /\ v.expiration_timestamp = t.expiration_timestamp
        BY <1>1, <2>3 DEF LesseeAccessToken
      <3> HIDE DEF v
      <3>2. access_token'[x] = v
        BY <1>1, <2>1, <2>3
      <3> QED BY <3>1, <3>2 DEF EndsForGood
    <2> QED BY <2>2, <2>3
  <1>10. ASSUME NEW k \in DOMAIN access_token, NEW p \in Parties, NEW q \in Parties,
                transfer_access_token(k, p, q)
         PROVE  EndsForGood(t, access_token'[x])
    <2>1. /\ ~access_token[k].revoked /\ now <= access_token[k].expiration_timestamp
          /\ \E v : store_access_token(k, v)
      BY <1>10 DEF transfer_access_token, is_token_valid
    <2>2. CASE k # x
      BY <1>3, <1>4, <2>1, <2>2
    <2>3. CASE k = x
      BY <1>1, <1>2, <2>1, <2>3 DEF EndsForGood
    <2> QED BY <2>2, <2>3
  <1>11. CASE UNCHANGED access_vars
    BY <1>3, <1>11 DEF access_vars
  <1> QED BY <1>6, <1>7, <1>8, <1>9, <1>10, <1>11, AccessSteps

\* A token the device finds in the list of a user is a token of that user.
LEMMA DoorForLessee ==
    ASSUME LibraryInv, LibraryNext, grant' # grant
    PROVE  \E tid \in DOMAIN access_token :
              is_token_valid(access_token[tid]) /\ access_token[tid].lessee = grant'.user
  <1>1. PICK p \in Parties : \E m \in AccessMethod, d \in Durations :
          process_access_request(p, m, d)
    BY DEF LibraryNext, IoTNext, query_token_validity, register_device, update_device_status,
       iot_vars
  <1>2. get_user_access_token(p) # {} /\ grant'.user = p
    BY <1>1 DEF process_access_request
  <1>3. PICK tid \in lessee_tokens[p] :
          tid \in DOMAIN access_token /\ is_token_valid(access_token[tid])
    BY <1>2 DEF get_user_access_token
  <1>4. access_token[tid].lessee = p
    BY <1>3 DEF LibraryInv, AccessInv, TokenSound
  <1> QED BY <1>2, <1>3, <1>4

\* Access ends for good with a revocation, comes back after an expiry only by a renewal,
\* and a door opens for the lessee of a valid token alone.
THEOREM AccessAlwaysFollows == LibrarySpec => AccessFollowsToken
  <1>1. LibraryInv /\ [LibraryNext]_<<now, library_vars>> =>
          [\A tid \in DOMAIN access_token :
              EndsForGood(access_token[tid], access_token'[tid])]_access_token
    BY TokenEnds DEF library_vars, access_vars
  <1>2. LibraryInv /\ [LibraryNext]_<<now, library_vars>> =>
          [grant' # grant =>
             \E tid \in DOMAIN access_token :
                is_token_valid(access_token[tid]) /\ access_token[tid].lessee = grant'.user]_grant
    BY DoorForLessee DEF library_vars, iot_vars
  <1> QED BY <1>1, <1>2, LibraryInvariance, PTL
          DEF LibrarySpec, AccessFollowsToken, AccessEndsForGood, DoorOpensForLessee

\* While a lease's NFT is locked it keeps its holder, past the expiry of the lock and past
\* the end of the lease.
THEOREM LockKeepsHolder == LibrarySpec => LockedStays
  <1>1. ASSUME LibraryInv, LibraryNext, NEW id \in DOMAIN nft_lock, id \in DOMAIN lease_nft,
               NEW tid, tid = lease_nft[id]
        PROVE  nft_metadata'[tid].current_holder = nft_metadata[tid].current_holder
    <2>1. tid \in DOMAIN nft_metadata
      BY <1>1 DEF LibraryInv, RightsInv
    <2>2. CASE UNCHANGED nft_metadata
      BY <2>2
    <2>3. ASSUME NEW x \in LeaseIds, NEW p \in Parties, mint_lessor_rights_token(x, p)
          PROVE  nft_metadata'[tid] = nft_metadata[tid]
      <3>1. x \notin DOMAIN lease_nft
            /\ nft_metadata' = Store(nft_metadata, <<x, now>>, create_nft_metadata(x, p))
        BY <2>3 DEF mint_lessor_rights_token, generate_nft_id
      <3>2. tid # <<x, now>>
        <4>1. tid[1] \in DOMAIN lease_nft
          BY <1>1, <2>1 DEF LibraryInv, RightsInv, NFTSound
        <4>2. <<x, now>>[1] = x
          OBVIOUS
        <4> QED BY <3>1, <4>1, <4>2
      <3> QED BY <2>1, <3>1, <3>2 DEF Store
    <2>4. ASSUME NEW k \in DOMAIN nft_metadata, NEW p, NEW q, transfer_nft(k, p, q)
          PROVE  nft_metadata'[tid] = nft_metadata[tid]
      <3>1. k # tid
        <4>1. nft_metadata[k].lease_id \notin DOMAIN nft_lock
          BY <2>4 DEF transfer_nft, is_nft_locked
        <4> QED BY <1>1, <2>1, <4>1 DEF LibraryInv, RightsInv, NFTSound
      <3> QED BY <2>1, <2>4, <3>1 DEF transfer_nft
    <2>5. CASE RightsNext
      BY <2>2, <2>3, <2>4, <2>5 DEF RightsNext, rights_vars, update_nft_lock, release_nft_lock,
         refund_deposit_to_nft_holder, mutual_release_with_nft_verification
    <2> QED BY <1>1, <2>2, <2>5 DEF LibraryNext, rights_vars
  <1>2. LibraryInv /\ [LibraryNext]_<<now, library_vars>> =>
          [\A id \in DOMAIN nft_lock :
              id \in DOMAIN lease_nft =>
                 nft_metadata'[lease_nft[id]].current_holder
                    = nft_metadata[lease_nft[id]].current_holder]_<<nft_metadata, nft_lock>>
    BY <1>1 DEF library_vars, rights_vars
  <1> QED BY <1>2, LibraryInvariance, PTL DEF LibrarySpec, LockedStays
=============================================================================
