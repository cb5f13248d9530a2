---------------------------- MODULE LessorRights ----------------------------
(***************************************************************************)
(* The lessor rights NFTs of lessor_rights_nft.rs, which carry the claim   *)
(* to a lease's rent and deposit, and the two calls of                     *)
(* lease_payment_router.rs that can succeed: the refund of a deposit and   *)
(* the mutual release, both paid to the current holder of the NFT.         *)
(*                                                                         *)
(* Every other call of the router keeps its data under the storage key of  *)
(* the lease itself and fails on the lease record it finds there.  A       *)
(* payment is an event in the code; here the sequence `routed` keeps the   *)
(* payments to the holder.  Property hashes and the records of past        *)
(* transfers are left out.                                                 *)
(***************************************************************************)
EXTENDS LeaseStore

CONSTANTS
    LockExpiries,   \* expires_at offered to update_nft_lock
    Shares,         \* <<return_amount, slash_amount>> offered to a mutual release
    MONTH,          \* thirty days in the code
    MaxMoves        \* bound: transfers of an NFT, payments routed

ASSUME RightsAssumption ==
    /\ LockExpiries \subseteq Nat \cup {None}
    /\ Shares \subseteq Int \X Int
    /\ MONTH \in Nat \ {0} /\ MaxMoves \in Nat

VARIABLES
    nft_metadata,   \* token -> metadata
    lease_nft,      \* lease id -> token
    holder_nfts,    \* party -> tokens listed for it
    nft_lock,       \* lease id -> lock
    routed          \* observed: payments routed, in order

rights_vars == <<nft_metadata, lease_nft, holder_nfts, nft_lock, routed>>

LessorRightsNFTMetadata ==
    [lease_id : LeaseIds, original_lessor : Parties, current_holder : Parties,
     lease_end : Nat, security_deposit : Nat, minted_at : Nat, last_transfer : Nat,
     transfer_count : Nat, billing_cycle_start : Nat]

LockReason == {"LeaseActive", "LeaseDisputed", "ArbitrationInProgress", "RegulatoryHold"}

NFTIndestructibilityLock ==
    [lock_reason : LockReason, locked_at : Nat, expires_at : Nat \cup {None}]

RightsInit ==
    /\ nft_metadata = << >> /\ lease_nft = << >> /\ nft_lock = << >> /\ routed = << >>
    /\ holder_nfts = [p \in Parties |-> {}]

is_lease_tokenizable(l) == l.status \in {"Active", "Pending"}

generate_nft_id(id) == <<id, now>>

create_nft_metadata(id, lessor) ==
    [lease_id |-> id, original_lessor |-> lessor, current_holder |-> lessor,
     lease_end |-> lease[id].end_date, security_deposit |-> lease[id].deposit,
     minted_at |-> now, last_transfer |-> now, transfer_count |-> 0,
     billing_cycle_start |-> lease[id].start_date]

\* The lessor is not compared with the landlord of the lease.
mint_lessor_rights_token(id, lessor) ==
    /\ id \in DOMAIN lease
    /\ is_lease_tokenizable(lease[id])
    /\ id \notin DOMAIN lease_nft
    /\ LET tid == generate_nft_id(id)
       IN  /\ nft_metadata' = Store(nft_metadata, tid, create_nft_metadata(id, lessor))
           /\ lease_nft' = Store(lease_nft, id, tid)
           /\ holder_nfts' = [holder_nfts EXCEPT ![lessor] = @ \cup {tid}]
           /\ lease' = [lease EXCEPT ![id].token_id = tid]
    /\ nft_lock' = Store(nft_lock, id,
          [lock_reason |-> "LeaseActive", locked_at |-> now, expires_at |-> None])
    /\ UNCHANGED <<now, tenant_flag, opened, routed>>

\* Wrong: a lock that has run out does not count.
is_nft_locked_X(id) ==
    id \in DOMAIN nft_lock /\ (nft_lock[id].expires_at # None => now <= nft_lock[id].expires_at)

\* A lock counts until it is released, past its expires_at too.
is_nft_locked(id) == id \in DOMAIN nft_lock

\* billing_cycle_remaining of calculate_yield_proration.
billing_cycle_remaining(m) == Max({MONTH - Max({now - m.billing_cycle_start, 0}), 0})

with_new_holder(m, to) ==
    [m EXCEPT !.current_holder = to, !.last_transfer = now, !.transfer_count = @ + 1,
              !.billing_cycle_start = now]

\* Wrong: the NFT stays in the list of the previous holder.
update_holder_mappings_X(tid, from, to) == [holder_nfts EXCEPT ![to] = @ \cup {tid}]

update_holder_mappings(tid, from, to) ==
    [[holder_nfts EXCEPT ![from] = @ \ {tid}] EXCEPT ![to] = @ \cup {tid}]

\* Nobody signs: `from` only has to be the holder.
transfer_nft(tid, from, to) ==
    /\ tid \in DOMAIN nft_metadata
    /\ nft_metadata[tid].current_holder = from
    /\ ~is_nft_locked(nft_metadata[tid].lease_id)
    /\ nft_metadata' = [nft_metadata EXCEPT ![tid] = with_new_holder(@, to)]
    /\ holder_nfts' = update_holder_mappings(tid, from, to)
    /\ UNCHANGED <<now, lease_vars, lease_nft, nft_lock, routed>>

update_nft_lock(id, reason, expires_at) ==
    /\ id \in DOMAIN lease_nft
    /\ nft_lock' = Store(nft_lock, id,
          [lock_reason |-> reason, locked_at |-> now, expires_at |-> expires_at])
    /\ UNCHANGED <<now, lease_vars, nft_metadata, lease_nft, holder_nfts, routed>>

without_lock(id) == [x \in DOMAIN nft_lock \ {id} |-> nft_lock[x]]

\* The state of the lease is not looked at.
release_nft_lock(id) ==
    /\ nft_lock' = without_lock(id)
    /\ UNCHANGED <<now, lease_vars, nft_metadata, lease_nft, holder_nfts, routed>>

-----------------------------------------------------------------------------
(* The router. *)

get_current_holder(id) == nft_metadata[lease_nft[id]].current_holder

\* Wrong: the original lessor is paid, not the holder.
payee_X(id) == nft_metadata[lease_nft[id]].original_lessor

payee(id) == get_current_holder(id)

PaymentRouted(id, to, amount) ==
    [lease_id |-> id, to |-> to, amount |-> amount,
     holder |-> nft_metadata[lease_nft[id]].current_holder]

\* verify_purpose_validity for a refund: the lease is over.
refund_deposit_to_nft_holder(id, refund_amount) ==
    /\ id \in DOMAIN lease /\ id \in DOMAIN lease_nft
    /\ lease[id].status \in Finalized
    /\ Len(routed) < MaxMoves
    /\ routed' = Append(routed, PaymentRouted(id, payee(id), refund_amount))
    /\ UNCHANGED <<now, lease_vars, nft_metadata, lease_nft, holder_nfts, nft_lock>>

\* The tenant's share (lease_payment_router.rs:408-416) is not kept in `routed`: only the
\* holder's side depends on the NFT.
mutual_release_with_nft_verification(id, tenant, holder, return_amount, slash_amount) ==
    /\ id \in DOMAIN lease /\ id \in DOMAIN lease_nft
    /\ tenant = lease[id].tenant
    /\ holder = get_current_holder(id)
    /\ lease[id].status \in {"Active", "Expired"}
    /\ return_amount + slash_amount = lease[id].deposit
    /\ return_amount >= 0 /\ slash_amount >= 0
    /\ Len(routed) < MaxMoves
    /\ routed' = IF slash_amount > 0
                 THEN Append(routed, PaymentRouted(id, payee(id), slash_amount))
                 ELSE routed
    /\ nft_lock' = without_lock(id)
    /\ lease' = [lease EXCEPT ![id].status = "Terminated", ![id].deposit_status = "Settled"]
    /\ UNCHANGED <<now, tenant_flag, opened, nft_metadata, lease_nft, holder_nfts>>

RightsNext ==
    \/ Clock /\ UNCHANGED rights_vars
    \/ LeaseSteps /\ UNCHANGED rights_vars
    \/ \E id \in LeaseIds :
          \/ \E lessor \in Parties : mint_lessor_rights_token(id, lessor)
          \/ \E e \in LockExpiries : update_nft_lock(id, "LeaseDisputed", e)
          \/ release_nft_lock(id)
          \/ refund_deposit_to_nft_holder(id, 1)
          \/ \E t, h \in Parties, s \in Shares :
                mutual_release_with_nft_verification(id, t, h, s[1], s[2])
    \/ \E tid \in DOMAIN nft_metadata, from, to \in Parties :
          nft_metadata[tid].transfer_count < MaxMoves /\ transfer_nft(tid, from, to)

RightsTypeOK ==
    /\ LeaseTypeOK
    /\ \A tid \in DOMAIN nft_metadata :
          /\ nft_metadata[tid] \in LessorRightsNFTMetadata
          /\ billing_cycle_remaining(nft_metadata[tid]) \in 0..MONTH
    /\ \A id \in DOMAIN nft_lock : nft_lock[id] \in NFTIndestructibilityLock

-----------------------------------------------------------------------------
(* Properties. *)

\* However the NFTs are sold on while leases end, each one is listed for its holder
\* and for nobody else, and every payment of the holder's side (a refund, or the slashed
\* part of a mutual release) went to whoever held it at that moment.
HolderPaid ==
    /\ \A tid \in DOMAIN nft_metadata, p \in Parties :
          tid \in holder_nfts[p] <=> nft_metadata[tid].current_holder = p
    /\ \A i \in DOMAIN routed : routed[i].to = routed[i].holder

\* An NFT changes hands only after its lock has been removed: neither time nor the
\* end of the lease moves it, and a lock that has run out holds like any other.
LockedStays ==
    [][\A id \in DOMAIN nft_lock :
          id \in DOMAIN lease_nft =>
             nft_metadata'[lease_nft[id]].current_holder
                = nft_metadata[lease_nft[id]].current_holder]_<<nft_metadata, nft_lock>>
=============================================================================
