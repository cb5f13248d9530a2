---------------------------- MODULE LesseeAccess ----------------------------
(***************************************************************************)
(* The access tokens of lessee_access_token.rs: a token of a lease that    *)
(* opens the leased asset until it expires or is revoked, and that its     *)
(* holder may hand on.                                                     *)
(*                                                                         *)
(* The identifier of a token is its lease and the time of its minting.     *)
(* The lists of tokens per lessee are sets (the code may list an           *)
(* identifier twice); asset kinds, access levels, the list per asset and   *)
(* the cache of verifications decide nothing and are left out.             *)
(***************************************************************************)
EXTENDS LeaseStore

CONSTANTS
    Renewals,           \* expirations offered to renew_access_token
    MaxUses             \* bound: verifications, transfers and revocations of a token

ASSUME AccessAssumption == Renewals \subseteq Nat /\ MaxUses \in Nat

VARIABLES
    access_token,       \* token -> access token
    lease_access,       \* lease id -> token
    lessee_tokens,      \* party -> tokens listed for it
    revocations         \* <<lease id, index>> -> revoked token and reason

access_vars == <<access_token, lease_access, lessee_tokens, revocations>>

RevocationReason ==
    {"LeaseTerminated", "LeaseExpired", "LeaseDisputed", "SecurityBreach"}

LesseeAccessToken ==
    [lease_id : LeaseIds, lessee : Parties, expiration_timestamp : Nat, minted_at : Nat,
     last_verified : Nat, verification_count : Nat, transferable : BOOLEAN,
     transfer_count : Nat, revoked : BOOLEAN, revoked_at : Nat \cup {None},
     revocation_reason : RevocationReason \cup {None}]

AccessInit ==
    /\ access_token = << >> /\ lease_access = << >> /\ revocations = << >>
    /\ lessee_tokens = [p \in Parties |-> {}]

generate_access_token_id(id) == <<id, now>>

\* The TTL is an unsigned subtraction: a token that has expired cannot be stored.
can_store(token) == now <= token.expiration_timestamp

store_access_token(tid, token) ==
    /\ can_store(token)
    /\ access_token' = Store(access_token, tid, token)
    /\ lease_access' = Store(lease_access, token.lease_id, tid)

listed(tid, lessee) == [lessee_tokens EXCEPT ![lessee] = @ \cup {tid}]

mint_lessee_access_token(id, transferable) ==
    /\ id \in DOMAIN lease
    /\ lease[id].status = "Active" /\ lease[id].deposit_status = "Held"
    /\ id \notin DOMAIN lease_access
    /\ LET tid == generate_access_token_id(id)
           token == [lease_id |-> id, lessee |-> lease[id].tenant,
                     expiration_timestamp |-> lease[id].end_date, minted_at |-> now,
                     last_verified |-> now, verification_count |-> 0,
                     transferable |-> transferable, transfer_count |-> 0,
                     revoked |-> FALSE, revoked_at |-> None, revocation_reason |-> None]
       IN  /\ store_access_token(tid, token)
           /\ lessee_tokens' = listed(tid, token.lessee)
           /\ lease' = [lease EXCEPT ![id].token_id = tid]
    /\ UNCHANGED <<now, tenant_flag, opened, revocations>>

is_token_valid(token) == ~token.revoked /\ now <= token.expiration_timestamp

\* Any system may ask, for a token in any state; the answer is is_token_valid.
verify_access_token(tid) ==
    /\ tid \in DOMAIN access_token
    /\ access_token[tid].verification_count < MaxUses
    /\ access_token' = [access_token EXCEPT ![tid].last_verified = now,
                                            ![tid].verification_count = @ + 1]
    /\ UNCHANGED <<now, lease_vars, lease_access, lessee_tokens, revocations>>

\* Wrong: the token stays in the list of the previous lessee.
update_lessee_mappings_X(tid, from, to) ==
    [lessee_tokens EXCEPT ![to] = @ \cup {tid}]

update_lessee_mappings(tid, from, to) ==
    [[lessee_tokens EXCEPT ![from] = @ \ {tid}] EXCEPT ![to] = @ \cup {tid}]

transfer_access_token(tid, from, to) ==
    /\ tid \in DOMAIN access_token
    /\ access_token[tid].transferable
    /\ is_token_valid(access_token[tid])
    /\ access_token[tid].lessee = from
    /\ store_access_token(tid,
          [access_token[tid] EXCEPT !.lessee = to, !.transfer_count = @ + 1])
    /\ lessee_tokens' = update_lessee_mappings(tid, from, to)
    /\ UNCHANGED <<now, lease_vars, revocations>>

\* The next free index of the revocation history, counted under TenantFlag: a flag
\* stored there by the lease contract is not a number, and the call aborts.
revocation_index(id) == IF id \in DOMAIN tenant_flag THEN tenant_flag[id].count ELSE 0

can_count(id) == id \in DOMAIN tenant_flag => tenant_flag[id].kind = "counter"

revoke_access_token(id, reason) ==
    /\ id \in DOMAIN lease_access
    /\ can_count(id)
    /\ LET tid == lease_access[id]
       IN  /\ store_access_token(tid,
                 [access_token[tid] EXCEPT !.revoked = TRUE, !.revoked_at = now,
                                           !.revocation_reason = reason])
           /\ lessee_tokens' = listed(tid, access_token[tid].lessee)
           /\ revocations' = Store(revocations, <<id, revocation_index(id)>>, <<tid, reason>>)
    /\ tenant_flag' = Store(tenant_flag, id, Counter(revocation_index(id) + 1))
    /\ UNCHANGED <<now, lease, opened>>

\* Wrong: a revoked token may be renewed.
may_renew_X(token) == TRUE

may_renew(token) == ~token.revoked

\* Neither the lease nor the expired state of the token is looked at.
renew_access_token(id, new_expiration) ==
    /\ id \in DOMAIN lease_access
    /\ LET tid == lease_access[id]
       IN  /\ may_renew(access_token[tid])
           /\ store_access_token(tid,
                 [access_token[tid] EXCEPT !.expiration_timestamp = new_expiration])
           /\ lessee_tokens' = listed(tid, access_token[tid].lessee)
    /\ UNCHANGED <<now, lease_vars, revocations>>

\* The hook for a change of the lease's state; nothing calls it by itself.
handle_lease_state_change(id, new_status) ==
    \/ new_status = "Terminated" /\ revoke_access_token(id, "LeaseTerminated")
    \/ new_status = "Expired" /\ revoke_access_token(id, "LeaseExpired")
    \/ new_status = "Disputed" /\ revoke_access_token(id, "LeaseDisputed")

AccessNext ==
    \/ Clock /\ UNCHANGED access_vars
    \/ LeaseSteps /\ UNCHANGED access_vars
    \/ \E id \in LeaseIds :
          \/ \E b \in BOOLEAN : mint_lessee_access_token(id, b)
          \/ /\ id \in DOMAIN lease_access => revocation_index(id) < MaxUses
             /\ \/ revoke_access_token(id, "SecurityBreach")
                \/ id \in DOMAIN lease /\ handle_lease_state_change(id, lease[id].status)
          \/ \E t \in Renewals : renew_access_token(id, t)
    \/ \E tid \in DOMAIN access_token :
          \/ verify_access_token(tid)
          \/ \E from, to \in Parties :
                access_token[tid].transfer_count < MaxUses /\ transfer_access_token(tid, from, to)

AccessTypeOK ==
    /\ LeaseTypeOK
    /\ \A tid \in DOMAIN access_token : access_token[tid] \in LesseeAccessToken
    /\ \A id \in DOMAIN lease_access : lease_access[id] \in DOMAIN access_token
    /\ DOMAIN lessee_tokens = Parties

-----------------------------------------------------------------------------
(* Properties. *)

\* However tokens are handed on, renewed and revoked, a token is listed for its
\* lessee and for nobody else, and it is the token of its lease.
TokensListed ==
    \A tid \in DOMAIN access_token :
       /\ \A p \in Parties : tid \in lessee_tokens[p] <=> access_token[tid].lessee = p
       /\ lease_access[access_token[tid].lease_id] = tid

\* What may become of a token: a revoked one stays as it is, and one that has expired only
\* comes back by an expiration in the future.
EndsForGood(before, after) ==
    /\ before.revoked =>
          /\ after.revoked /\ after.lessee = before.lessee
          /\ after.expiration_timestamp = before.expiration_timestamp
    /\ before.expiration_timestamp < now =>
          /\ after.revoked = before.revoked /\ after.lessee = before.lessee
          /\ after.expiration_timestamp # before.expiration_timestamp
                => after.expiration_timestamp >= now

\* A revoked token never opens the asset again and changes hands no more; one that
\* has expired only comes back by a renewal into the future, and until then it can
\* be neither revoked nor handed on.
AccessEndsForGood ==
    [][\A tid \in DOMAIN access_token :
          EndsForGood(access_token[tid], access_token'[tid])]_access_token
=============================================================================
