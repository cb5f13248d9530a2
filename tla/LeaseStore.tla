----------------------------- MODULE LeaseStore -----------------------------
(***************************************************************************)
(* What the token and cleanup libraries see of the lease contract: the     *)
(* stored leases, which the contract creates, moves between states and     *)
(* removes in any order (module LeaseContract has the rules), and the key  *)
(* TenantFlag, which the contract uses for a flag and                      *)
(* lessee_access_token.rs for a counter.  One change is left out: a lease  *)
(* for continuous billing may replace a live one (lib.rs:1347).            *)
(***************************************************************************)
EXTENDS Ledger

CONSTANTS
    Parties,        \* landlords, tenants, holders
    LeaseIds,
    Terms,          \* end dates offered for new leases
    MaxOpened       \* bound: leases created

ASSUME LeaseStoreAssumption ==
    /\ None \notin Parties /\ LeaseIds \subseteq Nat /\ Terms \subseteq Nat
    /\ MaxOpened \in Nat

VARIABLES
    lease,          \* id -> lease
    tenant_flag,    \* id -> what is stored under TenantFlag(id)
    opened          \* observed: leases created

lease_vars == <<lease, tenant_flag, opened>>

Statuses == {"Pending", "Active", "Expired", "Disputed", "Terminated"}
Finalized == {"Terminated", "Expired"}

\* A value of TenantFlag: the flag of the contract, or the counter of the tokens.
Flag(v) == [kind |-> "flag", count |-> v]
Counter(n) == [kind |-> "counter", count |-> n]

StoredLease ==
    [landlord : Parties, tenant : Parties, status : Statuses,
     deposit_status : {"Held", "Settled"}, deposit : Nat, start_date : Nat, end_date : Nat,
     token_id : (Nat \X Nat) \cup {None}]

LeaseInit == lease = << >> /\ tenant_flag = << >> /\ opened = 0

\* A lease may be stored under an id again once the last one has been removed, as
\* create_lease_instance requires.
lease_opened(id, landlord, tenant, end) ==
    /\ opened < MaxOpened
    /\ id \notin DOMAIN lease
    /\ lease' = Store(lease, id,
          [landlord |-> landlord, tenant |-> tenant, status |-> "Active",
           deposit_status |-> "Held", deposit |-> 2, start_date |-> now, end_date |-> end,
           token_id |-> None])
    /\ opened' = opened + 1
    /\ UNCHANGED tenant_flag

lease_moved(id, status) ==
    /\ id \in DOMAIN lease
    /\ lease[id].status \in {"Active", "Disputed"} /\ status # lease[id].status
    /\ lease' = [lease EXCEPT ![id].status = status]
    /\ UNCHANGED <<tenant_flag, opened>>

lease_removed(id) ==
    /\ id \in DOMAIN lease
    /\ lease[id].status \in Finalized
    /\ lease' = [x \in DOMAIN lease \ {id} |-> lease[x]]
    /\ UNCHANGED <<tenant_flag, opened>>

tenant_flagged(id) ==
    /\ id \in DOMAIN lease
    /\ lease[id].status \in Finalized
    /\ tenant_flag' = Store(tenant_flag, id, Flag(0))
    /\ UNCHANGED <<lease, opened>>

LeaseSteps ==
    /\ \E id \in LeaseIds :
          \/ \E l, t \in Parties, end \in Terms : l # t /\ lease_opened(id, l, t, end)
          \/ \E s \in {"Disputed", "Terminated", "Expired"} : lease_moved(id, s)
          \/ lease_removed(id)
          \/ tenant_flagged(id)
    /\ UNCHANGED now

Clock == Tick /\ UNCHANGED lease_vars

LeaseTypeOK ==
    /\ DOMAIN lease \subseteq LeaseIds
    /\ \A id \in DOMAIN lease : lease[id] \in StoredLease
    /\ DOMAIN tenant_flag \subseteq LeaseIds
    /\ opened \in Nat
=============================================================================
