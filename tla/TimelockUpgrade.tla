-------------------------- MODULE TimelockUpgrade --------------------------
(***************************************************************************)
(* The multi-signature timelock for Wasm upgrades, timelock_upgrade.rs.    *)
(* The approvals of a proposal are kept as a set and counted as the code   *)
(* counts them; descriptions and events are left out.  Definitions whose   *)
(* name ends in _X are wrong variants.                                     *)
(***************************************************************************)
EXTENDS Ledger

CONSTANTS
    Council,            \* addresses that may become signers
    Hashes,             \* Wasm hashes
    Delays, Quorums,    \* arguments offered to initialize_timelock
    DEFAULT_DELAY,      \* 1_209_600 s (14 days) in the code
    DEFAULT_QUORUM,     \* 3 in the code
    MaxProposals        \* bound: proposals made

ASSUME TimelockAssumption ==
    /\ Delays \subseteq Nat /\ Quorums \subseteq Nat
    /\ DEFAULT_DELAY \in Nat \ {0} /\ DEFAULT_QUORUM \in Nat \ {0}
    /\ MaxProposals \in Nat

VARIABLES
    signers,            \* the addresses a Signer key holds
    timelock_duration, min_approvals,   \* None before initialize_timelock
    upgrade_proposals,  \* proposal id -> proposal
    proposal_count,
    current_wasm_hash   \* None before the first upgrade

timelock_vars == <<signers, timelock_duration, min_approvals, upgrade_proposals,
                   proposal_count, current_wasm_hash>>

UpgradeProposal ==
    [proposer : Council, new_wasm_hash : Hashes,
     status : {"Pending", "Approved", "Executed", "Cancelled"},
     created_at : Nat, approvals : SUBSET Council, approval_count : Nat,
     required_approvals : Nat \ {0}, execution_time : Nat]

TimelockInit ==
    /\ signers = {} /\ timelock_duration = None /\ min_approvals = None
    /\ upgrade_proposals = << >> /\ proposal_count = 0 /\ current_wasm_hash = None

initialize_timelock(admin, duration, quorum) ==
    /\ timelock_duration = None
    /\ timelock_duration' = IF duration > 0 THEN duration ELSE DEFAULT_DELAY
    /\ min_approvals' = IF quorum > 0 THEN quorum ELSE DEFAULT_QUORUM
    /\ signers' = signers \cup {admin}
    /\ proposal_count' = 0
    /\ UNCHANGED <<upgrade_proposals, current_wasm_hash, now>>

require_signer(caller) == caller \in signers

add_signer(caller, new_signer) ==
    /\ require_signer(caller)
    /\ signers' = signers \cup {new_signer}
    /\ UNCHANGED <<timelock_duration, min_approvals, upgrade_proposals, proposal_count,
                   current_wasm_hash, now>>

\* A signer may remove anyone, itself and the last one included.
remove_signer(caller, signer) ==
    /\ require_signer(caller)
    /\ signers' = signers \ {signer}
    /\ UNCHANGED <<timelock_duration, min_approvals, upgrade_proposals, proposal_count,
                   current_wasm_hash, now>>

propose_upgrade(proposer, hash) ==
    /\ require_signer(proposer)
    /\ proposal_count < MaxProposals
    /\ upgrade_proposals' = Store(upgrade_proposals, proposal_count,
            [proposer |-> proposer, new_wasm_hash |-> hash, status |-> "Pending",
             created_at |-> now, approvals |-> {}, approval_count |-> 0,
             required_approvals |-> min_approvals,
             execution_time |-> now + timelock_duration])
    /\ proposal_count' = proposal_count + 1
    /\ UNCHANGED <<signers, timelock_duration, min_approvals, current_wasm_hash, now>>

\* Wrong: an approver may be counted again.
already_approved_X(p, approver) == FALSE

already_approved(p, approver) == approver \in p.approvals

approve_upgrade(approver, id) ==
    /\ require_signer(approver)
    /\ id \in DOMAIN upgrade_proposals
    /\ LET p == upgrade_proposals[id]
       IN /\ p.status \notin {"Executed", "Cancelled"}
          /\ ~already_approved(p, approver)
          /\ upgrade_proposals' = [upgrade_proposals EXCEPT ![id] =
                [p EXCEPT !.approvals = @ \cup {approver}, !.approval_count = @ + 1,
                          !.status = IF p.approval_count + 1 >= p.required_approvals
                                     THEN "Approved" ELSE @]]
    /\ UNCHANGED <<signers, timelock_duration, min_approvals, proposal_count,
                   current_wasm_hash, now>>

\* Wrong: the delay is counted from nothing.
executable_X(p) == p.status = "Approved" /\ now >= p.created_at

executable(p) == p.status = "Approved" /\ now >= p.execution_time

\* Anyone may execute.
execute_upgrade(id) ==
    /\ id \in DOMAIN upgrade_proposals
    /\ executable(upgrade_proposals[id])
    /\ upgrade_proposals' = [upgrade_proposals EXCEPT ![id].status = "Executed"]
    /\ current_wasm_hash' = upgrade_proposals[id].new_wasm_hash
    /\ UNCHANGED <<signers, timelock_duration, min_approvals, proposal_count, now>>

\* Wrong: an executed proposal may still be cancelled, and its record says so.
cancellable_X(p) == p.status # "Cancelled"

cancellable(p) == p.status \notin {"Executed", "Cancelled"}

cancel_upgrade(canceller, id) ==
    /\ require_signer(canceller)
    /\ id \in DOMAIN upgrade_proposals
    /\ cancellable(upgrade_proposals[id])
    /\ upgrade_proposals' = [upgrade_proposals EXCEPT ![id].status = "Cancelled"]
    /\ UNCHANGED <<signers, timelock_duration, min_approvals, proposal_count,
                   current_wasm_hash, now>>

TimelockTick == Tick /\ UNCHANGED timelock_vars

TimelockNext ==
    \/ TimelockTick
    \/ \E u \in Council, d \in Delays, q \in Quorums : initialize_timelock(u, d, q)
    \/ \E u, v \in Council : add_signer(u, v)
    \/ \E u, v \in Council : remove_signer(u, v)
    \/ \E u \in Council, h \in Hashes : propose_upgrade(u, h)
    \/ \E u \in Council, id \in DOMAIN upgrade_proposals : approve_upgrade(u, id)
    \/ \E id \in DOMAIN upgrade_proposals : execute_upgrade(id)
    \/ \E u \in Council, id \in DOMAIN upgrade_proposals : cancel_upgrade(u, id)

TimelockSpec == now = StartTime /\ TimelockInit /\ [][TimelockNext]_<<now, timelock_vars>>

-----------------------------------------------------------------------------
\* Each variable of the timelock has its type; before initialize_timelock it is empty.
TimelockTypeOK ==
    /\ now \in StartTime..MaxTime
    /\ signers \subseteq Council
    /\ timelock_duration \in (Nat \ {0}) \cup {None}
    /\ min_approvals \in (Nat \ {0}) \cup {None}
    /\ timelock_duration = None => signers = {}
    /\ timelock_duration = None <=> min_approvals = None
    /\ proposal_count \in Nat
    /\ DOMAIN upgrade_proposals = 0..(proposal_count - 1)
    /\ \A id \in DOMAIN upgrade_proposals : upgrade_proposals[id] \in UpgradeProposal
    /\ current_wasm_hash \in Hashes \cup {None}

\* Each proposal counts every approver once, and is approved or executed only with the
\* approvals it needed when it was made (approve_upgrade, execute_upgrade), however the
\* signers change in between.
ApprovalsCounted ==
    \A id \in DOMAIN upgrade_proposals :
        LET p == upgrade_proposals[id]
        IN /\ p.approval_count = Cardinality(p.approvals)
           /\ p.status \in {"Approved", "Executed"} => p.approval_count >= p.required_approvals
           /\ p.status = "Executed" => now >= p.execution_time
           /\ p.execution_time > p.created_at

\* The gate the timelock implements, and how its state is read from the proposals.
announced ==
    [id \in DOMAIN upgrade_proposals |-> [hash |-> upgrade_proposals[id].new_wasm_hash,
                                          quorum |-> upgrade_proposals[id].required_approvals,
                                          ready |-> upgrade_proposals[id].execution_time]]

approvers == [id \in DOMAIN upgrade_proposals |-> upgrade_proposals[id].approvals]

with_status(s) == {id \in DOMAIN upgrade_proposals : upgrade_proposals[id].status = s}

executed == with_status("Executed")

cancelled == with_status("Cancelled")

Gate ==
    INSTANCE UpgradeGate WITH
        Backers <- Council, clock <- now, code <- current_wasm_hash,
        plans <- announced, backers <- approvers, done <- executed, withdrawn <- cancelled

\* The timelock implements the gate: the Wasm changes only by a proposal backed by enough
\* different signers, after its delay, not cancelled, and once by each proposal
\* (propose_upgrade, approve_upgrade, execute_upgrade, cancel_upgrade).
ImplementsGate == Gate!GateSpec
=============================================================================
