---------------------------- MODULE UpgradeGate ----------------------------
(***************************************************************************)
(* What the upgrade timelock promises: the code that runs is replaced only *)
(* by a proposal that enough different people backed, that waited its full *)
(* delay, that nobody withdrew, and at most once by each proposal.         *)
(***************************************************************************)
EXTENDS Integers, FiniteSets

CONSTANT Backers    \* the people who may back a proposal
VARIABLES
    clock,
    code,           \* the code that runs
    plans,          \* proposal id -> [hash, quorum, ready]: what was announced
    backers,        \* proposal id -> the people who backed it
    done,           \* ids of the executed proposals
    withdrawn       \* ids of the withdrawn proposals

gate_vars == <<clock, code, plans, backers, done, withdrawn>>

GateInit ==
    /\ clock \in Nat
    /\ plans = << >> /\ backers = << >> /\ done = {} /\ withdrawn = {}

Wait ==
    /\ clock' \in Nat /\ clock' >= clock
    /\ UNCHANGED <<code, plans, backers, done, withdrawn>>

\* A proposal is announced; those announced before keep their terms and backers.
Announce ==
    /\ \E id \in DOMAIN plans' :
        /\ id \notin DOMAIN plans
        /\ DOMAIN plans' = DOMAIN plans \cup {id}
        /\ DOMAIN backers' = DOMAIN plans'
        /\ backers'[id] = {}
        /\ plans'[id].ready > clock
        /\ \A old \in DOMAIN plans :
            plans'[old] = plans[old] /\ backers'[old] = backers[old]
    /\ UNCHANGED <<clock, code, done, withdrawn>>

Back ==
    /\ \E id \in DOMAIN backers, who \in Backers :
        /\ id \notin done \cup withdrawn
        /\ who \notin backers[id]
        /\ backers' = [backers EXCEPT ![id] = @ \cup {who}]
    /\ UNCHANGED <<clock, code, plans, done, withdrawn>>

Replace ==
    /\ \E id \in DOMAIN plans :
        /\ id \notin done \cup withdrawn
        /\ Cardinality(backers[id]) >= plans[id].quorum
        /\ plans[id].quorum > 0
        /\ clock >= plans[id].ready
        /\ code' = plans[id].hash
        /\ done' = done \cup {id}
    /\ UNCHANGED <<clock, plans, backers, withdrawn>>

Withdraw ==
    /\ \E id \in DOMAIN plans :
        /\ id \notin done \cup withdrawn
        /\ withdrawn' = withdrawn \cup {id}
    /\ UNCHANGED <<clock, code, plans, backers, done>>

GateNext == Wait \/ Announce \/ Back \/ Replace \/ Withdraw

GateSpec == GateInit /\ [][GateNext]_gate_vars
=============================================================================
