------------------------------- MODULE Ledger -------------------------------
(***************************************************************************)
(* The ledger the service contracts of contracts/leaseflow_contracts run   *)
(* on: env.ledger().timestamp() and env.ledger().sequence().  A ledger     *)
(* closes every unit of time, so the two advance together.  Every exported *)
(* function runs inside one ledger, and the host rolls back a call that    *)
(* returns an Err or panics, so an error path is an action that is not     *)
(* enabled.                                                                *)
(***************************************************************************)
EXTENDS Integers, FiniteSetsExt, Sequences

CONSTANTS
    None,           \* Option::None, an absent key
    StartTime,      \* timestamp of the deployment
    MaxTime         \* bound: last timestamp

ASSUME LedgerAssumption ==
    /\ StartTime \in Nat /\ MaxTime \in Nat /\ StartTime <= MaxTime
    /\ None \notin Int

VARIABLE now        \* ledger timestamp

\* The number of the current ledger.
sequence == now

Tick == now < MaxTime /\ now' = now + 1

\* f with key k bound to v, as the set of a storage or of a Map does.
Store(f, k, v) == [x \in DOMAIN f \cup {k} |-> IF x = k THEN v ELSE f[x]]
=============================================================================
