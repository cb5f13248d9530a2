---------------------------- MODULE RentTreasury ----------------------------
(***************************************************************************)
(* What the rent treasury promises, whatever the billing around it does:   *)
(* rent comes in, lessors are paid out of it, and never more is paid out   *)
(* than came in.  A grant of a pull payment is honoured at most once.      *)
(***************************************************************************)
EXTENDS Integers

CONSTANT Grants     \* identities of payment authorizations
VARIABLES
    collected,      \* rent received so far
    distributed,    \* rent paid out to lessors so far
    uses            \* how often each grant given so far was used

treasury_vars == <<collected, distributed, uses>>

TreasuryInit == collected = 0 /\ distributed = 0 /\ uses = << >>

\* Rent paid by a payer who signs the payment.
Collect ==
    /\ collected' \in Nat /\ collected' >= collected
    /\ UNCHANGED <<distributed, uses>>

Grant ==
    /\ \E g \in Grants \ DOMAIN uses :
         uses' = [h \in DOMAIN uses \cup {g} |-> IF h = g THEN 0 ELSE uses[h]]
    /\ UNCHANGED <<collected, distributed>>

\* Rent pulled with a grant, which is used up by it.
Pull ==
    /\ collected' \in Nat /\ collected' >= collected
    /\ \E g \in DOMAIN uses : uses[g] = 0 /\ uses' = [uses EXCEPT ![g] = 1]
    /\ UNCHANGED distributed

Distribute ==
    /\ distributed' \in Nat /\ distributed' >= distributed
    /\ distributed' <= collected
    /\ UNCHANGED <<collected, uses>>

TreasuryNext == Collect \/ Grant \/ Pull \/ Distribute

TreasurySpec == TreasuryInit /\ [][TreasuryNext]_treasury_vars
=============================================================================
