-------------------------- MODULE CollateralHealth --------------------------
(***************************************************************************)
(* The collateral monitor of collateral_health_monitor.rs: the health of a *)
(* lease's collateral, margin calls, and the lessees whose utility is      *)
(* paused by one.  The price is the constant the code uses in place of a   *)
(* feed.  The health factor is cut to 32 bits by a cast, which is modelled *)
(* with the width as a parameter.  Definitions whose name ends in _X are   *)
(* wrong variants.                                                         *)
(***************************************************************************)
EXTENDS Ledger

CONSTANTS
    Lessees, Generated,     \* addresses; Generated marks those of Address::generate
    BackedLeases,           \* lease ids
    CollateralTerms,        \* [lease_id, lessee, amount, minimum] offered to register
    Topups,                 \* amounts offered to fulfill_margin_call
    Thresholds, Periods,    \* arguments offered to initialize
    PRICE,                  \* 100000000 in the code
    BPS,                    \* 10000 in the code
    CRITICAL_HEALTH_THRESHOLD,  \* 9000 in the code
    MIN_THRESHOLD,          \* 5000 in the code
    U32,                    \* 2^32 in the code
    MaxCollateral           \* bound: collateral a top-up may reach, on either side of 0

ASSUME CollateralAssumption ==
    /\ CollateralTerms \subseteq
         [lease_id : BackedLeases, lessee : Lessees, amount : Int, minimum : Int]
    /\ Topups \subseteq Int /\ Thresholds \subseteq Nat /\ Periods \subseteq Nat
    /\ {PRICE, BPS, CRITICAL_HEALTH_THRESHOLD, MIN_THRESHOLD, U32} \subseteq Nat \ {0}
    /\ BPS < U32 /\ MaxCollateral \in Nat

VARIABLES
    health_threshold, grace_period,     \* None before initialize
    collateral_health,      \* lease id -> health
    margin_calls,           \* lease id -> margin call
    paused_utilities        \* lessee -> lease id of the margin call that paused it

collateral_vars == <<health_threshold, grace_period, collateral_health, margin_calls,
                     paused_utilities>>

\* Address::generate is fresh in each call; a lease has one margin call, so the lease
\* tells the generated addresses apart.
generated_address(id) == <<Generated, id>>

CalledLessees == Lessees \cup {generated_address(id) : id \in BackedLeases}

CollateralHealthType ==
    [collateral_amount : Int, minimum_fiat_collateral : Int, current_fiat_value : Int,
     health_factor : 0..(U32 - 1),
     status : {"healthy", "warning", "under_collateralized", "emergency_termination"}]

MarginCall ==
    [lessee : CalledLessees, grace_period_end : Nat, required_topup : Nat,
     current_health_factor : 0..(U32 - 1), status : {"active", "satisfied", "expired"},
     emergency_termination_scheduled : BOOLEAN]

CollateralInit ==
    /\ health_threshold = None /\ grace_period = None
    /\ collateral_health = << >> /\ margin_calls = << >> /\ paused_utilities = << >>

\* initialize may be called again by anyone and forgets all leases and calls.
initialize_collateral(threshold, period) ==
    /\ threshold \in MIN_THRESHOLD..BPS
    /\ health_threshold' = threshold /\ grace_period' = period
    /\ collateral_health' = << >> /\ margin_calls' = << >> /\ paused_utilities' = << >>
    /\ UNCHANGED now

-----------------------------------------------------------------------------
calculate_fiat_value(amount) == amount * PRICE

\* Division that rounds towards zero.
Quotient(a, b) ==
    IF (a < 0) = (b < 0) THEN (IF a < 0 THEN -a ELSE a) \div (IF b < 0 THEN -b ELSE b)
    ELSE -((IF a < 0 THEN -a ELSE a) \div (IF b < 0 THEN -b ELSE b))

\* Wrong: the factor is not cut to its width.
health_factor_X(value, minimum) == Quotient(value * BPS, minimum)

\* The cast to u32 keeps the low bits.
health_factor(value, minimum) == Quotient(value * BPS, minimum) % U32

checked_health_factor(value, minimum) ==
    IF minimum > 0 THEN health_factor(value, minimum) ELSE BPS

health_status(factor) ==
    CASE factor < CRITICAL_HEALTH_THRESHOLD -> "under_collateralized"
      [] factor >= CRITICAL_HEALTH_THRESHOLD /\ factor < health_threshold -> "warning"
      [] OTHER -> "healthy"

HealthOf(amount, minimum) ==
    LET value == calculate_fiat_value(amount)
        factor == checked_health_factor(value, minimum)
    IN  [collateral_amount |-> amount, minimum_fiat_collateral |-> minimum,
         current_fiat_value |-> value, health_factor |-> factor,
         status |-> health_status(factor)]

Shortfall(h) ==
    IF h.minimum_fiat_collateral > h.current_fiat_value
    THEN h.minimum_fiat_collateral - h.current_fiat_value ELSE 0

\* The calls that trigger_margin_call refuses: a lease has one margin call for ever.
callable(id) == id \notin DOMAIN margin_calls

\* Wrong: the pause of another lease's call is replaced.
pausable_X(lessee) == TRUE

pausable(lessee) == lessee \notin DOMAIN paused_utilities

\* trigger_margin_call with pause_utility_token, for a lease whose health is h.
trigger_margin_call(id, lessee, h) ==
    /\ callable(id) /\ pausable(lessee)
    /\ margin_calls' = Store(margin_calls, id,
            [lessee |-> lessee, grace_period_end |-> now + grace_period,
             required_topup |-> Shortfall(h), current_health_factor |-> h.health_factor,
             status |-> "active", emergency_termination_scheduled |-> FALSE])
    /\ paused_utilities' = Store(paused_utilities, lessee, id)

NoMarginCall == UNCHANGED <<margin_calls, paused_utilities>>

Judge(id, lessee, h) ==
    /\ collateral_health' = Store(collateral_health, id, h)
    /\ IF h.status = "under_collateralized" THEN trigger_margin_call(id, lessee, h)
       ELSE NoMarginCall
    /\ UNCHANGED <<health_threshold, grace_period, now>>

\* Replaces what the monitor knew of the lease, an open margin call excepted.
register_lease_collateral(terms) ==
    /\ health_threshold # None
    /\ Judge(terms.lease_id, terms.lessee, HealthOf(terms.amount, terms.minimum))

Rechecked(id) ==
    HealthOf(collateral_health[id].collateral_amount,
             collateral_health[id].minimum_fiat_collateral)

check_collateral_health(id) ==
    /\ id \in DOMAIN collateral_health
    /\ Judge(id, generated_address(id), Rechecked(id))

\* A batch swallows the error of a check whose lease already has a margin call: the
\* health it stored before it failed is kept.
batch_health_check(id) ==
    \/ check_collateral_health(id)
    \/ /\ id \in DOMAIN collateral_health
       /\ Rechecked(id).status = "under_collateralized" /\ ~callable(id)
       /\ collateral_health' = Store(collateral_health, id, Rechecked(id))
       /\ NoMarginCall
       /\ UNCHANGED <<health_threshold, grace_period, now>>

\* Wrong: a fulfilled call leaves the lessee's utility paused.
resume_utility_token_X(lessee) == paused_utilities

resume_utility_token(lessee) ==
    [u \in DOMAIN paused_utilities \ {lessee} |-> paused_utilities[u]]

\* Neither the status of the call nor the token is looked at, and no token moves.
fulfill_margin_call(id, topup) ==
    /\ id \in DOMAIN margin_calls
    /\ now <= margin_calls[id].grace_period_end
    /\ id \in DOMAIN collateral_health
    /\ LET h == collateral_health[id]
           amount == h.collateral_amount + topup
           value == calculate_fiat_value(amount)
           factor == health_factor(value, h.minimum_fiat_collateral)
           enough == factor >= CRITICAL_HEALTH_THRESHOLD
       IN /\ h.minimum_fiat_collateral # 0
          /\ -MaxCollateral <= amount /\ amount <= MaxCollateral
          /\ collateral_health' = [collateral_health EXCEPT ![id] =
                [h EXCEPT !.collateral_amount = amount, !.current_fiat_value = value,
                          !.health_factor = factor,
                          !.status = IF enough THEN "healthy" ELSE "warning"]]
          /\ \/ /\ enough
                /\ margin_calls[id].lessee \in DOMAIN paused_utilities
                /\ margin_calls' = [margin_calls EXCEPT ![id].status = "satisfied"]
                /\ paused_utilities' = resume_utility_token(margin_calls[id].lessee)
             \/ ~enough /\ NoMarginCall
    /\ UNCHANGED <<health_threshold, grace_period, now>>

\* Wrong: the last second of the grace period counts as expired.
grace_over_X(call) == now >= call.grace_period_end

grace_over(call) == now > call.grace_period_end

\* The status of the call is not looked at.
execute_emergency_termination(id) ==
    /\ id \in DOMAIN margin_calls
    /\ grace_over(margin_calls[id])
    /\ id \in DOMAIN collateral_health
    /\ margin_calls' = [margin_calls EXCEPT ![id].status = "expired",
                            ![id].emergency_termination_scheduled = TRUE]
    /\ collateral_health' = [collateral_health EXCEPT ![id].status = "emergency_termination"]
    /\ UNCHANGED <<health_threshold, grace_period, paused_utilities, now>>

CollateralTick == Tick /\ UNCHANGED collateral_vars

CollateralNext ==
    \/ CollateralTick
    \/ \E t \in Thresholds, p \in Periods : initialize_collateral(t, p)
    \/ \E terms \in CollateralTerms : register_lease_collateral(terms)
    \/ \E id \in BackedLeases : check_collateral_health(id)
    \/ \E id \in BackedLeases : batch_health_check(id)
    \/ \E id \in BackedLeases, topup \in Topups : fulfill_margin_call(id, topup)
    \/ \E id \in BackedLeases : execute_emergency_termination(id)

CollateralSpec == now = StartTime /\ CollateralInit /\ [][CollateralNext]_<<now, collateral_vars>>

-----------------------------------------------------------------------------
\* Each variable of the monitor has its type.
CollateralTypeOK ==
    /\ health_threshold \in Nat \cup {None} /\ grace_period \in Nat \cup {None}
    /\ DOMAIN collateral_health \subseteq BackedLeases
    /\ \A l \in DOMAIN collateral_health : collateral_health[l] \in CollateralHealthType
    /\ DOMAIN margin_calls \subseteq DOMAIN collateral_health
    /\ \A l \in DOMAIN margin_calls : margin_calls[l] \in MarginCall
    /\ DOMAIN paused_utilities \subseteq CalledLessees

\* A lessee's utility is paused only for an unsatisfied margin call of his own
\* (trigger_margin_call, fulfill_margin_call), and collateral found insufficient has a
\* margin call, even when a batch swallows the error of the check.
PauseJustified ==
    /\ \A u \in DOMAIN paused_utilities :
        /\ paused_utilities[u] \in DOMAIN margin_calls
        /\ margin_calls[paused_utilities[u]].lessee = u
        /\ margin_calls[paused_utilities[u]].status # "satisfied"
    /\ \A l \in DOMAIN collateral_health :
        collateral_health[l].status = "under_collateralized" => l \in DOMAIN margin_calls

\* Within its grace period a margin call is not expired: execute_emergency_termination still
\* refuses at the very second fulfill_margin_call last accepts.  Afterwards it expires every
\* call, a satisfied one too (see TerminatedUnfulfilled).
GraceRespected ==
    \A l \in DOMAIN margin_calls :
        margin_calls[l].status = "expired" => now > margin_calls[l].grace_period_end

\* A pause has an unsatisfied margin call of the lessee behind it, insufficient collateral
\* has a margin call, and no call expires within its grace period.
MarginCallsJust == PauseJustified /\ GraceRespected

\* FLASH_CRASH_PROTECTION_IMPLEMENTATION.md gives as the trigger of an emergency
\* termination the end of the grace period without fulfilment.
TerminatedUnfulfilled ==
    [][\A l \in DOMAIN margin_calls :
         margin_calls[l].status = "satisfied" /\ l \in DOMAIN margin_calls' =>
            margin_calls'[l].status = "satisfied"]_collateral_vars
=============================================================================
