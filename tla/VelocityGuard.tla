--------------------------- MODULE VelocityGuard ---------------------------
(***************************************************************************)
(* The per-lessor termination limiter of velocity_guard.rs, as operators   *)
(* on one tracker.  The lease contract (module LeaseContract) stores the   *)
(* trackers and calls these operators.                                     *)
(*                                                                         *)
(* Pausing is absent on purpose: trigger_velocity_anomaly stores the pause *)
(* and the DAO request, and its only caller then returns an Err, which     *)
(* rolls both back.  No stored tracker is ever paused, no request can be   *)
(* approved, and dao_approve_resume always ends in LeaseNotFound.          *)
(* Definitions whose name ends in _X are wrong variants: seeded faults     *)
(* that a property must detect.                                            *)
(***************************************************************************)
EXTENDS Integers, Sequences, FiniteSets

CONSTANTS
    VELOCITY_WINDOW,             \* 86400 in the code
    VELOCITY_THRESHOLD_PERCENT   \* 1000 in the code, in basis points

ASSUME VelocityAssumption ==
    VELOCITY_WINDOW \in Nat /\ VELOCITY_THRESHOLD_PERCENT \in Nat

VelocityTracker ==
    [total_leases : Nat, terminations_24h : Nat, last_termination_times : Seq(Nat)]

\* The tracker initialize_lessor stores for a lessor without one.
NewTracker ==
    [total_leases |-> 0, terminations_24h |-> 0, last_termination_times |-> << >>]

\* Wrong: the comparison with the start of the window is the wrong way round.
cleanup_old_terminations_X(tracker, time) ==
    {i \in DOMAIN tracker.last_termination_times :
       tracker.last_termination_times[i] < time - VELOCITY_WINDOW}

\* The terminations still inside the window, by their places in the record: the
\* check counts them and forgets the shortened copy; the stored tracker keeps
\* every termination.
cleanup_old_terminations(tracker, time) ==
    {i \in DOMAIN tracker.last_termination_times :
       tracker.last_termination_times[i] >= time - VELOCITY_WINDOW}

velocity_percentage(tracker, time) ==
    (Cardinality(cleanup_old_terminations(tracker, time)) * 10000) \div tracker.total_leases

\* The window's start is an unsigned subtraction: before the first window has
\* passed the call aborts.
CanMeasure(time) == time >= VELOCITY_WINDOW

WithinLimits(tracker, time) ==
    tracker.total_leases > 0
        => velocity_percentage(tracker, time) <= VELOCITY_THRESHOLD_PERCENT

\* Wrong: the time of the termination is not kept.
record_termination_X(tracker, time) ==
    [tracker EXCEPT !.terminations_24h = @ + 1]

record_termination(tracker, time) ==
    [tracker EXCEPT !.last_termination_times = Append(@, time),
                    !.terminations_24h = @ + 1]

\* update_portfolio_size with delta 1 and with delta -1.
grow_portfolio(tracker) == [tracker EXCEPT !.total_leases = @ + 1]

\* Wrong: the subtraction does not saturate.
shrink_portfolio_X(tracker) == [tracker EXCEPT !.total_leases = @ - 1]

shrink_portfolio(tracker) ==
    [tracker EXCEPT !.total_leases = IF @ > 0 THEN @ - 1 ELSE 0]
=============================================================================
