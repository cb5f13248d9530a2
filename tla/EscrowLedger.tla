---------------------------- MODULE EscrowLedger ----------------------------
(***************************************************************************)
(* The solvency ledger of escrow_invariant.rs: one record that splits what *)
(* is escrowed into active deposits, pending yield and disputed funds.     *)
(* Every update works on a copy of the record, checks the core invariant   *)
(* and stores the copy only when the check passes.                         *)
(*                                                                         *)
(* The figures are checked i128: an update that leaves the range fails.    *)
(* The report is a view of the record and is left out.                     *)
(***************************************************************************)
EXTENDS Integers

CONSTANTS
    I128_MAX,       \* largest i128
    Amounts,        \* amounts offered to the updates
    Rates,          \* slash percentages offered, in basis points
    SCALE,          \* 10000 basis points
    PRECISION,      \* 1_000_000: the divisor of simulate_soroban_precision_loss
    MaxLeaseCount,  \* bound: lease_count
    MaxPaidIn       \* bound: deposits since tracking was initialised

ASSUME EscrowAssumption ==
    /\ Amounts \subseteq Int /\ Rates \subseteq Nat
    /\ SCALE \in Nat \ {0} /\ PRECISION \in Nat \ {0}
    /\ I128_MAX \in Nat /\ MaxLeaseCount \in Nat /\ MaxPaidIn \in Nat

VARIABLES
    escrow,         \* the stored EscrowInvariant
    paid_in,        \* observed: deposits since tracking was initialised
    paid_out        \* observed: settled, released and slashed since then

escrow_vars == <<escrow, paid_in, paid_out>>

EscrowInvariant ==
    [total_escrowed : Int, active_deposits : Int, pending_yield : Int, disputed_funds : Int,
     vault_total_locked : Int, lease_count : Nat, precision_loss_cumulative : Int,
     dust_cumulative : Int]

new_invariant ==
    [total_escrowed |-> 0, active_deposits |-> 0, pending_yield |-> 0, disputed_funds |-> 0,
     vault_total_locked |-> 0, lease_count |-> 0, precision_loss_cumulative |-> 0,
     dust_cumulative |-> 0]

EscrowInit == escrow = new_invariant /\ paid_in = 0 /\ paid_out = 0

\* checked_add, checked_sub and checked_mul stay within the width.
fits(x) == x <= I128_MAX /\ x >= -I128_MAX - 1

at_most(a, b) == IF a <= b THEN a ELSE b

components(e) == e.active_deposits + e.pending_yield + e.disputed_funds

verify_core_invariant(e) ==
    /\ components(e) = e.total_escrowed
    /\ e.vault_total_locked = e.total_escrowed
    /\ e.total_escrowed >= 0 /\ e.active_deposits >= 0 /\ e.pending_yield >= 0
    /\ e.disputed_funds >= 0
    /\ e.lease_count > 0 => e.total_escrowed # 0

simulate_soroban_precision_loss(amount) == IF amount > 0 THEN amount \div PRECISION ELSE 0

\* verify_core_invariant()?; save(env): the update is kept only when the check passes.
save_verified(e) ==
    /\ \A f \in DOMAIN e : fits(e[f])
    /\ verify_core_invariant(e)
    /\ escrow' = e

\* Tracking may be initialised again at any time: the figures of the open leases are lost.
initialize_invariant_tracking ==
    escrow' = new_invariant /\ paid_in' = 0 /\ paid_out' = 0

with_lease(e, deposit_amount) ==
    [e EXCEPT !.total_escrowed = @ + deposit_amount, !.active_deposits = @ + deposit_amount,
              !.vault_total_locked = @ + deposit_amount, !.lease_count = @ + 1,
              !.precision_loss_cumulative =
                 @ + (IF deposit_amount > PRECISION
                      THEN simulate_soroban_precision_loss(deposit_amount) ELSE 0)]

apply_lease_creation(deposit_amount) ==
    /\ deposit_amount >= 0
    /\ escrow.lease_count < MaxLeaseCount /\ paid_in + deposit_amount <= MaxPaidIn
    /\ save_verified(with_lease(escrow, deposit_amount))
    /\ paid_in' = paid_in + deposit_amount
    /\ UNCHANGED paid_out

with_yield(e, yield_amount) ==
    [e EXCEPT !.active_deposits = @ - yield_amount, !.pending_yield = @ + yield_amount,
              !.precision_loss_cumulative = @ + simulate_soroban_precision_loss(yield_amount)]

apply_yield_accumulation(yield_amount) ==
    /\ yield_amount >= 0
    /\ yield_amount <= escrow.active_deposits
    /\ save_verified(with_yield(escrow, yield_amount))
    /\ UNCHANGED <<paid_in, paid_out>>

\* Pending yield goes first, then active deposits.
with_dispute(e, dispute_amount) ==
    LET from_pending == at_most(dispute_amount, e.pending_yield)
    IN  [e EXCEPT !.pending_yield = @ - from_pending,
                  !.active_deposits = @ - (dispute_amount - from_pending),
                  !.disputed_funds = @ + dispute_amount]

apply_dispute_initiation(dispute_amount) ==
    /\ dispute_amount >= 0
    /\ dispute_amount <= escrow.active_deposits + escrow.pending_yield
    /\ save_verified(with_dispute(escrow, dispute_amount))
    /\ UNCHANGED <<paid_in, paid_out>>

\* What stays escrowed after the settlement, the deposits of other leases included.
calculate_settlement_dust(settlement, total) ==
    IF settlement = total THEN 0 ELSE total - settlement

\* Wrong: active deposits are drawn before what is pending has been used.
calculate_settlement_sources_X(settlement, disputed, pending, active) ==
    LET from_disputed == at_most(settlement, disputed)
        from_active == at_most(settlement - from_disputed, active)
    IN  <<from_disputed, at_most(settlement - from_disputed, pending), from_active>>

calculate_settlement_sources(settlement, disputed, pending, active) ==
    LET from_disputed == at_most(settlement, disputed)
        remaining == settlement - from_disputed
        from_pending == at_most(remaining, pending)
    IN  <<from_disputed, from_pending, at_most(remaining - from_pending, active)>>

sources(e, settlement) ==
    calculate_settlement_sources(settlement, e.disputed_funds, e.pending_yield, e.active_deposits)

without_settled(e, settlement) ==
    LET from == sources(e, settlement)
    IN  [e EXCEPT !.disputed_funds = @ - from[1], !.pending_yield = @ - from[2],
                  !.active_deposits = @ - from[3],
                  !.total_escrowed = @ - settlement, !.vault_total_locked = @ - settlement,
                  !.lease_count = IF settlement > 0 /\ @ > 0 THEN @ - 1 ELSE @,
                  !.dust_cumulative =
                     @ + calculate_settlement_dust(settlement, e.total_escrowed)]

\* The sources must add up to the settlement, or DustAccountingError is returned.
sources_exact(e, settlement) ==
    LET from == sources(e, settlement) IN from[1] + from[2] + from[3] = settlement

apply_lease_settlement(tenant_refund, landlord_payout, protocol_fee) ==
    LET settlement == tenant_refund + landlord_payout + protocol_fee
    IN  /\ tenant_refund >= 0 /\ landlord_payout >= 0 /\ protocol_fee >= 0
        /\ settlement <= escrow.total_escrowed
        /\ sources_exact(escrow, settlement)
        /\ save_verified(without_settled(escrow, settlement))
        /\ paid_out' = paid_out + settlement
        /\ UNCHANGED paid_in

\* Everything is cleared: the release must match the escrow of all leases.
released(e) ==
    [e EXCEPT !.active_deposits = 0, !.pending_yield = 0, !.disputed_funds = 0,
              !.total_escrowed = 0, !.vault_total_locked = 0,
              !.lease_count = IF @ > 0 THEN @ - 1 ELSE 0]

apply_mutual_release(return_amount, slash_amount) ==
    /\ return_amount >= 0 /\ slash_amount >= 0
    /\ return_amount + slash_amount = escrow.total_escrowed
    /\ components(escrow) = escrow.total_escrowed
    /\ save_verified(released(escrow))
    /\ paid_out' = paid_out + return_amount + slash_amount
    /\ UNCHANGED paid_in

slash_of(e, bps) == (e.total_escrowed * bps) \div SCALE

\* Each component loses its share of the ratio, truncated; what the truncation leaves is dust.
without_slashed(e, bps) ==
    LET slash_amount == slash_of(e, bps)
        slash_ratio == (slash_amount * SCALE) \div e.total_escrowed
        share(x) == (x * slash_ratio) \div SCALE
        taken == share(e.active_deposits) + share(e.pending_yield) + share(e.disputed_funds)
    IN  [e EXCEPT !.active_deposits = @ - share(e.active_deposits),
                  !.pending_yield = @ - share(e.pending_yield),
                  !.disputed_funds = @ - share(e.disputed_funds),
                  !.total_escrowed = @ - slash_amount, !.vault_total_locked = @ - slash_amount,
                  !.dust_cumulative = IF taken < slash_amount THEN @ + slash_amount - taken ELSE @]

\* Wrong: a slash is stored without the check.
slash_stored_ok_X(e) == TRUE

slash_stored_ok(e) == verify_core_invariant(e)

apply_partial_slashing(bps) ==
    /\ bps <= SCALE
    /\ escrow.total_escrowed # 0
    /\ fits(escrow.total_escrowed * bps)
    /\ slash_stored_ok(without_slashed(escrow, bps))
    /\ escrow' = without_slashed(escrow, bps)
    /\ paid_out' = paid_out + slash_of(escrow, bps)
    /\ UNCHANGED paid_in

EscrowNext ==
    \/ initialize_invariant_tracking
    \/ \E a \in Amounts :
          \/ apply_lease_creation(a)
          \/ apply_yield_accumulation(a)
          \/ apply_dispute_initiation(a)
          \/ \E b \in Amounts :
                \/ \E c \in Amounts : apply_lease_settlement(a, b, c)
                \/ apply_mutual_release(a, b)
    \/ \E bps \in Rates : apply_partial_slashing(bps)

EscrowSpec == EscrowInit /\ [][EscrowNext]_escrow_vars

EscrowTypeOK == escrow \in EscrowInvariant /\ paid_in \in Nat /\ paid_out \in Nat

-----------------------------------------------------------------------------
(* Properties. *)

\* Whatever yields, disputes, settlements, releases and slashes follow each other, the
\* stored split adds up, agrees with the vault, and holds exactly what was paid in and has
\* not been paid out.
EscrowConserved ==
    /\ components(escrow) = escrow.total_escrowed
    /\ escrow.vault_total_locked = escrow.total_escrowed
    /\ escrow.total_escrowed = paid_in - paid_out

\* A settlement the escrow can pay fails for one reason only: it would empty the escrow
\* while the count still has another lease, one with no deposit for instance.  The sources
\* always add up, so DustAccountingError is never returned.
SettlementRefusedByCountOnly ==
    \A s \in 0..escrow.total_escrowed :
       /\ sources_exact(escrow, s)
       /\ verify_core_invariant(without_settled(escrow, s))
             <=> ~(s > 0 /\ s = escrow.total_escrowed /\ escrow.lease_count > 1)

\* The check refuses what would unbalance the books and, beyond that, only what would leave
\* an empty escrow with leases counted: a mutual release, which must match the escrow of
\* all leases, is possible for the last lease alone.
RefusalsExplained ==
    /\ SettlementRefusedByCountOnly
    /\ verify_core_invariant(released(escrow)) <=> escrow.lease_count <= 1

\* The books balance, and no legal update is refused without a reason.
EscrowSound == EscrowConserved /\ RefusalsExplained

\* The dust of a slash is never recorded: the check refuses every slash whose shares do not
\* add up (apply_partial_slashing).
SlashLeavesNoDust ==
    \A bps \in 0..SCALE :
       /\ escrow.total_escrowed # 0
       /\ slash_stored_ok(without_slashed(escrow, bps))
       => without_slashed(escrow, bps).dust_cumulative = escrow.dust_cumulative

\* What escrow_invariant.rs:663 says of a slash that succeeds, "33% slash should create dust
\* from truncation": when the percentage does not divide the escrow, dust is recorded.
TruncatedSlashLeavesDust ==
    [][\A bps \in Rates :
          apply_partial_slashing(bps) /\ (escrow.total_escrowed * bps) % SCALE # 0
             => escrow'.dust_cumulative > escrow.dust_cumulative]_escrow_vars
=============================================================================
