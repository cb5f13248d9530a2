-------------------------- MODULE MCLeaseContract --------------------------
(***************************************************************************)
(* Values of the constants of LeaseContract for TLC.                       *)
(***************************************************************************)
EXTENDS LeaseContract

CONSTANTS Landlord, Tenant, Third

\* Deposits of both kinds, an arbitrator, and a term of two units.
Standard ==
    [landlord |-> Landlord, tenant |-> Tenant, deposit_amount |-> 1, security_deposit |-> 1,
     start_date |-> 2, end_date |-> 4, rent_per_sec |-> 1, grace_period_end |-> 2,
     late_fee_flat |-> 2, late_fee_per_sec |-> 3, arbitrators |-> {Third},
     deposit_swap |-> None]

\* No deposit at all, so that no payout depends on the contract's balance.
Free == [Standard EXCEPT !.deposit_amount = 0, !.security_deposit = 0, !.arbitrators = {}]

\* Deposits swapped on creation.
Swapped(path, dex, slippage) ==
    [Standard EXCEPT !.security_deposit = 100, !.deposit_amount = 0, !.arbitrators = {},
        !.deposit_swap = [path |-> path, dex |-> dex, max_slippage_bps |-> slippage]]

Billing ==
    [landlord |-> Landlord, tenant |-> Tenant, deposit_amount |-> 1, rent_per_sec |-> 1,
     duration |-> 2]

StandardOnly == {Standard}
BillingOnly == {Billing}
LongStay == {[Free EXCEPT !.start_date = 0, !.end_date = 9, !.grace_period_end = 9]}
SwapParams == {Swapped(TRUE, TRUE, 0), Swapped(TRUE, FALSE, 0), Swapped(TRUE, FALSE, 100),
               Swapped(FALSE, TRUE, 0)}
AllParams == {Standard, Free} \cup SwapParams \cup LongStay
NoParams == {}

TenantHolds(n, c) ==
    [h \in Holders |-> IF h = Contract THEN c ELSE IF h = Third THEN 1 ELSE n]
Poor == TenantHolds(2, 0)
Pooled == TenantHolds(0, 4)
Funded == TenantHolds(2, 4)

TwoWays == {<<1, 1>>, <<2, 0>>, <<1, 0>>}
Fee == {[amount |-> 10, recipient |-> Third]}
Verified == {{Tenant}}
=============================================================================
