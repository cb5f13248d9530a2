---------------------------- MODULE MCAllServices ----------------------------
(***************************************************************************)
(* The services of MCServices and the billing service, which shares no     *)
(* storage with them: a behaviour exercises one of them.  Values of the    *)
(* constants of ContinuousBilling for TLC.                                 *)
(***************************************************************************)
EXTENDS MCServices, ContinuousBilling

\* Billing has its own initialize, and the other services wait in their initial state.
AllInit ==
    /\ BillingInit
    /\ \/ MCInit
       \/ /\ service = "billing"
          /\ TimelockInit /\ GovernanceInit /\ CollateralInit
          /\ LibraryInit /\ EscrowInit /\ SymbolInit

\* Bound: the pause and the guard's switch, which no payment looks at, are back in their
\* initial position before rent is collected.
SwitchedEarly ==
    billing_state'.emergency_pause \/ ~reentrancy_enabled' => rent_treasury'.total_collected = 0

\* Bound: no tenant is flagged where no access token looks at the flag.
FlagUnread == service = "rights" => UNCHANGED tenant_flag

AllNext ==
    \/ MCNext /\ FlagUnread /\ UNCHANGED billing_vars
    \/ /\ service = "billing" /\ BillingNext /\ SwitchedEarly
       /\ UNCHANGED <<service, guard_vars, library_vars, escrow_vars, symbol_vars>>

AllSpec == AllInit /\ [][AllNext]_<<service_vars, billing_vars>>

\* Rent by the second, over a term that ends before the last ledger.
BySecond ==
    [lease_id |-> 1, lessor |-> Ann, lessee |-> Bob, rent_amount |-> 0, rent_per_second |-> 1,
     start_time |-> 1, end_time |-> 2, billing_frequency |-> 2]

\* A flat rent per cycle; a start time of 0 reads as "never billed" for ever.
Flat == [BySecond EXCEPT !.rent_amount = 2, !.rent_per_second = 0]
FromZero == [Flat EXCEPT !.lease_id = 2, !.start_time = 0]

MCBillingTerms == {BySecond, FromZero}
=============================================================================
