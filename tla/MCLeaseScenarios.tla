-------------------------- MODULE MCLeaseScenarios --------------------------
(***************************************************************************)
(* Bound: a behaviour follows one of four scenarios, which share the       *)
(* constants and differ in the leases, the last ledger and the number of   *)
(* leases:                                                                 *)
(*                                                                         *)
(*   deposit   the deposits of two leases, with admin settings and leases  *)
(*             for continuous billing that may reuse an id;                *)
(*   rent      the payments of two leases without deposit, one id;         *)
(*   exit      repairs and early exits of two leases with and without      *)
(*             swapped deposits, one id, on which nobody pays rent;        *)
(*   velocity  up to five leases of one lessor over three ids, left early. *)
(***************************************************************************)
EXTENDS MCLeaseContract

VARIABLE scenario   \* what this behaviour follows

Scenarios == {"deposit", "rent", "exit", "velocity"}

Unpaid(lease) ==
    lease.rent_paid = 0 /\ lease.buyout_price = None /\ lease.withdrawal_address = None

Unreported(lease) == lease.maintenance_status = "None" /\ lease.inspector = None

Held(lease) == lease.deposit_status = "Held"

\* The leases of each scenario; standard leases share one id.
Follows(id, lease) ==
    CASE scenario = "deposit" ->
            /\ lease.deposit_amount > 0 /\ Unpaid(lease) /\ Unreported(lease)
            /\ lease.arbitrators # {} => id = 1
      [] scenario = "rent" ->
            /\ total_deposit(lease) = 0 /\ lease.start_date = 2 /\ id = 1
            /\ Unreported(lease) /\ Held(lease)
      [] scenario = "exit" ->
            /\ lease.deposit_amount = 0 /\ lease.start_date = 2 /\ id = 1
            /\ Unpaid(lease) /\ Held(lease)
      [] scenario = "velocity" ->
            lease.start_date = 0 /\ Unpaid(lease) /\ Unreported(lease) /\ Held(lease)

\* Bounds of the scenarios: the last ledger and the leases created.
LastTime == [deposit |-> 4, rent |-> 4, exit |-> 4, velocity |-> 5]
LeasesCreated == [deposit |-> 2, rent |-> 2, exit |-> 2, velocity |-> 5]

\* Bound: around the limit it is the lessor who leaves (in the exits it is either party);
\* the limiter does not look at who does.
LessorLeaves ==
    \A id \in DOMAIN historical_lease' : historical_lease'[id].terminated_by = Landlord

MCInit == Init /\ scenario \in Scenarios

MCNext ==
    /\ Next
    /\ UNCHANGED scenario
    /\ now' <= LastTime[scenario] /\ created' <= LeasesCreated[scenario]
    /\ \A id \in DOMAIN lease_instance' : Follows(id, lease_instance'[id])
    /\ scenario # "deposit" => UNCHANGED settings
    /\ scenario = "velocity" => LessorLeaves
    /\ scenario # "rent" => UNCHANGED authorized_payer

MCSpec == MCInit /\ [][MCNext]_<<vars, scenario>>
=============================================================================
