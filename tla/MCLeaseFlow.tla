---------------------------- MODULE MCLeaseFlow ----------------------------
(***************************************************************************)
(* Instances of LeaseFlow for TLC.  The clock starts at the end of         *)
(* February 1970, so that the month length changes during a run.           *)
(***************************************************************************)
EXTENDS LeaseFlow, TLC

\* One lease that runs past the end of the model, one that ends within it,
\* and an empty term that create_lease refuses.
MCTerms ==
    {[start_date |-> StartTime, end_date |-> StartTime + 40],
     [start_date |-> StartTime, end_date |-> StartTime]}

MCLongTerm == {[start_date |-> StartTime, end_date |-> StartTime + 40]}

MCPeg(enabled) ==
    [enabled |-> enabled, target_usd_amount |-> 40,
     staleness_threshold |-> 1, volatility_threshold |-> 2000]

MCPegs == {MCPeg(TRUE), MCPeg(FALSE)}

MCNoPeg == {None}

UserSymmetry == Permutations(Users)
=============================================================================
