------------------------------ MODULE MCOracle ------------------------------
(***************************************************************************)
(* Values of the constants of OracleSlash for TLC.                         *)
(***************************************************************************)
EXTENDS OracleSlash, TLC

CONSTANTS Landlord, Tenant

\* A lease whose landlord may reclaim it (no deposit_amount) with a security deposit
\* to slash.
Reclaimable ==
    {[landlord |-> Landlord, tenant |-> Tenant, deposit_amount |-> 0,
      security_deposit |-> 2, start_date |-> 1, end_date |-> 3, rent_per_sec |-> 0,
      grace_period_end |-> 3, late_fee_flat |-> 0, late_fee_per_sec |-> 0,
      arbitrators |-> {}, deposit_swap |-> None]}

\* The contract holds two such deposits.
Escrowed == [h \in Holders |-> IF h = Contract THEN 4 ELSE 0]

\* A lease that is active at once.
Running ==
    {[landlord |-> Landlord, tenant |-> Tenant, deposit_amount |-> 0, rent_per_sec |-> 0,
      duration |-> 1]}

\* The oracles are interchangeable.
OracleSymmetry == Permutations(Oracles)
=============================================================================
