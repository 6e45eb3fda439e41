------------------------------ MODULE MCQuota ------------------------------
(* QuotaEnforcer for TLC.                                                   *)
EXTENDS QuotaEnforcer, TLC

CONSTANTS alice, bob, dev

MCDepartment == alice :> dev @@ bob :> None

\* Two apps in the tenant, one for each owner; one in each department.
MCLimits == [tenant |-> 2, owner |-> 1, department |-> 1]

\* Requests and names are interchangeable.
QuotaSymmetry == Permutations(Requests) \cup Permutations(Names)
=============================================================================
