----------------------------- MODULE MCAccounts -----------------------------
(* Accounts for TLC: one static key, whose id is also an OIDC subject (the  *)
(* collision the bind guard is for), one subject of its own, and one local  *)
(* user who takes that subject's name.                                      *)
EXTENDS Accounts, TLC

CONSTANTS key, sub, local, eng, slug, engNs

MCNameOf == key :> "ci" @@ sub :> "bob" @@ local :> "bob"
MCKeyRole == key :> "admin" @@ sub :> None @@ local :> None
MCDeptOf == key :> eng @@ sub :> None @@ local :> None
MCSlugDept == [n \in DeptNames |-> slug]
MCNsOf == [n \in DeptNames |-> engNs]

\* Requests and generated ids are interchangeable.
AccountsSymmetry == Permutations(Requests) \cup Permutations(FreshDepts)
=============================================================================
