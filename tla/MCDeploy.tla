------------------------------ MODULE MCDeploy ------------------------------
(* TLC instance of DeployService. *)
EXTENDS DeployService, TLC

Symmetry == Permutations(Requests)
=============================================================================
