---------------------------- MODULE MCController ----------------------------
(* VibedAppController for TLC: symmetry sets of the runs.                   *)
EXTENDS VibedAppController, TLC

\* Pod IPs and Sandbox names are interchangeable.
PodSymmetry == Permutations(Pods) \cup Permutations(Sandboxes)
=============================================================================
