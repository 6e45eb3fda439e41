---------------------------- MODULE AppLifecycle ----------------------------
(***************************************************************************)
(* What the control plane promises about a general-lane VibedApp: the      *)
(* phase graph that users, the router and the usage meter rely on, and     *)
(* that a suspended app holds no sandbox.  The reconciler                  *)
(* (VibedAppController) implements it.                                     *)
(***************************************************************************)
VARIABLES
    phase,    \* status.phase, or "Absent"
    asleep,   \* spec.suspended
    compute   \* a SandboxClaim exists under the app's name

vars == <<phase, asleep, compute>>

Init == phase = "Absent" /\ asleep = FALSE /\ compute = FALSE

Move(from, to) == phase \in from /\ phase' = to /\ UNCHANGED <<asleep, compute>>

Phases == {"Pending", "Claiming", "Starting", "Ready", "Suspended", "Failed"}

Create == phase = "Absent" /\ phase' = "Pending" /\ asleep' = FALSE /\ UNCHANGED compute
Delete == phase \in Phases /\ phase' = "Absent" /\ asleep' = FALSE /\ UNCHANGED compute
Toggle == phase \in Phases /\ asleep' = ~asleep /\ UNCHANGED <<phase, compute>>

Claim == ~asleep /\ Move({"Pending"}, "Claiming")
Bind == ~asleep /\ Move({"Claiming"}, "Starting")
Serve == ~asleep /\ Move({"Starting"}, "Ready")
Rebind == ~asleep /\ Move({"Ready"}, "Starting")
Fail == Move(Phases \ {"Failed"}, "Failed")

\* The app is parked only when suspension is wanted and the sandbox is gone.
Suspend == asleep /\ ~compute /\ Move(Phases \ {"Suspended"}, "Suspended")
Restore == ~asleep /\ Move({"Suspended"}, "Claiming")

\* No sandbox is claimed for a parked app.
Acquire == ~compute /\ phase # "Suspended" /\ compute' = TRUE /\ UNCHANGED <<phase, asleep>>
Release == compute /\ compute' = FALSE /\ UNCHANGED <<phase, asleep>>

Next == \/ Create \/ Delete \/ Toggle \/ Claim \/ Bind \/ Serve \/ Rebind
        \/ Fail \/ Suspend \/ Restore \/ Acquire \/ Release

Spec == Init /\ [][Next]_vars
=============================================================================
