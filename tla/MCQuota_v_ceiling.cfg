\* Two deploys of one owner race the listing.
CONSTANTS
    Requests = {r1, r2}
    Names = {n1, n2, n3}
    alice = alice
    bob = bob
    dev = dev
    Owners = {alice, bob}
    Department <- MCDepartment
    Limits <- MCLimits
    None = None
    MaxExpiries = 0
SPECIFICATION Spec
INVARIANTS CeilingHeld
SYMMETRY QuotaSymmetry
CHECK_DEADLOCK FALSE
