CONSTANTS
    r1 = r1
    r2 = r2
    Runs = {r1, r2}
    Ownerships = {"Claimed"}
    MaxGen = 1
    MaxHold = 0
    MaxEpoch = 0
    Events = {"podLost", "rejected", "abort"}

SPECIFICATION SharedSpec
CHECK_DEADLOCK FALSE

SYMMETRY Symmetry
INVARIANT SharedClean
