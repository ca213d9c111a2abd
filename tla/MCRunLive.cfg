CONSTANTS
    Runs = {"r1"}
    Ownerships = {"Claimed", "Owned"}
    MaxGen = 1
    MaxHold = 1
    MaxEpoch = 0
    Events = {"cancel", "delete", "envFails"}

SPECIFICATION SteadySpec
CHECK_DEADLOCK FALSE

PROPERTY RunEnds
