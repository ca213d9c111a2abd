CONSTANTS
    r1 = r1
    r2 = r2
    Runs = {r1}
    Ownerships = {"Owned"}
    MaxGen = 1
    MaxHold = 0
    MaxEpoch = 0
    Events = {}

SPECIFICATION Spec
CHECK_DEADLOCK FALSE

PROPERTY LostMeansLost
