CONSTANTS
    Runs = {"r1"}
    Ownerships = {"Claimed", "Owned"}
    MaxGen = 2
    MaxHold = 2
    MaxEpoch = 1
    Events = {"cancel", "delete", "abort", "idle", "podLost", "rejected", "unready", "envDeleted", "envFails"}

SPECIFICATION ScenarioSpec
CHECK_DEADLOCK FALSE

INVARIANTS RunSound OutcomeIsReal ReleasedClean
PROPERTIES TerminalIsFinal FenceByLeaver UsesDomain
