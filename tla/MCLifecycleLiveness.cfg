CONSTANTS
    WakeIDs = {"w1"}
    RecoveryLimit = 1
    MaxExec = 2
    MaxHold = 1
    MaxSeq = 1
    MaxEpoch = 0
    Faults = {"config", "podStuck"}
SPECIFICATION LiveScenarios
PROPERTIES InvalidFenceCompletes SourcesSettle SoundIntents
