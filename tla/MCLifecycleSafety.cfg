CONSTANTS
    WakeIDs = {"w1"}
    RecoveryLimit = 1
    MaxExec = 2
    MaxHold = 2
    MaxSeq = 1
    MaxEpoch = 1
    Faults = {"crash", "error", "podEnds", "podLost"}
SPECIFICATION ScenarioSpec
INVARIANT ExecutionSound
PROPERTIES
    ImplementsDomain AcknowledgedAfterFence ReleaseIsAuthorized
    PublishedOnlyWhileAllowed IdleNeverOvertakes ResumeIntentDurable
