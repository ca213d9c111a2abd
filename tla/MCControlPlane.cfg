CONSTANTS
    Callers = {"c1", "c2"}
    MaxConn = 2
    MaxWorld = 2
    Commands = {"a", "b"}
    MaxGen = 3
    MaxServiceExecution = 2
    MaxRoute = 3
    MaxServiceEdits = 2
    Requests = {"p", "q"}
    RequestSlots = 1
    Codes = {"c", "d"}
    HandoffSlots = 1
    MaxInc = 2
    MaxPolicy = 2
    Appenders = {"a1", "a2"}
    Deleters = {"d1", "d2"}
    Keys = {"k1", "k2"}
    MaxSeq = 3
    MaxRetained = 2
    MaxReplay = 2
    Buffer = 1
    MaxRestart = 1
    MaxFault = 1
    Cookies = {"s1", "s2"}
    KeyIDs = {"k1", "k2"}
    SessionCalls = {"r1"}
    MaxSessions = 1
    TTL = 1
    MaxClock = 2
    CaptureSlots = {"q1", "q2"}
    Paths = {"f1", "f2"}
    MaxEdits = 2
    MaxExecs = 2
    MaxRevision = 2
SPECIFICATION ControlPlaneSpec
CHECK_DEADLOCK FALSE
INVARIANTS PoolSafe AttachSafe
PROPERTIES SvcCorrect TranscriptCorrect SessionCorrect 
