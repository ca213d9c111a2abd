CONSTANTS
    Callers = {"c1", "c2"}
    MaxConn = 1
    MaxWorld = 0
    Requests = {"p"}
    RequestSlots = 1
    Codes = {"c"}
    HandoffSlots = 1
    MaxInc = 2
    MaxPolicy = 1
    Appenders = {"a1"}
    Deleters = {"d1", "d2"}
    Keys = {"k1"}
    MaxSeq = 1
    MaxRetained = 1
    MaxReplay = 1
    Buffer = 1
    MaxRestart = 1
    MaxFault = 1
    Tunnels = {"t1", "t2"}
    MaxWorlds = 1
    MaxStates = 2
    MaxPreAuth = 2
    MaxPending = 1
    MaxActive = 1
    MaxTokens = 1
    EgressFaults = TRUE
    Envs = {"e1"}
    Selections = {"none", "dev", "restricted", "invalid"}
    MaxChanges = 2
    IsoFaults = FALSE
    MaxRepoTokens = 1
    MaxExecution = 1
    CredFaults = 1
    Roles = {"web"}
    Specs = {"B"}
    TimedSpecs = {"B"}
    Revisions <- NoRevisions
    StopModes = {"GRACEFUL", "TERMINATE"}
    ProcFaults = {}
    MaxRecords = 1
    MaxExec = 2
    QueueSize = 1
    ChunkSizes = {1}
    MaxBytes = 1
SPECIFICATION LiveSpec
CHECK_DEADLOCK FALSE
PROPERTIES
    WaitersReleased AccessCloses  TunnelsCutOff
    IsolationDone CredentialCleaned ProcessesEnd ExecReturns
