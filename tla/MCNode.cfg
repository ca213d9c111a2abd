CONSTANTS
    Roles = {"web"}
    Specs = {"A", "B"}
    TimedSpecs = {"B"}
    Revisions <- TwoRevisions
    StopModes = {"GRACEFUL", "TERMINATE", "INTERRUPT", "FORCE"}
    ProcFaults = {"launch", "host"}
    MaxRecords = 1
    MaxExec = 3
    QueueSize = 1
    ChunkSizes = {1, 2}
    MaxBytes = 3
    Writers = {w1, w2}
    Contents = {"v1", "v2"}
    WriteSlots = 2
    Parts = 1
    Directories <- SomeLists
    PageSizes = {1, 2}
SPECIFICATION NodeSpec
CHECK_DEADLOCK FALSE
PROPERTIES ProcCorrect ExecCorrect FileCorrect
