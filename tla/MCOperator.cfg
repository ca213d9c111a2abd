CONSTANTS
    Tunnels = {"t1", "t2"}
    MaxWorlds = 2
    MaxStates = 3
    MaxPreAuth = 2
    MaxPending = 1
    MaxActive = 1
    MaxTokens = 1
    EgressFaults = TRUE
    Members = {"m1", "m2", "m3"}
    Claimers = {"r1"}
    Minimums = {1}
    MaxTemplates = 2
    Envs = {"e1", "e2"}
    Selections = {"none", "dev", "restricted", "invalid"}
    MaxChanges = 3
    IsoFaults = TRUE
    CliCommands = {"c1", "c2"}
    Spaces = {"e1"}
    Jobs = {"j1"}
    MaxProjects = 2
    MaxRepoTokens = 2
    MaxExecution = 2
    CredFaults = 2
SPECIFICATION OperatorSpec
CHECK_DEADLOCK FALSE
 
PROPERTIES  IsoCorrect TenancyCorrect CredCorrect
