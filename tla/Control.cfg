SPECIFICATION FairSpec
CONSTANTS
    Nodes = {s1, s2, s3}
    Flows = {f1}
    Cfg <- ProxyConfig
    MaxTries = 2
    Restartable = {s2}
    MaxRuns = 3
    MaxFaults = 1
    ZeroAddr = ZeroAddr
    s1 = s1
    s2 = s2
    s3 = s3
    f1 = f1
INVARIANTS
    TypeOK
    RulesNeedStages
    ProxyAfterFwd
    FailsCleanly
PROPERTIES
    ManagerDecides
    InstallCompletes
    AgentsFollow
CHECK_DEADLOCK FALSE
