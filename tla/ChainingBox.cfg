SPECIFICATION Spec
CONSTANTS
    Nodes = {s1, s2, s3}
    Flows = {f1}
    Cfg <- ProxyConfig
    MaxTries = 1
    Restartable = {s2}
    MaxRuns = 3
    MaxFaults = 1
    Packets = {p1}
    FlowOf <- MCFlowOf
    NshDataSize = 2
    FwdTableSize = 2
    ZeroAddr = ZeroAddr
    s1 = s1
    s2 = s2
    s3 = s3
    f1 = f1
    p1 = p1
INVARIANTS
    InOrder
    EndedComplete
    Dependable
PROPERTIES
    DataPlaneWhileLoaded
CHECK_DEADLOCK FALSE
