SPECIFICATION Spec
CONSTANTS
    Nodes <- MCNodes
    Flows <- MCFlows
    Configs <- MCConfigs
    Packets = {p1, p2}
    FlowOf <- TwoFlows
    NshDataSize = 1
    FwdTableSize = 1
    ZeroAddr = ZeroAddr
    s1 = s1
    s2 = s2
    s3 = s3
    f1 = f1
    f2 = f2
    p1 = p1
    p2 = p2
INVARIANTS
    EndedComplete
    BypassCause
    DropCause
CHECK_DEADLOCK FALSE
