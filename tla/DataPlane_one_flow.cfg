SPECIFICATION FairSpec
CONSTANTS
    Nodes <- MCNodes
    Flows <- MCFlows
    Configs <- MCConfigs
    Packets = {p1, p2}
    FlowOf <- SameFlow
    NshDataSize = 3
    FwdTableSize = 4
    ZeroAddr = ZeroAddr
    s1 = s1
    s2 = s2
    s3 = s3
    f1 = f1
    f2 = f2
    p1 = p1
    p2 = p2
INVARIANTS
    TypeOK
    InOrder
PROPERTIES
    NshStable
    ImplementsServiceChain
    EveryPacketLeaves
CHECK_DEADLOCK FALSE
