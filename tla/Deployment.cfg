SPECIFICATION Spec
CONSTANTS
    Nodes <- MCNodes
    Flows = {f1}
    Files <- PairFiles
    ZeroAddr = ZeroAddr
    s1 = s1
    s2 = s2
    s3 = s3
    f1 = f1
INVARIANTS
    RejectsExactly
    LinksAsAssumed
CHECK_DEADLOCK FALSE
