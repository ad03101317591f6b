SPECIFICATION ProgramsSpec
CONSTANTS
    Packets = {p1, p2, p3, p4, p5}
    Flows = {f1, f2, f3}
    FlowOf <- MCFlowOf
    LenOf <- MCLenOf
    Elements = {e1, e2, e3}
    MaxEntries = 2
    Buckets = 24
    SPackets = {q1, q2, q3}
    SElements = {e1, e2}
    TimeMod = 16
    MaxTime = 2
    MaxZeros = 1
    Addrs = {a1, a2}
    Ports = {1000, 2000}
    Lengths = {0, 19, 20, 27, 28, 39, 40, 43, 44, 47, 48, 59, 60, 100}
    p1 = p1
    p2 = p2
    p3 = p3
    p4 = p4
    p5 = p5
    q1 = q1
    q2 = q2
    q3 = q3
    f1 = f1
    f2 = f2
    f3 = f3
    e1 = e1
    e2 = e2
    e3 = e3
    a1 = a1
    a2 = a2
INVARIANTS
    TypeOK
    NeverOvercounted
    ExactUnlessRaced
    HistogramComplete
    CountersExact
    LatencyExact
    PlainTupleExact
    IcmpTunnelKeepsKey
    Restored
SYMMETRY MCSymmetry
CHECK_DEADLOCK FALSE
