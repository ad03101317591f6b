SPECIFICATION FunctionsSpec
CONSTANTS
    Sources = {a, b}
    Ports = {i, j}
    Unset = Unset
    NotGiven = NotGiven
    Packets = {p1, p2}
    SrcOf <- MCSrcOf
    Commands <- MCCommands
    MaxCommands = 3
    MaxFaults = 1
    Kinds = {"firewall", "l4lb", "chacha"}
    Bad = Bad
    Missing = Missing
    FlowOf <- MCFlowOf
    Files <- MCFiles
    MaxRules = 2
    Tools = {t1, t2, t3}
    Forced = {t3}
    MaxLoads = 5
    p1 = p1
    p2 = p2
    a = a
    b = b
    i = i
    j = j
    t1 = t1
    t2 = t2
    t3 = t3
SYMMETRY Alike
INVARIANTS
    ListedBlocked
CHECK_DEADLOCK FALSE
