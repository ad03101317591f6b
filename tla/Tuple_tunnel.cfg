SPECIFICATION Spec
CONSTANTS
    Addrs = {a1, a2}
    Ports = {1000, 2000}
    Lengths <- MCLengths
INVARIANTS
    TunnelKeepsKey
CHECK_DEADLOCK FALSE
