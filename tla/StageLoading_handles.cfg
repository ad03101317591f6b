SPECIFICATION Spec
CONSTANTS
    MaxFaults = 1
    MaxRetries = 1
INVARIANTS
    HandlesChecked
CHECK_DEADLOCK FALSE
