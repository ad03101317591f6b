SPECIFICATION Spec
CONSTANTS
    MaxFaults = 4
    MaxRetries = 5
INVARIANTS
    TypeOK
    HelloMeansReady
    FwdBehindEnc
    ThreeRetriesSuffice
CHECK_DEADLOCK FALSE
