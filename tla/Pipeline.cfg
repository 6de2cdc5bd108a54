SPECIFICATION FairSpec
CONSTANTS
    Order <- MCOrder
    VersionOf <- MCVersionOf
    Faults = {"job", "trigger", "curl"}
    MaxPushes = 2
    MaxFaults = 2
INVARIANTS
    TypeOK
    RunsItsVersion
    StagedFirst
PROPERTIES
    NeverBack
    StagingCatchesUp
CHECK_DEADLOCK FALSE
