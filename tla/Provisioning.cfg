SPECIFICATION Spec
CONSTANTS
    r1 = r1
    r2 = r2
    NoHost = NoHost
    Runs = {r1, r2}
    Fleet <- MCFleet
    GroupTags <- MCGroupTags
    InstanceStates = {}
    Asks <- MCAsks
    MaxAge = 1
    MaxRun = 1
    PageSize = 1
    MaxTime = 2
    MaxStarts = 3
    GceZone = "b"
    Zone = "b"
    MaxMoves = 1
    Books = {"configure", "cleanup"}
SYMMETRY Symmetric
INVARIANTS
    TypeOK
    FreshEnough
    InvalidHasCause
    PrintedGroupsAgree
    LoopsReachSettled
    UndefinedHasCause
CHECK_DEADLOCK FALSE
