SPECIFICATION Spec
CONSTANTS
    r1 = r1
    r2 = r2
    p1 = p1
    p2 = p2
    unknown = unknown
    malformed = malformed
    badtype = badtype
    NoId = NoId
    Replicas = {r1, r2}
    Posts = {p1, p2}
    UnknownIds = {unknown}
    MalformedIds = {malformed}
    Deltas <- VoteTypes
    BadTypes = {badtype}
    Ops = {"vote", "add"}
    Faults = {"mongo", "link", "late", "crash"}
    MaxRequests = 5
    MaxAttempts = 1
SYMMETRY Symmetric
INVARIANTS
    TypeOK
    VotesWithinBounds
    LostOnlyToRaces
    PostCountSound
CHECK_DEADLOCK FALSE
