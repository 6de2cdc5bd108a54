SPECIFICATION Spec
CONSTANTS
    r1 = r1
    r2 = r2
    p1 = p1
    unknown = unknown
    malformed = malformed
    badtype = badtype
    NoId = NoId
    Replicas = {r1, r2}
    Posts = {p1}
    UnknownIds = {unknown}
    MalformedIds = {malformed}
    Deltas <- VoteTypes
    BadTypes = {badtype}
    Ops = {"vote", "add"}
    Faults = {}
    MaxRequests = 3
    MaxAttempts = 1
SYMMETRY Symmetric
INVARIANTS
    NoLostVote
CHECK_DEADLOCK FALSE
