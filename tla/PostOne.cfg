SPECIFICATION FairSpec
CONSTANTS
    r1 = r1
    p1 = p1
    p2 = p2
    unknown = unknown
    malformed = malformed
    badtype = badtype
    NoId = NoId
    Replicas = {r1}
    Posts = {p1, p2}
    UnknownIds = {unknown}
    MalformedIds = {malformed}
    Deltas <- VoteTypes
    BadTypes = {badtype}
    Ops = {"vote", "add", "list", "show"}
    Faults = {"mongo", "stall", "link", "zipkin", "hang", "crash"}
    MaxRequests = 5
    MaxAttempts = 1
INVARIANTS
    NoLostVote
    LoggedSuccessIsTrue
PROPERTIES
    ImplementsBoard
    WritesEnd
    ReadsEnd
CHECK_DEADLOCK FALSE
