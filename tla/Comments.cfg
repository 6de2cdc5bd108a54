SPECIFICATION FairSpec
CONSTANTS
    t1 = t1
    t2 = t2
    c1 = c1
    c2 = c2
    lower = lower
    upper = upper
    junk = junk
    NoId = NoId
    Threads = {t1, t2}
    Comments = {c1, c2}
    Spellings = {lower, upper, junk}
    Canonical <- Spelled
    Faults = {"mongo", "link", "crash"}
    MaxRequests = 3
    MaxRestarts = 1
INVARIANTS
    TypeOK
    ListingComplete
    CommentCountSound
    ToldTheTruth
PROPERTIES
    RequestsEnd
CHECK_DEADLOCK FALSE
