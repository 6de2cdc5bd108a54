SPECIFICATION FairSpec
CONSTANTS
    r1 = r1
    r2 = r2
    t1 = t1
    t2 = t2
    p1 = p1
    v1 = v1
    c1 = c1
    NoOne = NoOne
    Replicas = {r1, r2}
    Tabs = {t1, t2}
    Posts = {p1}
    Votes = {v1}
    Comments = {c1}
INVARIANTS
    TypeOK
    ShownOnce
    NothingLost
PROPERTIES
    Reported
