SPECIFICATION Spec
CONSTANTS
    r1 = r1
    t1 = t1
    p1 = p1
    NoOne = NoOne
    Replicas = {r1}
    Tabs = {t1}
    Posts = {p1}
    Votes = {}
    Comments = {}
INVARIANTS
    SuccessIsTrue
