SPECIFICATION Spec
CONSTANTS
    q1 = q1
    q2 = q2
    q3 = q3
    t1 = t1
    t2 = t2
    NoRequest = NoRequest
    Threads = {t1, t2}
    Requests = {q1, q2, q3}
    KindOf <- Routes
INVARIANTS
    CountedWithOwnStatus
