SPECIFICATION Spec
CONSTANTS
    b1 = b1
    b2 = b2
    n1 = n1
    w1 = w1
    w2 = w2
    p1 = p1
    p2 = p2
    Nobody = Nobody
    Browsers = {b1, b2}
    Names = {n1}
    Passwords = {w1, w2}
    Posts = {p1, p2}
    Deltas <- VoteTypes
    Faults = {"mongo", "link", "late"}
    MaxRequests = 7
INVARIANTS
    TypeOK
    SessionsAreProved
    LostOnlyToRaces
PROPERTIES
    AccountsKeepPasswords
CHECK_DEADLOCK FALSE
