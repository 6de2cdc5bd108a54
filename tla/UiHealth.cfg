SPECIFICATION FairSpec
CONSTANTS
    s1 = s1
    s2 = s2
    Slots = {s1, s2}
    Deps <- UiDeps
    Faults = {"mongo", "service", "hang", "crash"}
    MaxCrashes = 1
INVARIANTS
    TypeOK
    AgreeUnlessOverlapped
PROPERTIES
    Settles
