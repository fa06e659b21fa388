CONSTANTS
    Message = {m1, m2, m3}
    Publisher = {p, q}
    NoOne = NoOne
    Limit = 2
    MaxFailures = 1
SPECIFICATION FairSpec
INVARIANTS
    TypeOK
    RepeatsHaveACause
PROPERTIES
    ImplementsAtLeastOnce
    EveryMessagePublished
