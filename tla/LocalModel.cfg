SPECIFICATION FairSpec
CONSTANTS
    loop = loop
    v1 = v1
    v2 = v2
    m1 = m1
    m2 = m2
    None = None
    Unknown = unknown
    Loop = loop
    Workers <- MCWorkers
    Models <- MCModels
    DefaultModel = m1
    MaxSelects = 2
    MaxRequests = 4
INVARIANT QuietSelectServes
PROPERTY EveryRequestAnswered
CHECK_DEADLOCK FALSE
