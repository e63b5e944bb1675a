SPECIFICATION FairSpec
CONSTANTS
    m1 = m1
    m2 = m2
    u1 = u1
    None = None
    Typed <- OneTyped
    Spoken <- MCSpoken
    MaxId = 3
    MaxRestarts = 1
INVARIANTS TypeOK ActiveExists NoOrphanTurns TypedWhole SpokenOnce
PROPERTIES DeletedStaysDeleted EveryExchangeEnds
CHECK_DEADLOCK FALSE
