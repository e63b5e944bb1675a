SPECIFICATION FairLiveSpec
CONSTANTS
    m1 = m1
    u1 = u1
    k1 = k1
    k2 = k2
    None = None
    Typed <- MCTyped
    Spoken <- MCSpoken
    Clients <- MCClients
    MaxId = 2
    MaxRestarts = 0
    MaxSelects = 1

PROPERTY ClientCatchesUp
CHECK_DEADLOCK FALSE
