SPECIFICATION FairSpec
CONSTANTS
    t1 = t1
    t2 = t2
    c1 = c1
    c2 = c2
    NoTask = NoTask
    DefaultKey = DefaultKey
    Tasks = {t1, t2}
    StepsOf <- MCShortSteps
    Conversations = {c1}
    Keys = {c1, DefaultKey}
    TaskTTL = 1
    MaxTime = 1
    Routes = {"card"}
    Speech = FALSE
    StoreFails = TRUE
INVARIANTS
    ExecutedMeansDone
PROPERTIES
    ImplementsSlots
    KeyFreed
