SPECIFICATION Spec
CONSTANTS
    t1 = t1
    t2 = t2
    c1 = c1
    c2 = c2
    NoTask = NoTask
    DefaultKey = DefaultKey
    Tasks = {t1, t2}
    StepsOf <- MCShortSteps
    Conversations = {c1, c2}
    Keys = {DefaultKey}
    TaskTTL = 1
    MaxTime = 0
    Routes = {"chat"}
    Speech = TRUE
    StoreFails = FALSE
SYMMETRY ConversationsAlike
INVARIANTS TypeOK OneTaskPerKey StepsInOrder TaskTrail CardNeverAhead
