SPECIFICATION Spec
CONSTANTS
    WindowTTL = 1
    ReviewTTL = 1
    MaxTime = 2
    MaxListeners = 2
INVARIANTS
    TypeOK
    StatusHonest
    QuestionOfThisRun
    OneMoreAtMost
PROPERTY VoiceStopConfirmed
CHECK_DEADLOCK FALSE
