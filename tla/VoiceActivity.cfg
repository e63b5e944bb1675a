SPECIFICATION Spec
CONSTANTS
    Setups <- MCSetups
    MaxFrame = 12
INVARIANTS
    SpeechKept
    UtteranceExact
CHECK_DEADLOCK FALSE
