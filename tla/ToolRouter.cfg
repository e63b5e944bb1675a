SPECIFICATION Spec
CONSTANTS
    Messages <- MCMessages
    Prompts <- MCPrompts
    Titles = {t1, t2}
    MaxMessages = 2
    MaxSteps = 3
    None = None
SYMMETRY TitlesAlike
INVARIANTS OneConsentPerMessage NothingUnreported
PROPERTY TimesComeFromTheUser
CHECK_DEADLOCK FALSE
