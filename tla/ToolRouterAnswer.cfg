SPECIFICATION Spec
CONSTANTS
    Messages <- MCMessages
    Prompts <- MCPrompts
    Titles = {t1, t2}
    MaxMessages = 2
    MaxSteps = 3
    None = None
PROPERTY AnswerSavesReminder
CHECK_DEADLOCK FALSE
