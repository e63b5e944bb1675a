SPECIFICATION Spec
CONSTANTS
  k1 = k1
  tea = tea
  teaTime = teaTime
  None = None
  Keys <- MCKeys
  Titles <- MCTitles
  Contains <- MCContains
  ListLimit = 2
  MaxReminders = 2
  MaxEvents = 1
  ContextTTL = 2
  QuestionTTL = 1
  MaxTime = 2
INVARIANT TypeOK
PROPERTIES DeletedWasNamed EventsByConsent
