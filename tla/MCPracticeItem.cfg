SPECIFICATION Spec
CONSTANTS
  Served <- AllLessons
  MaxHints = 3
  SampleSizes = {3, 4}
  SpreadSlack = 3
  GridBound = 3
  RegisterLengths = {2, 3}
  RegisterCents = {0, 3}
INVARIANTS
  TypeOK
  RightAnswerCanBeGiven
  SlipIsDiagnosed
  SlipIsRouted
  WorkedEndsOnAnswer
  HintsKeepAnswer
