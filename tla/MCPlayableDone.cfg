SPECIFICATION Spec
CONSTANTS
  Curriculum <- MCCurriculum
  SpineOrder <- MCSpineOrder
  KCPrerequisites <- MCKCPrerequisites
  NoKC <- NO_KC
  Percents <- MCPercents
  MasteryBar = 95
  Backgrounds <- MCAlmostThere
  MaxAnswers = 2
  MaxDays = 2
INVARIANT PlayableDoneIsMastered
CHECK_DEADLOCK FALSE
