SPECIFICATION Spec
CONSTANTS
  Curriculum <- MCCurriculum
  SpineOrder <- MCSpineOrder
  KCPrerequisites <- MCKCPrerequisites
  NoKC <- NO_KC
  Percents <- MCPercents
  MasteryBar = 95
  Backgrounds <- MCBackgrounds
  MaxAnswers = 2
  MaxDays = 2
INVARIANTS
  TypeOK
  PlanFollowsMap
  ALessonIsOpen
PROPERTY
  ProgressIsKept
CHECK_DEADLOCK FALSE
