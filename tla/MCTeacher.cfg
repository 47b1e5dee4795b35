SPECIFICATION DashboardSpec
CONSTANTS
  Curriculum <- MCCurriculum
  SpineOrder <- MCSpineOrder
  KCPrerequisites <- MCKCPrerequisites
  NoKC <- NO_KC
  Percents <- MCPercents
  MasteryBar = 95
  Backgrounds <- MCBackgrounds
  Facts <- MCFacts
  Histories <- MCHistories
  Studied <- MCStudied
  Teachers <- MCTeachers
  Roster <- MCRoster
  AssignedUnits <- MCAssignedUnits
  MaxAnswers = 5
  MaxDays = 2
  MaxAssignments = 3
CONSTRAINT Explored
INVARIANTS
  AlarmWearsOff
  TrendsAgree
  CurrentLessonIsOpen
  LatestIsShown
PROPERTY
  RightAnswerRaisesNoAlarm
CHECK_DEADLOCK FALSE
