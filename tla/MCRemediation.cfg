SPECIFICATION Spec
CONSTANTS
  KC <- IntegerKC
  Built <- MCBuilt
  Slips <- TwoSlips
  LiveReps <- MCLiveReps
  ErrorRoutes <- MCErrorRoutes
  RemediationRouting <- MCRemediationRouting
  MagnitudeFlavored = {}
  OperationFlavored <- MCOperationFlavored
  ErrorFinding <- MCErrorFinding
  FadeStreak = 1
  StuckErrors = 1
  MinAttempts = 0
  MinRepresentations = 2
  InterleaveCadence = 1
  RampStep = 1
  MaxDifficulty = 2
  GateK = 1
  LessonRampMin = 1
  ProbeCooldown = 1
  MaxHints = 1
  IndexCap = 3
  Rotation = 2
  Proactive = FALSE
  TrustworthyKCs <- IntegerKC
INVARIANTS
  ScreenIsJudged
  OneLevelDown
PROPERTIES
  ConfirmedByWholeProbe
  ParentPausesNeverResets
  CompletesOnce
  HintsStartOver
  ImplementsGate
