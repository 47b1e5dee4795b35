SPECIFICATION Spec
CONSTANTS
  KC <- FoundationKC
  Built <- MCBuilt
  Slips <- WrongCategory
  LiveReps <- MCLiveReps
  ErrorRoutes <- MCErrorRoutes
  RemediationRouting <- MCRemediationRouting
  MagnitudeFlavored = {}
  OperationFlavored <- MCOperationFlavored
  ErrorFinding <- MCErrorFinding
  FadeStreak = 2
  StuckErrors = 2
  MinAttempts = 5
  MinRepresentations = 2
  InterleaveCadence = 3
  RampStep = 2
  MaxDifficulty = 4
  GateK = 1
  LessonRampMin = 10
  ProbeCooldown = 3
  MaxHints = 0
  IndexCap = 12
  Rotation = 2
  Proactive = TRUE
  TrustworthyKCs <- FoundationKC
INVARIANTS
  TypeOK
  ProbeIsEarned
  RampWalked
  SurfaceMatchesCounters
