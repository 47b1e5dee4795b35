\* Two requests at a time, one restart: every property that holds.
SPECIFICATION FairSpec
CONSTANTS
    Handlers = {h1, h2}
    Lessons = {goal, prereq}
    Goal = goal
    NoLesson = NoLesson
    MaxCalls = 3
    MaxRestarts = 1
INVARIANTS
    TypeOK
    StoredWasEarned
    IndexesRepeatOnlyAfterLoss
    QuietPageAgrees
PROPERTIES
    StoredConfirmationStays
    EveryAnswerReturns
CHECK_DEADLOCK FALSE
