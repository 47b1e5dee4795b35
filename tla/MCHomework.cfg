\* Two requests in flight, lost calls and a restart.
SPECIFICATION FairSpec
CONSTANTS
    ItemCount = 2
    Calls = {c1, c2}
    MaxLosses = 2
    MaxRestarts = 1
INVARIANTS
    TypeOK
    VerdictIsOfConfirmed
PROPERTIES
    SentPagesAreShown
CHECK_DEADLOCK FALSE
