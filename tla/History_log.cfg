\* A drone is logged while the cleanup thread prunes; inserts fail, the program
\* stops, and in the end nothing is heard any more.
SPECIFICATION FairSpec
CONSTANTS
    u1 = u1  u2 = u2  None = None
    UasIds = {u1}
    Debounce = 2
    Retention = 1
    FileCap = 1
    StatsTtl = 2
    Boot = 2
    MaxTime = 6
    RxUntil = 4
    MaxChanges = 2
    MayFail = TRUE
    MayStop = TRUE
    AskStats = TRUE
INVARIANTS TypeOK SpacedWrites StatsFresh
PROPERTIES KeptWhileYoung EventuallyPruned
CHECK_DEADLOCK FALSE
