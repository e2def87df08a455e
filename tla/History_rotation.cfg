\* The file has been over its cap once.
SPECIFICATION Spec
CONSTANTS
    u1 = u1  u2 = u2  None = None
    UasIds = {u1}
    Debounce = 1
    Retention = 2
    FileCap = 1
    StatsTtl = 1
    Boot = 1
    MaxTime = 4
    RxUntil = 3
    MaxChanges = 3
    MayFail = TRUE
    MayStop = FALSE
    AskStats = FALSE
PROPERTIES RotatesOnlyWhenOver
