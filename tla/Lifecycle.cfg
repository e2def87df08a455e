\* The process starts, serves, stops, crashes and starts again; an adapter comes and goes.
SPECIFICATION FairSpec
CONSTANTS
    LoopTime = 2
    RestoreTime = 1
    Grace = 4
    DelayMin = 1
    DelayMax = 4
    MayReset = FALSE
    MaxFaults = 5
INVARIANTS TypeOK RestoredOnStop GivenBackByThread
PROPERTIES CapturesAgain ScannerRecovers
CHECK_DEADLOCK FALSE
