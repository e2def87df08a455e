\* The Bluetooth controller is reset under a running scan.
SPECIFICATION FairSpec
CONSTANTS
    LoopTime = 2
    RestoreTime = 1
    Grace = 4
    DelayMin = 1
    DelayMax = 4
    MayReset = TRUE
    MaxFaults = 1
PROPERTY ScannerRecovers
CHECK_DEADLOCK FALSE
