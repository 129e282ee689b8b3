CONSTANTS
    m1 = m1 m2 = m2 m3 = m3 m4 = m4 m5 = m5 m6 = m6 m7 = m7 a = a u = u
    Tx <- ChainTx
    Parents <- ChainParents
    N = 5
    Coo <- ChainCoo
    Time <- ChainTime
    Valued = {1, 2, 4}
    Spenders = {a}
    MinDepth = 1
    Threshold = 2
    MaxCalc = 3
    MaxDepth = 6
    PruningEnabled = TRUE
    NoFile = NoFile
    TornFile = TornFile
    MaxCrashes = 1
    MaxFaults = 1
SPECIFICATION Spec
INVARIANTS PruningSafety SnapshotsAreExact  SpentIsRecorded
CHECK_DEADLOCK FALSE
