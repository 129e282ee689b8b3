CONSTANTS
    m1 = m1 m2 = m2 m3 = m3 m4 = m4 m5 = m5 m6 = m6 m7 = m7 a = a u = u
    Tx <- ChainTx
    Parents <- ChainParents
    N = 5
    Coo <- ChainCoo
    Time <- ChainTime
    Valued = {1, 2, 3, 4, 5}
    Spenders = {a}
    MinDepth = 1
    Threshold = 1
    MaxCalc = 3
    MaxDepth = 6
    PruningEnabled = TRUE
    NoFile = NoFile
    TornFile = TornFile
    MaxCrashes = 0
    MaxFaults = 0
SPECIFICATION FairSpec
PROPERTIES
    SnapshotsAdvance
CHECK_DEADLOCK FALSE
