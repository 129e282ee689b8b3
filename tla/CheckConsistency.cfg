CONSTANTS
    x = x y = y
    a1 = a1 a2 = a2 a3 = a3 again = again bad = bad
    m1 = m1 m2 = m2 m3 = m3 head = head
    NoTx = NoTx
    Address <- MCAddress
    GenesisState <- MCGenesisState
    Tx <- TransferTx
    Parents <- TransferParents
    Value <- TransferValue
    IndexOf <- TransferIndexOf
    BundleOf <- TransferBundleOf
    Signed <- TransferSigned
    InvalidTail <- ChainInvalidTail
    LastMilestone = 0
    MaxMilestone = 10
    MaxCrashes = 0
    MaxFaults = 0
SPECIFICATION Spec
INVARIANTS
    CheckConsistencyIsSound
CHECK_DEADLOCK FALSE
