CONSTANTS
    x = x y = y
    a1 = a1 a2 = a2 a3 = a3 again = again bad = bad
    m1 = m1 m2 = m2 m3 = m3 head = head
    NoTx = NoTx
    Address <- MCAddress
    GenesisState <- MCGenesisState
    Tx <- ChainTx
    Parents <- ChainParents
    Value <- ChainValue
    IndexOf <- ChainIndexOf
    BundleOf <- ChainBundleOf
    Signed <- ChainSigned
    InvalidTail <- ChainInvalidTail
    LastMilestone = 0
    MaxMilestone = 10
    MaxCrashes = 2
    MaxFaults = 1
SPECIFICATION FairSpec
INVARIANTS LedgerMatchesConfirmed ConfirmationInv RebuildSucceeds
PROPERTIES ConfirmationIsFinal ReadersSeeOneLedger 
CHECK_DEADLOCK FALSE
