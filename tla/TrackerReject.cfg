CONSTANTS
    x = x y = y
    a1 = a1 a2 = a2 a3 = a3 again = again bad = bad
    m1 = m1 m2 = m2 m3 = m3 head = head
    NoTx = NoTx
    Address <- MCAddress
    GenesisState <- MCGenesisState
    Tx <- RejectTx
    Parents <- RejectParents
    Value <- RejectValue
    IndexOf <- RejectIndexOf
    BundleOf <- RejectBundleOf
    Signed <- RejectSigned
    InvalidTail <- RejectInvalidTail
    LastMilestone = 0
    MaxMilestone = 10
    MaxCrashes = 1
    MaxFaults = 0
SPECIFICATION Spec
INVARIANTS
    TypeOK SupplyConserved TipViewIsExact InvalidNeverConfirmed CheckConsistencyOfPairs
CHECK_DEADLOCK FALSE
