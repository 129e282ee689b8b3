CONSTANTS
    e = e a = a b = b c = c
    Tx <- DiamondTx
    Parents <- DiamondParents
    Trunk <- DiamondTrunk
    Branch <- DiamondBranch
    EntryPoints = {e}
    validator = validator
    api = api
    Writers = {validator}
    Milestones = {b, c}
    Limit = 1
    TipsCapacity = 2
    QueueSize = 1
    Propagation = Propagation
    NoTx = NoTx
    MaxCrashes = 0
    MaxFaults = 0
SPECIFICATION FairSpec
INVARIANTS TipsAreUnapproved
PROPERTIES  MilestonesAreFetched
CHECK_DEADLOCK FALSE
