CONSTANTS
    e = e a = a b = b c = c
    Tx <- PairTx
    Parents <- PairParents
    Trunk <- PairTrunk
    Branch <- PairBranch
    EntryPoints = {e}
    validator = validator
    api = api
    Writers = {validator, api}
    Milestones = {b}
    Limit = 1
    TipsCapacity = 2
    QueueSize = 1
    Propagation = Propagation
    NoTx = NoTx
    MaxCrashes = 1
    MaxFaults = 1
SPECIFICATION Spec
INVARIANTS SolidifierSafety
CHECK_DEADLOCK FALSE
