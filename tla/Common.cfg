CONSTANTS
    tx0 = tx0
    tx1 = tx1
    mil0 = mil0
    a = a
    co = co
    conn1 = conn1
    conn2 = conn2
    Tx <- MCTx
    AddressOf <- MCAddressOf
    BundleOf <- MCBundleOf
    TagOf <- MCTagOf
    ValueOf <- MCValueOf
    CurrentIndexOf <- MCCurrentIndexOf
    LastIndexOf <- MCLastIndexOf
    TrunkOf <- MCTrunkOf
    BranchOf <- MCBranchOf
    Coordinator = co
    NoDelta = NoDelta
    Connection = {conn1, conn2}
    Writes <- MCWrites
    Queries <- MCQueries
    Databases <- MCDatabases
    Capacity = 1
    MaxCalls = 2
    MaxFaults = 1
    \* the algorithms
    Width = 8
    Steps = {1, 5, 40, 400}
    Encodings = {1, 3, 4, 5}
    Lengths = {6, 11}
    MaxChanges = 1
    Heights = {0, 1, 2, 3, 4}
    Rate = 3
    SpongeCapacity = 3
    Texts = {0, 1, 3, 4, 8}
    MaxSpongeCalls = 3
    TryteValues <- MCTryteValues
    FRAGMENT_LENGTH = 3
    SECURITY_LEVEL = 2
    HASH_TRYTES = 2
    BaseSizes = {0, 1, 2, 3, 4, 8, 16}
    NumCtxs = 2
    Counts = {1, 2}
    StartIndices = {13}
    Worst = 2
    TagTrits = 4
    HashLength = 3
    Rounds = 3
    PtritSize = 2
    NonceTrits = 3
    Cpus = {1, 2}
    Targets <- MCTargets
    Blocks <- MCBlocks
    IntBits = 16
    Numbers = {1094, 40000}
    NUM_ROUNDS = 2
    RoundConstant <- MCRoundConstant
    TroikaLengths = {0, 242, 250}
    MaxTroikaCalls = 2
SPECIFICATION Spec
INVARIANTS  SpongesAgree SignaturesVerify 
PROPERTIES ImplementsStorage CallsReturn
CHECK_DEADLOCK FALSE
