CONSTANTS
    Parts = {"pipeline"}
    \* the link
    Nodes = {1, 2}
    MaxConns = 2 MaxInbox = 2 MaxLinkFails = 1 MaxRestarts = 1 MaxResets = 1
    \* the reader
    Header = 2
    Lengths = {1, 2, 4}
    MaxPackets = 3
    MaxPiece = 9
    \* the pipeline
    Order <- PipelineOrder
    Feeds <- PipelineFeeds
    Batch <- PipelineBatch
    Entry = "processor"
    None = "none"
    Chatter = FALSE
    MaxItems = 1 MaxQueue = 1 MaxFailures = 0
    \* the process
    Given = {"config", "help", "mwm", "remote_limit_api",
             "coordinator_address",
             "local_snapshots_enabled", "local_snapshots_pruning_enabled"}
    Jsons = {0, 9}
    MaxArgs = 2
    MaxEntries = 1
    API_ENDPOINTS_NUM = 2
    MaxFails = 1
    \* the request for tips
    x = x y = y m = m old = old b0 = b0 b1 = b1 b2 = b2 pay = pay repay = repay late = late
    Genesis = Genesis NoTx = NoTx
    Address <- MCAddress
    Tx <- MCTx
    Parents <- MCParents
    Trunk <- MCTrunk
    Branch <- MCBranch
    CurrentIndex <- MCCurrentIndex
    BundleOf <- MCBundleOf
    SnapshotIndex <- MCSnapshotIndex
    MilestoneAt <- MCMilestoneAt
    Value <- MCValue
    Ledger <- MCLedger
    InvalidTail = {}
    LatestSolid = m
    LatestSolidIndex = 3
    Confirmed = {m, old}
    Depths = {0, 1}
    References = {NoTx, b0, pay}
    MaxDepth = 1
    BelowMaxDepthLimit = 5
SPECIFICATION Spec
PROPERTY ItemsGetThrough
CHECK_DEADLOCK FALSE
