CONSTANTS
    Supply = 10
    BadAddress = {}
    InsecureTags = {1}
    Tags = 3
    MaxFindTransactions = 4
    MaxGetTrytes = 4
    MaxDepth = 3
    RemoteLimitApi = {}
    Uris = {"u", "v"}
    Seed = "seed"
    Retry = 0
    MaxIndex = 3
    MaxFaults = 2
    MaxEvents = 2
    Jobs = {"send", "send_inputs", "send_exact", "promote", "is_promotable", "replay", "get_bundle",
            "broadcast_bundle", "inclusion", "objects", "new_address", "unspent", "account",
            "send_secure", "add_neighbors", "remove_neighbors", "get_neighbors", "get_tips"}
    \* MAM
    Height = {1}
    Recipients <- MCRecipients
    ReceiverTrusts <- MCTrusts
    Checksums = {"none", "mac", "sig"}
    ReceiverPsks <- MCPsks
    ReceiverSks <- MCSks
    MaxChannels = 1
    MaxEndpoints = 1
    MaxHeaders = 2
    MaxPackets = 2
    MaxReads = 2
    MaxWrites = 3
    MaxRestarts = 1
SPECIFICATION Spec
INVARIANTS PreparedIsValid  ReadersGetWhatWasWritten SenderStaysFresh
 
