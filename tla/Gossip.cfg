CONSTANTS
    m = m x = x
    Tx = {m, x}
    Valid = {m}
    Tails = {m}
    Light = {x}
    Digest <- DigestOf
    Neighbors = {1, 2}
    Paired = {2}
    Null = Null Cut = Cut None = None
    Validator = Validator Api = Api
    CacheSize = 1
    HasherMax = 2
    MaxEvents = 3
SPECIFICATION Spec
INVARIANTS RequestsAreServed TransactionsGoOn
CHECK_DEADLOCK FALSE
