SPECIFICATION Spec
CONSTANTS
    Calls = {k1}
    Kinds = {"threads", "messages"}
    HasDB = FALSE
    Faults = {"retry"}
    None = none
    Limit = 1
    DedupCap = 1
    MaxSms = 2
    MaxGen = 1
    MaxOwed = 1
    MaxUnread = 3
INVARIANTS TypeOK PushesCountedOnce CacheFollowsPhone NoDuplicateRows
