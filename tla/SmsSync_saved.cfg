SPECIFICATION Spec
CONSTANTS
    Calls = {k1}
    Kinds = {"send", "read", "forget"}
    HasDB = TRUE
    Faults = {"break", "loss"}
    None = none
    Limit = 1
    DedupCap = 1
    MaxSms = 1
    MaxGen = 1
    MaxOwed = 1
    MaxUnread = 1
INVARIANTS CacheIsSaved NoForgottenWaiter
