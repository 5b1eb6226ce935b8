SPECIFICATION FairSpec
CONSTANTS
    Transfers = {t1}
    Calls = {c1}
    Kinds = {"block", "pipe", "tab"}
    Chunks = 2
    AckPeer = TRUE
    None = None
    MaxVersion = 3
    MaxFaults = 1
    MaxRetries = 1
    MaxQueue = 3
INVARIANTS DoneIsDelivered NoSplice
PROPERTIES ImplementsDelivery UploadSettles
CHECK_DEADLOCK FALSE
