SPECIFICATION FairSpec
CONSTANTS
    Phones = {p1}
    Socks = {c1, c2}
    Reqs = {}
    Outs = {}
    None = none
    MaxToken = 1
    Faults = {}
INVARIANTS TypeOK NoStraySocket
PROPERTIES BrokenSocketDeregisters
