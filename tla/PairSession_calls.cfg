SPECIFICATION Spec
CONSTANTS
    Phones = {p1}
    Socks = {c1}
    Reqs = {r1}
    Outs = {o1}
    None = none
    MaxToken = 2
    Faults = {"write"}
INVARIANTS TokenAgreement
PROPERTIES GoneStaysGone
