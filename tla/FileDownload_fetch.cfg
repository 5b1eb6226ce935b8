SPECIFICATION Spec
CONSTANTS
    Transfers = {t1, t2}
    Handlers = {h1}
    Chunks = 2
    Dirs = {d1, d2}
    None = None
    MaxFaults = 1
SYMMETRY Alike
INVARIANTS WholeUnlessCut NilMeansFile OpenIsRunning
CHECK_DEADLOCK FALSE
