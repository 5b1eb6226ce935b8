SPECIFICATION Spec
CONSTANTS
  Callers = {c1, c2}
  Readers = {r1, r2}
  Http = http
  None = None
  MaxTime = 2
  MaxEdits = 2
  MaxFaults = 2
SYMMETRY Symmetry
CHECK_DEADLOCK FALSE
INVARIANTS Agree FileKeepsChoice NothingStuck
