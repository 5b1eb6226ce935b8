INIT MCInit
NEXT Next
CONSTANTS
  Calls = {k1, k2}
  MaxContact = 5
  Limit = 2
  Fold <- MCFold
  Name <- MCName
  None = none
  MaxEdits = 1
  MaxReqs = 2
  MaxFaults = 1
SYMMETRY CallSymmetry
CHECK_DEADLOCK FALSE
INVARIANTS NoDuplicateRows RowsAreCurrent CacheIsWhole DirectoryIsSaved DeletedOnPhone NoForgottenCall
