\* A Pollard that is not full, when a remembered leaf is deleted.
SPECIFICATION SparseSpec
CONSTANTS
  MaxLeaves = 5
  MaxFull = 0
  MaxAdds = 2
  MaxUndo = 0
INVARIANTS
  OperationsSucceed
