SPECIFICATION UFirstSpec
CONSTANTS
  MaxLeaves = 2
  MaxAdds = 2
  MaxUndo = 1
  MaxUndoLeaves = 2
  OnesCount64 <- MCOnesCount64
INVARIANTS
  UndoForgetsAddedLeaves
