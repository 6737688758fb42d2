SPECIFICATION UEmptyRootsSpec
CONSTANTS
  MaxLeaves = 4
  MaxAdds = 2
  MaxUndo = 1
  MaxUndoLeaves = 4
  OnesCount64 <- MCOnesCount64
INVARIANTS
  UndoKeepsOlderLeaves
