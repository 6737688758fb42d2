\* A full Pollard with blocks, undo and restarts, and one that grows and remembers some leaves.
SPECIFICATION Spec
CONSTANTS
  MaxLeaves = 7
  MaxFull = 5
  MaxAdds = 3
  MaxUndo = 1
INVARIANTS
  OperationsSucceed
  HashesMatchForest
  MapFindsLeaves
  PointersAgree
  ProvesEveryLeaf
  ProvesRememberedLeaves
  KeepsOnlyNeededNodes
PROPERTIES
  ImplementsAccumulator
