\* Every call of Update on up to seven leaves.
SPECIFICATION Spec
CONSTANTS
  MaxLeaves = 7
  MaxAdds = 3
  OnesCount64 <- MCOnesCount64
INVARIANTS
  TypeOK
  RootCount
  LoopInv
  RootsMatchForest
  AcceptsTrueClaims
  NewNodesMatchForest
  DeletedNodesMatchForest
  DestroyedRootsAreEmptyRoots
PROPERTIES
  ImplementsAccumulator
