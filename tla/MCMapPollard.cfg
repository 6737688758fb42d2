\* A MapPollard as tall as its leaves need or taller, with files in between.
SPECIFICATION Spec
CONSTANTS
  InitialRows = {0, 3}
  MaxLeaves = 5
  MaxAdds = 3
  MaxUndo = 1
  MaxWritten = 3
INVARIANTS
  OperationsSucceed
  NodesMatchForest
  CachedLeavesAreRemembered
  ProvesCachedLeaves
  UnneededNodesArePruned
PROPERTIES
  ImplementsAccumulator
