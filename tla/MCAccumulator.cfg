\* Blocks, caching and undoing in any order.
SPECIFICATION Spec
CONSTANTS
  MaxLeaves = 4
  MaxAdds = 2
  MaxUndo = 2
INVARIANTS
  CachedLeavesAreLive
  LogIsAHistory
