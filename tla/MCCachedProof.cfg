\* The light client: blocks, changes of the cache, and blocks that are undone.
SPECIFICATION USpec
CONSTANTS
  MaxLeaves = 6
  MaxAdds = 3
  MaxUndo = 1
  MaxUndoLeaves = 5
  OnesCount64 <- MCOnesCount64
INVARIANTS
  CachesWantedLeaves
  CachedProofIsCurrent
