\* What is pruned after a MapPollard was read back.
SPECIFICATION Spec
CONSTANTS
  InitialRows = {0}
  MaxLeaves = 4
  MaxAdds = 2
  MaxUndo = 0
  MaxWritten = 4
INVARIANTS
  PrunesAfterRestart
