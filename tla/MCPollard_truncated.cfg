\* A file of a full Pollard that was cut short.
SPECIFICATION Spec
CONSTANTS
  MaxLeaves = 4
  MaxFull = 4
  MaxAdds = 2
  MaxUndo = 0
INVARIANTS
  TruncatedFileIsRefused
