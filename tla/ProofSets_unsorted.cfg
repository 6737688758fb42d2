\* The subset of a proof whose targets are in descending order.
SPECIFICATION Spec
CONSTANTS
  MaxWhole = 4
  MaxLeaves = 4
  MaxHeldIn = 4
  MaxHeld = 3
  ExtraRows = 2
INVARIANTS
  SubsetOfUnsortedProof
