\* The arithmetic of positions, and the positions of proofs.
SPECIFICATION Spec
CONSTANTS
  MaxWhole = 16
  MaxLeaves = 8
  MaxHeldIn = 6
  MaxHeld = 2
  ExtraRows = 2
INVARIANTS
  FamilyMatchesTree
  MovingUpIsUndone
  OffsetFindsTree
  TranslationKeepsNodes
  ProofPositionsAreNeeded
  DeTwinIsMaximal
  MissingIsNeededAndUnknown
  AddProofProvesBoth
  SubsetOfSortedProof
