SPECIFICATION Spec
CONSTANTS
  Names = {b1, b2}
  Outside = {x}
  Files = {1, 2}
  Oids = {1, 2}
  Size <- MCSize
  SizeMax = 1
  MaxBranches = 2
  Remotes <- MCRemotes
  None = None
SYMMETRY NameSymmetry
CHECK_DEADLOCK FALSE
INVARIANT TypeOK
INVARIANT BuilderGetsFlattenedTrees
