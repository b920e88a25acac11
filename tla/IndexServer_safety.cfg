SPECIFICATION Spec
CONSTANTS
  Repos = {r1, r2}
  Handlers = {h1}
  NumCPU = 4
  CPUFractionPct = 25
  MaxCommit = 1
  NumSlots = 2
  MaxListing = 2
  KillsBuilders = FALSE
  None = None
SYMMETRY RepoSymmetry
INVARIANT TypeOK
INVARIANT BuildersWithinBudget
INVARIANT CollectAfterBuilds
PROPERTY OnlyStaleShardsDeleted
