SPECIFICATION Spec
CONSTANTS
  Repos = {r1, r2}
  Handlers = {}
  NumCPU = 8
  CPUFractionPct = 25
  MaxCommit = 2
  NumSlots = 2
  MaxListing = 0
  KillsBuilders = TRUE
  None = None
SYMMETRY RepoSymmetry
PROPERTY ShardNeverRegresses
PROPERTY ImplementsShardSync
