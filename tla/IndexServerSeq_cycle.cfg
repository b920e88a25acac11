SPECIFICATION FairSpec
CONSTANTS
  Repos = {r1, r2}
  NumCPU = 1
  CPUFractionPct = 25
  MaxCommit = 2
  MaxListing = 2
  None = None
INVARIANT TypeOK
PROPERTY ImplementsShardSync
PROPERTY EventuallySynchronized
