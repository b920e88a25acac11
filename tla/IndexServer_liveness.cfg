SPECIFICATION FairSpec
CONSTANTS
  Repos = {r1, r2}
  Handlers = {}
  NumCPU = 1
  CPUFractionPct = 25
  MaxCommit = 1
  NumSlots = 2
  MaxListing = 0
  KillsBuilders = FALSE
  None = None
PROPERTY EventuallySynchronized
PROPERTY EveryCycleEnds
