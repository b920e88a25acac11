SPECIFICATION HungSpec
CONSTANTS
  Repos = {r1, r2}
  Handlers = {}
  NumCPU = 4
  CPUFractionPct = 25
  MaxCommit = 1
  NumSlots = 2
  MaxListing = 0
  KillsBuilders = TRUE
  None = None
PROPERTY HungBuilderDelaysOnlyItsRepo
