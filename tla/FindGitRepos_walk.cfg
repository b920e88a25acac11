SPECIFICATION Spec
CONSTANTS
  Paths <- MCPaths
  Kinds = {"dir", "file", "gone"}
  Panicked = Panicked
  Objects = 3
  None = None
CHECK_DEADLOCK FALSE
INVARIANT TypeOK
INVARIANT FindsOutermostRepos
INVARIANT ReturnsUnlessGitEntryVanished
INVARIANT RepoModTimeReturnsLastRefChange
