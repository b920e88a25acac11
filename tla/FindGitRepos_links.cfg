SPECIFICATION Spec
CONSTANTS
  Paths <- MCPaths
  Kinds = {"dir", "file", "checkout"}
  Objects = 3
  None = None
  Panicked = Panicked
CHECK_DEADLOCK FALSE
INVARIANT FindsOutermostRepos
