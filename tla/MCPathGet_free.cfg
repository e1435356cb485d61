SPECIFICATION Spec
CONSTANTS
  Dirs <- MCDirs
  Base = "base"
  Outside = "outside"
  Names <- MCNames
  Trees <- MCTrees
  Paths <- MCPaths
  Targets <- MCTargets
  MaxFds = 3
  MaxPaths = 3
  MaxExpansions = 5
  MaxHandles = 3
  Changing <- MCChanging
INVARIANT
  FreesAreValid
