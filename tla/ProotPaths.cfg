SPECIFICATION Spec
CONSTANTS
  None = None
  x = x
  y = y
  Fixed <- Directories
  Spare = {x, y}
  Bindings <- Binds
  UserPaths <- Paths
  Places <- Simple
  Targets <- Contents
  MaxLinks = 6
  MaxDepth = 3
INVARIANTS
  SameFile
  CwdFollows
