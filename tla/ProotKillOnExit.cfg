SPECIFICATION Spec
CONSTANTS
  Nobody = Nobody
  Any = Any
  main = main
  guest1 = guest1
  guest2 = guest2
  Pids = {main, guest1, guest2}
  Main = main
  KillOnExit = TRUE
  MaxKills = 0
  Menu <- Menus
INVARIANTS
  KilledOnExit
CHECK_DEADLOCK FALSE
