SPECIFICATION Spec
CONSTANTS
  Nobody = Nobody
  Any = Any
  main = main
  guest1 = guest1
  guest2 = guest2
  Pids = {main, guest1, guest2}
  Main = main
  KillOnExit = FALSE
  MaxKills = 1
  Menu <- Menus
INVARIANTS
  TypeOK
  TraceesCounted
  NobodyForgotten
CHECK_DEADLOCK FALSE
