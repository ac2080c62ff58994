SPECIFICATION Spec
CONSTANTS
  ui = ui
  timer = timer
  InputThreads <- MCInputThreads
  Running <- MCRunning
  None = None
INVARIANTS
  NoDeadlock
