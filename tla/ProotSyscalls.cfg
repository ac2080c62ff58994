SPECIFICATION Spec
CONSTANTS
  None = None
  Kinds <- AllKinds
  LaterKinds <- Representative
  HandlerKinds = {"openat", "open", "stat"}
  Hosts <- AllHosts
  MaxCalls = 2
  MaxSignals = 2
INVARIANTS
  TypeOK
  AnsweredOnce
  HostPathsOnly
  StagesInSync
  AnsweredInTime
  SignalKept
CHECK_DEADLOCK FALSE
