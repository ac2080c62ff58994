SPECIFICATION FairSpec
CONSTANTS
  Requests <- WithSetup
  HeaderSize = 2
  InitialCapacity = 4
INVARIANTS
  TypeOK
  NothingLost
  FdsPaired
  
PROPERTIES
  DeliversInOrder
  
CHECK_DEADLOCK FALSE
