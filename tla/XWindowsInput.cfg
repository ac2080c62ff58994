SPECIFICATION Spec
CONSTANTS
  Root = Root
  None = None
  w1 = w1
  w2 = w2
  w3 = w3
  c1 = c1
  c2 = c2
  Ids = {w1, w2}
  Clients = {c1}
  ClientOf <- TreeClientOf
  Masks <- GrabMasks
  Classes = {"INPUT_OUTPUT"}
  Overrides = {FALSE}
  Buttons = {"left"}
  Requests <- InputRequests
INVARIANTS
  TypeOK
  ReferencesLive

  
CHECK_DEADLOCK FALSE
