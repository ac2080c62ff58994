SPECIFICATION Spec
CONSTANTS
  Root = Root
  None = None
  w1 = w1
  w2 = w2
  w3 = w3
  c1 = c1
  c2 = c2
  Ids = {w1, w2}
  Clients = {c1, c2}
  ClientOf <- PairClientOf
  Masks <- ListenMasks
  Classes = {"INPUT_OUTPUT"}
  Overrides = {FALSE}
  Buttons = {"left"}
  Requests <- GrabRequests
INVARIANTS
  GrabViewable
  ImplicitGrabEnds
  ListenersSound
CHECK_DEADLOCK FALSE
