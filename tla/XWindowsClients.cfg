SPECIFICATION Spec
CONSTANTS
  Root = Root
  None = None
  w1 = w1
  w2 = w2
  w3 = w3
  c1 = c1
  c2 = c2
  Ids = {w1, w2, w3}
  Clients = {c1, c2}
  ClientOf <- PairClientOf
  Masks <- TreeMasks
  Classes = {"INPUT_OUTPUT", "INPUT_ONLY", "COPY_FROM_PARENT"}
  Overrides = {FALSE}
  Buttons = {}
  Requests <- ClientRequests
INVARIANTS
  DrawablesMatch
  ResourcesOwned
  TreeWellFormed
CHECK_DEADLOCK FALSE
