SPECIFICATION ServedSpec
CONSTANTS
  DevInts = {12}
  PanelInts = {}
  SoftInts = {31}
  Masks <- AllOrNothing
  Requests <- NoRequest
  Locs = {user, handler}
  Handler = handler
  MemFails = FALSE
  CpuMod = FALSE
  ExlDepth = 1
  MaxDepth = 3
  user = user
  handler = handler
PROPERTIES
  ReturnsExactly
  EnabledGetsServed
  NoUnitStarves
CONSTANT   NUnits = 3
CONSTANT   Units = {0, 1, 2}
CONSTANT   Reasons = {1, 5}
CONSTANT   Clearing = {2}
CONSTANT   MaxResets = 0
