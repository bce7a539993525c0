SPECIFICATION Spec
CONSTANTS
  DevInts = {12}
  PanelInts = {28}
  SoftInts = {}
  Masks <- AllOrNothing
  Requests <- NoMemOrNone
  Locs = {user, handler}
  Handler = handler
  MemFails = TRUE
  CpuMod = TRUE
  ExlDepth = 1
  MaxDepth = 2
  user = user
  handler = handler
INVARIANTS
  FramesSound
  NestingOrdered

  
