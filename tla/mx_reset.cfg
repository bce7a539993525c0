SPECIFICATION Spec
CONSTANTS
  Lines = {1}
  Commands = {"setcfg", "status", "requeue", "err"}
  ChanCmds = {"reset", "mcl", "intspec"}
  Runs = {}
  MemFails = FALSE
  Switches = FALSE
  Capacity = 2
  MaxQueue = 1
  MaxAsked = 2
  MaxResets = 1
CHECK_DEADLOCK FALSE
PROPERTIES
  ImplementsMailbox
  ResetStartsAfresh
