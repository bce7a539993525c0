SPECIFICATION FairSpec
CONSTANTS
  Lines = {1}
  Commands = {"setcfg", "status", "test", "requeue", "detach"}
  ChanCmds = {"intspec"}
  Runs = {"detach"}
  MemFails = FALSE
  Switches = TRUE
  Capacity <- Ample
  MaxQueue = 1
  MaxAsked = 2
  MaxResets = 0
CHECK_DEADLOCK FALSE
INVARIANTS
  NothingLeft
PROPERTIES
  QuitCompletes
  InterruptSignalled
