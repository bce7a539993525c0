SPECIFICATION Spec
CONSTANTS
  Lines = {1}
  Commands = {"setcfg", "attach", "transmit", "detach", "abort", "status"}
  ChanCmds = {}
  Runs = {"attach", "transmit", "detach", "abort"}
  MemFails = TRUE
  Switches = FALSE
  Capacity <- Ample
  MaxQueue = 2
  MaxAsked = 3
  MaxResets = 0
CHECK_DEADLOCK FALSE
INVARIANTS
  AnswersSound
PROPERTIES
  RejectedOnlyIfBusy
