\* Sleep, wake-up and power: HLT, START and CLEAR, requests from two threads,
\* binary loads that never end, power cycles.
CONSTANTS
  SpeedReal = FALSE
  NomemStop = FALSE
  ModPresent = TRUE
  MemFails = FALSE
  Keys = {"start", "clock", "bin", "clear", "power"}
  Instrs = {"setmask", "hlt", "skip", "md", "cron"}
  RmValues <- OpenClosed
  RzValues = {}
  DevInts = {12}
SPECIFICATION FairSpec
INVARIANTS TypeOK NoLostWakeup WaitIsWakeable
PROPERTIES  OffHonoured BinBreaksFree
