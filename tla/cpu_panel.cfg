\* The control panel against a running program: every key, the lock, failing
\* memory on a nomem_stop machine, breakpoints.
CONSTANTS
  SpeedReal = TRUE
  NomemStop = TRUE
  ModPresent = TRUE
  MemFails = TRUE
  Keys = {"start", "stop", "lock", "unlock", "clock", "cycle", "bin", "load",
          "store", "fetch", "clear", "power", "oprq", "regload", "refresh"}
  Instrs = {"plain", "hlt", "mcl", "jumpnef", "softint"}
  RmValues = {}
  RzValues <- RzByHand
  DevInts = {}
SPECIFICATION Spec
INVARIANTS HitWhileStopped LatchFollowsSwitch
PROPERTIES LockedPanelIsDead RequestsKept
