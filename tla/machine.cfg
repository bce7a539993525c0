CONSTANTS
  NModules = 2
  NSegments = 2
  NPages = 2
  MegaFrames = 4
  ElwroFrames = 2
  InCommands <- MCInCommands
  Configs <- MCConfigs
  PageSize = 2
  MaxPower = 2
  Cases <- MCSome
  Values <- MCValues
  Leftover <- MCValues
  Memory0 <- MCMemory
  IoIllegal = TRUE
  Half = 32768
SPECIFICATION Spec
INVARIANTS MemorySound 
PROPERTIES ResetsKept ArithmeticTrue BytesApart
CHECK_DEADLOCK FALSE
