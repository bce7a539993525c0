CONSTANTS
  NUnits = 2
  Units = {0, 1}
  Reasons = {0, 1, 3, 4, 5}
  Clearing = {1}
  MaxResets = 1
  Unit = 0
  Typeable = {k}
  Nul = nul
  FifoLen = 1
  BufSize = 2
  Burst = 1
  MaxTyped = 2
  MaxWritten = 2
  FxUnit = 1
  TrackCnt = 2
  TrackLast = 1
  SectorsPerTrack = 2
  BlkSize = 2
  Addresses <- MCAddresses
  Followed = {"write", "detach"}
  MaxSecond = 1
  MaxMinute = 1
  MaxHour = 0
  MonthDays <- MCMonthDays
  Keys <- MCKeys
SPECIFICATION Spec
INVARIANTS CommandsAnswered NothingStalls DataIntact
PROPERTIES DriveKept ClockCounts
