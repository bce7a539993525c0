CONSTANTS
  Capacity = 3
  Payloads = {x, y}
  Priorities = {0, 1}
  Consumers = {c1, c2}
  PlixCap = 2
  PlixLines = {3, 4}
  MaxPlix = 5
  TestCap = 2
  TestWords = 3
  MaxTests = 2
  Watches = {"a", "b"}
  Machines <- MCMachines
  Chans = {0, 1}
  Devs = {0, 1}
  MaxPowers = 2
  Bits = 3
  Regs = {0, 1, 2}
  Segments = 2
  WatchExprs <- MCWatched
  Asked <- MCAsked
  MachineStates <- MCStates
  WatchCells = {"a", "b", "c"}
  MaxWatchOps = 5
  CfgChans = {0, 1}
  CfgDevs = {0, 1}
  Texts = {"none", "default", "os", "imported", "mera400", "lab", "a", "b", "p"}
  MaxDevices <- MCMaxDevices
  Images = {"p"}
  ConfigFiles <- MCFiles
  Legacies <- MCLegacies
  MaxCfgSteps = 5
  Subdirs = {"AA", "BB"}
  AreaName <- MCAreaName
  WD_MAX_AREAS = 2
  TotalQuanta = 3
  Names = {"a", "b", "c"}
  RawName <- MCRawName
  Sources <- MCSources
  E4_CYLS = 1
  E4_HEADS = 1
  E4_SPT = 2
  MaxSteps = 2
  MX_LINE_CNT = 4
  Group = 2
  Setups <- MCSetups
  Fields <- MCFields
  Words = 6
  Page = 3
  SectorWords = 2
  SPT = 2
  CYLS = 3
  HEADS = 2
  MaxCmds = 3
  Raws = {"F.A", "G.A"}
  Datas <- MCDatas
  MaxTime = 2
  MaxChanges = 2
  Name8 <- MCName8
  Blk = 1
  DataSectors = 3
  MAX_FILES = 2
  Split <- MCSplit
  SSIZE = 2
  A3 = 1
  AK = 5
  FildicSectors = 2
  FILDIC_SLOTS = 3
  Hash <- MCHash
  Base <- MCBase
  GuestDatas <- MCGuestDatas
  Rights = {"AW", "OR"}
  FlpSlots = 4
  FlpHash <- MCFlpHash
  FlpFiles = {"B", "I", "K"}
  FlpLens = {1, 200, 427}
  MaxFlpSteps = 4
SPECIFICATION Spec
INVARIANT HostSound
PROPERTIES ImplementsQueue  LinesSafe 
CHECK_DEADLOCK FALSE
