SPECIFICATION Spec
CONSTANTS
  Sessions = {s1, s2}  Seeds = {seedA, seedB}  SeedImage <- SmallSeeds  GuestOps <- SmallOps
  Absent = Absent  SaveCells = {1}  SaveBits = {1}  Nobody = Nobody
  \* A block of two pages, of one cell and two spare cells each; the guest's
  \* addresses also name the block behind the end.
  NandBits = {1}  PageSize = 1  SpareSize = 2  PagesPerBlock = 2  NandPageCount = 2
  BusWidth = 1  LargePage = FALSE  Radix = 2  NandValues = {{}}  Rows = {1}
  MaxCycles = 3  MaxProgram = 1  MaxChanges = 2
  EepromValues = {0, 1}  EepromBlank = 1  Descriptors = {"small", "large", "odd"}  Unknown = "odd"
  EepromCapacity <- SmallCapacity  StrictEnd = TRUE  EepromFiles <- SmallFiles  MaxWrites = 2
  Writes <- SbiWrites  BusReads <- SbiReads
  ConverterWords = {34942, 45568}  AdcValue = 7  Channels = {1, 2}  MaxDc0 = 6
  Window = 3  Hot = 2  Slices = {1, 4}  Probes = {2}  Polls <- LoopPolls  Inert <- InertPolls
  HasLinker = TRUE  MaxSteps = 13
  Pages = {1, 2, 3, 4, 5, 6, 7}  Board <- BoardPages  MemoryValues = {"code", "zero"}
  Code = "code"  Zero = "zero"  Open = "ones"  MaxDynamic = 3  MaxZero = 3
  Keys = {0, 1, 2}  Profiles <- KeyProfiles  Fillers = {0, 255}  MaxEvents = 2
  RegisterWidth = 3  PollLoops <- RegisterLoops
  Word = 2  LoopChunk = 4  Unrolled = 4  Period = 8  Ramp = 3
  RamBase = 0  RamEnd = 12  IramBase = 12  IramEnd = 16  RomBase = 16  RomEnd = 20
  AddressSpace = 22  DataTarget = 2  BssEnd = 8  Slack = 1  Scripts <- LoopScripts
  Width = 4  Counter = 2  Source = 6
  Codes = {"delay", "crc", "adc", "flash id", "probe", "ma2", "patched"}
  Space = 20  LcdBus <- LcdBusAt  LcdIndexed <- LcdIndexedAt  LcdLate <- LcdLateAt
  Msm <- MsmAt  Iram <- IramAt  Straps <- StrapsAt  NandPorts <- NandPortsAt
  UpperNor <- UpperNorAt  TopPage <- TopPageAt  MaxFlash = 4  MaxRam = 6  Configs <- Boards
  Frames = {"black", "a", "b"}  Black = "black"  Plans <- SmallPlans
  ChunkSizes = {0, 2}  MaxPublished = 2
  \* Two cells behind a RAM of two.
  Capacity = 2  RamSize = 2  Base = 4  MaxLog = 2
  Accesses <- FlashAccesses  MaxProbes = 1
  \* Three windows, which may be offered two commits; two on two dumps or on one.
  Windows = {s1, s2, s3}  MaxCommits = 2
  ProfileWindows = {s1, s2}  Firmwares = {"f", "g"}  MaxEdits = 2  MaxGeneration = 1
  PadKeys = {"1", "2"}  Keyboard = {"a", "b"}  Mouse = {"m"}  KeyOf <- KeyOfSource
  PadProfiles <- KeypadProfiles  MatrixEvents = {"e1"}  SidebandEvent <- Producers
  Manual <- OwnByHand  ForeignManual <- ForeignByHand  NoEvent = "none"
  MaxPadEvents = 2  MaxCommands = 2
SYMMETRY SessionSymmetry
CHECK_DEADLOCK FALSE
INVARIANTS TypeOK SavesAreWhole LogsAreImages BusAnswers RunKeepsCadence MemoryAsNative
           NoStuckKey HeldIsDown PressesReachGuest
PROPERTY OnlyBlockEraseSetsBits
