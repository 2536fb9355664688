SPECIFICATION Spec
CONSTANTS
  Fifos = {0}  LineRegisters = {1, 2}  FifoLimit = 2  SnapshotLimit = 2  LineBytes = {0, 1}
  Timebases = {1, 9}  KnownTimebases = {1}  Radix = 2  MaxBuffers = 2
  MaxNotes = 2  MaxEpochs = 2  MaxRequests = 3
  HoldWidth = 1  HoldHeight = 2  HoldSpan = 1  HoldBytes <- SmallBytes  Wide = 256
  Panels <- SmallPanels  FrameFirst <- Upright  Sources = {"auto-default", "external-config"}
  HasFramebuffer = TRUE  MaxFrames = 2
  SplitPrefixes <- SplitSetups  SplitBytes = 2  RasterRows = 2  RowBytes = 2
  BootCommands <- BootSetup  BootBytes = 2  Width = 2  Height = 2  MinPixels = 2
  Grammars = {"split", "raster", "boot", "window", "selector"}
  RowWords = 1  ReplayLow = 1  RefreshOrder <- SmallRefresh  Words = {0, 3584}
  ReplayCommands = {5, 16, 17, 18, 4, 176, 177}
  HalfPages = 1  Pages = 2  Columns = 1  WidthHint = 1  PagePanels <- UprightPanels  MaxData = 2
  Modulus = 2  StreamFirst <- Flat  MinSpan = 1  Commands = {22, 23, 32, 34, 44}  MaxWrites = 8
  RawPanels = {2, 3}  RawFirst = 3  Proving = 2  LowWords = 1  MaxWords = 3
  EventsOf <- ScoreEvents  MarksOf <- ScoreMarks
  MsDuration = 4  MsGate = 5  HvChannels = {0}  MaxEvents = 3
  SnapshotEvents <- FifoEvents  SnapshotChannels = {}  MaxSnapshotEvents = 2  MaxSnapshots = 2
CHECK_DEADLOCK FALSE
INVARIANTS TypeOK SoundKeepsItsBytes SilentAfterClose EachNoteOnce PicturesAreWhole SnapshotIsWhole
PROPERTY NothingWithheld
