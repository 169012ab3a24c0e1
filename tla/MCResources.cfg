SPECIFICATION MCSpec
CONSTANTS
  HeapLimit = 20
  Incrs = {3, 8}
  Backs = {4}
  Frame = 4
  Threads = {"t1", "t2"}
  MainThread = "t1"
  MaxFd = 6
  Null = "null"
  None = "none"
  Devices = {"uart", "lcd"}
  FileSystems = {"rw"}
  NameOf <- Registered
  Caps <- Provided
  Names <- Asked
  Uses <- Exercised
  Funcs = {"f", "g"}
  MaxCalls = 4
  SlabUnits = 3
  HeapUnits = 20
  Buckets = 2
  TextBytes = 64
  Values = {0, 10, 127, 128, 255}
  MaxWidth = 11
  Levels = {0, 1, 2, 3, 4}
  Depth = 2
  MsgLen = 2
  Interval = 2
  Ticks = 2
INVARIANTS BlocksDisjoint CollisionsReported FilesSound RecordsTrue
PROPERTIES DescriptorsArePool
CHECK_DEADLOCK FALSE
