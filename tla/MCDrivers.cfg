CONSTANTS
  AddrSpace = 256
  XLEN = 8
  ByteCount = 4
  Byte <- MCByte
  nullptr = nullptr
  NumRegs = 5
  a0 = 1
  a1 = 2
  a2 = 3
  a7 = 4
  decode <- MCdecode
  NoHandler = NoHandler
  NoHex = NoHex
  SysRead = 3
  SysExit = 10
  SyscallIds = {1, 3, 10}
  DefLayout <- DriverLayout
  Bases = {}
  MemSizes = {}
  EntryPoints = {}
  Programs = {}
  HexFiles = {}
  Batches <- DriverBatches
  ToolFiles <- DriverToolFiles
  ExitCodes = 3
SPECIFICATION DriverSpec
INVARIANT TestsIsolated
INVARIANT TerminatedOnlyByEntry
INVARIANT ZeroStatus
PROPERTY PassedByExit
PROPERTY AssertionSticks
PROPERTY DriverEnds
CHECK_DEADLOCK FALSE
