CONSTANTS
  AddrSpace = 256
  XLEN = 8
  ByteCount = 4
  Byte <- MCByte
  nullptr = nullptr
  NumRegs = 5
  a0 = 1
  a1 = 2
  a2 = 3
  a7 = 4
  decode <- MCdecode
  NoHandler = NoHandler
  NoHex = NoHex
  SysRead = 3
  SysExit = 10
  SyscallIds = {10}
  DefLayout <- SetupLayout
  Bases <- SetupBases
  MemSizes <- SetupSizes
  EntryPoints <- SetupEntries
  Programs <- SetupPrograms
  HexFiles <- SetupHexFiles
SPECIFICATION Spec
INVARIANT FetchSafe
PROPERTY FailedStartStops
PROPERTY InitMemoryVerdict
PROPERTY HexLoadArms
PROPERTY LifecycleSpec
PROPERTY HostKeepsMemory
