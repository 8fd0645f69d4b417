CONSTANTS
  AddrSpace = 256
  XLEN = 8
  ByteCount = 4
  Byte <- MCByte
  nullptr = nullptr
  NumRegs = 5
  a0 = 1
  a1 = 2
  a2 = 3
  a7 = 4
  decode <- MCdecode
  NoHandler = NoHandler
  NoHex = NoHex
  SysRead = 3
  SysExit = 10
  SyscallIds = {1, 3, 10}
  DefLayout <- ExecLayout
  Bases = {}
  MemSizes <- ExecSizes
  EntryPoints <- ExecEntries
  Programs <- ExecPrograms
  HexFiles <- ExecHexFiles
SPECIFICATION Spec
INVARIANT TypeOK
INVARIANT FetchSafe
INVARIANT PcAligned
PROPERTY FaultPrecise
PROPERTY StoreContained
PROPERTY RunReturns
PROPERTY FlatExecution
