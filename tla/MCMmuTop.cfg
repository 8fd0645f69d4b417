CONSTANTS
  AddrSpace = 4
  Byte <- MCByte
  Sizes <- MCSizes
  Requests <- MCRequests
  nullptr = nullptr
SPECIFICATION Spec
INVARIANT BlocksDisjoint
