CONSTANTS
  AddrSpace = 5
  Byte <- MCByte
  Sizes <- MCSizes
  Requests <- MCRequests
  nullptr = nullptr
SPECIFICATION Spec
INVARIANT TypeOK
INVARIANT BlocksDisjoint
PROPERTY FlatSpec
