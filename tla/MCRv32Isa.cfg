CONSTANTS
  Handlers <- IsaHandlers
  Codes <- MCCodes
  Instrs <- MCInstrs
  nullptr = nullptr
SPECIFICATION IsaSpec
INVARIANT DispatchSound
INVARIANT DispatchComplete
INVARIANT IsaExact
INVARIANT OperandsExact
PROPERTY IsaOnce
