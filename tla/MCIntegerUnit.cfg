CONSTANTS
  XLEN = 4
  none = none
SPECIFICATION Spec
INVARIANT TypeOK
INVARIANT DivisionIdentity
INVARIANT ProductHalves
INVARIANT ArithmeticShift
INVARIANT OrderConsistent
