CONSTANTS
  XLEN = 4
  none = none
SPECIFICATION Spec
INVARIANT RegisterShiftCount
