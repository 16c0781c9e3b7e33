SPECIFICATION Spec
CONSTANTS
  Half = 5
  Window = 2
  Requests <- Soon
  BootTime = 2
  MaxSkew = 2
  MaxTime = 13
INVARIANTS NeverEarly NeverLate
