SPECIFICATION Spec
CONSTANTS
  Half = 5
  Window = 2
  Requests <- Never
  BootTime = 2
  MaxSkew = 1
  MaxTime = 13
INVARIANT DeadlineAsDocumented
