SPECIFICATION Spec
CONSTANTS
  W = 4
  Longs <- MCLongs
  MaxLength = 3
  Capacity = 2
INVARIANTS
  SumIsExact
PROPERTY
  DriverReturns
CHECK_DEADLOCK FALSE
