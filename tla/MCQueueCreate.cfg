SPECIFICATION SpecCreate
CONSTANT W = 12
INVARIANTS
  CapacityIsNextPowerOfTwo
  BufferHoldsRing
  NothingLeaks
PROPERTY
  RoundingEndsInRange
