SPECIFICATION SpecCreate
CONSTANT W = 12
PROPERTY
  RoundingEnds
