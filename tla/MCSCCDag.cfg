SPECIFICATION Spec
CONSTANTS
  NumInstrs = 3
  MaxEdges = 3
  MaxOperands = 2
INVARIANTS
  EdgesSumUp
  IsAcyclic
