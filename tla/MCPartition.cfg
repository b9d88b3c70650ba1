SPECIFICATION Spec
CONSTANTS
  MaxSCCs = 4
  MaxCyclic = 3
  Costs = {0, 1, 3}
  StageCounts = {2, 3}
INVARIANTS
  OrderIsTopological
  SortFailsOnlyOnCycles
  EdgesGoForward
  StagesAreBalanced
