SPECIFICATION SpecRun
CONSTANTS
  NumInstrs = 4
  Kinds = {"pure", "write", "br"}
  Returns = {"void"}
  MaxStages = 2
  Requests = {2}
  MaxSteps = 4
  Capacity = 1
INVARIANT
  EachStageIteratesAlone
