SPECIFICATION SpecRun
CONSTANTS
  NumInstrs = 4
  Kinds = {"phi", "pure", "read", "write", "br"}
  Returns = {"loop", "const"}
  MaxStages = 3
  Requests = {3, 4}
  MaxSteps = 8
  Capacity = 1
INVARIANTS
  StagesAreComplete
  QueuesArePointToPoint
  WorkIsSplit
  AllOrNothing
  ValuesAreSequential
  ResultIsSequential
  StagesNeverBlock
