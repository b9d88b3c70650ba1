SPECIFICATION SpecFront
CONSTANTS
  NumInstrs = 4
  Kinds = {"phi", "write", "br"}
  Returns = {"void"}
  MaxStages = 3
  Requests = {2, 3}
  Costs = {0, 1, 3}
PROPERTY ImplementsStagePlan
