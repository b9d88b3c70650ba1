SPECIFICATION Spec
CONSTANTS
  NumInstrs = 3
  Kinds = {"phi", "pure", "write", "br"}
  Returns = {"void", "loop", "const", "arg", "outside"}
  MaxStages = 3
  Requests = {0}
INVARIANT
  LiveOutIsStored
