SPECIFICATION SpecPDG
CONSTANTS
  NumNodes = 4
  MaxMixed = 2
  NumBlocks = 5
INVARIANTS
  LowLinksStayOnStack
  SinksFirst
  SCCsAreExact
  EdgesAreDecisions
