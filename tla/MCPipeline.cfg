SPECIFICATION FairSpec
CONSTANTS
  i1 = i1
  i2 = i2
  i3 = i3
  NumStages = 3
  Instrs <- MCInstrs
  StageOf <- MCStageOf
  Edges <- MCEdges
  RetStages <- MCRetStages
  Capacity = 1
  MaxPath = 4
  MaxFaults = 1
INVARIANTS
  ValuesMatchIteration
  DequeueNeverFails
  QueuesOutliveStages
  LiveOutReady
  FailuresShow
  NoCircularWait
PROPERTIES
  EdgesAreChannels
  DriverReturns
CHECK_DEADLOCK FALSE
