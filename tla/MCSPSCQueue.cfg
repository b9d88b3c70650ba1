SPECIFICATION FairSpec
CONSTANTS
  a = a
  b = b
  Values <- MCValues
  Capacity = 2
  Modulus = 4
  MaxEnqueues = 6
INVARIANTS
  TypeOK
  DataRaceFree
  DeliveredInOrder
  FalseMeansDrained
PROPERTIES
  ImplementsChannel
  EveryItemDelivered
  EnqueueReturns
  EofReachesConsumer
