SPECIFICATION FairSpec
CONSTANTS
  e1 = e1
  e2 = e2
  u1 = u1
  u2 = u2
  a1 = a1
  Id = {e1, e2, u1, u2, a1}
  Delta = {1, 2, 9}
  DeltaOf <- MCDeltaOf
  Header <- MCHeader
  BitLength <- MCBitLength
  ModuleTypes = {"DBFPacketQueue"}
  PacketCapacity = 1
  CaptureRate = 2
  Second = 5
INVARIANTS
  TypeOK
  SameQueueEverywhere
  QueuesInUseOffByOne
  EveryFrameSampledOnce
  BitsConserved
PROPERTIES
  EveryBitReported
