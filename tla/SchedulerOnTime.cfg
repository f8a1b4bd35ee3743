SPECIFICATION FairSpec
CONSTANTS
  Id = {p1, p2, p3}
  Delta <- MCDelta
  Profile <- MCProfile
  DeltaSteps = 1
  MaximumDelta = 9
  PacketCapacity <- Unlimited
  MaxTime = 4
  MaxArrival = 2
  MaxLag = 0
CHECK_DEADLOCK FALSE
INVARIANTS
  TypeOK
  NoRuntimeError
PROPERTIES
  EveryPacketLeaves
