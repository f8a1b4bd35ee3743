SPECIFICATION DynamicFairSpec
CONSTANTS
  Id = {p1, p2}
  Delta <- MCDelta
  Profile <- MCProfile
  DeltaSteps = 2
  MaximumDelta = 9
  PacketCapacity <- Unlimited
  MaxTime = 5
  MaxArrival = 2
  MaxLag = 0
CHECK_DEADLOCK FALSE
PROPERTIES
  EveryPacketLeaves
