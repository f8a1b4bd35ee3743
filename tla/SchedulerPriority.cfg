SPECIFICATION Spec
CONSTANTS
  Id = {p1, p2, p3}
  Delta <- MCDelta
  Profile <- MCProfile
  DeltaSteps = 1
  MaximumDelta = 9
  PacketCapacity <- Unlimited
  MaxTime = 5
  MaxArrival = 3
  MaxLag = 0
SYMMETRY Symmetric
CHECK_DEADLOCK FALSE
PROPERTIES
  HighestPriorityReadyFirst
