SPECIFICATION Spec
CONSTANTS
  Id = {p1, p2, p3, p4}
  Delta <- MCDelta
  Profile <- MCProfile
  DeltaSteps = 2
  MaximumDelta = 4
  PacketCapacity = 2
  MaxTime = 5
  MaxArrival = 3
  MaxLag = 2
SYMMETRY Symmetric
CHECK_DEADLOCK FALSE
INVARIANTS
  TypeOK
  OneQueuePerClass
  DeadlinesAboveBestEffort
PROPERTIES
  ImplementsScheduler
