SPECIFICATION Spec
CONSTANTS
  Id = {p1, p2, p3, p4}
  Delta <- MCDelta
  Profile <- MCProfile
  DeltaSteps = 1
  MaximumDelta = 9
  PacketCapacity = 2
  MaxTime = 5
  MaxArrival = 3
  MaxLag = 2
SYMMETRY Symmetric
CHECK_DEADLOCK FALSE
INVARIANTS
  SentInWindow
  MessageForSendableFront
  ArmedWhenIdle
  PacketsAccounted
PROPERTIES
  HighestReadyArmed
  ImplementsTimedEgress
