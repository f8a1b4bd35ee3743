SPECIFICATION DynamicSpec
CONSTANTS
  Id = {p1, p2, p3, p4}
  Delta <- MCDelta
  Profile <- MCProfile
  DeltaSteps = 2
  MaximumDelta = 9
  PacketCapacity = 2
  MaxTime = 5
  MaxArrival = 3
  MaxLag = 2
SYMMETRY Symmetric
CHECK_DEADLOCK FALSE
INVARIANTS
  DynamicTypeOK
  SentInWindow
  ScheduledPacketSendable
  PacketsAccounted
  NoRuntimeError
PROPERTIES
  HighestPriorityReadyFirst
  MostUrgentSent
  ImplementsTimedSafety
