SPECIFICATION Spec
CONSTANTS
  Id = {p1, p2, p3, p4}
  Delta <- MCDelta
  Profile <- MCProfile
  PacketCapacity = 2
  MaxTime = 3
  MaxLag = 1
SYMMETRY Symmetric
CHECK_DEADLOCK FALSE
PROPERTIES
  HighestTMinDropped
