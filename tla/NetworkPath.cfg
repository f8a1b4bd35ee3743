SPECIFICATION Spec
CONSTANTS
  Hops = 3
  LinkTime <- MCLinkTime
  Bits = 100
  Datarate = 576
  Slo <- MCSlo
  FibFiles <- MCFibFiles
  MaxDelay = 7
  MaxLag = 1
CHECK_DEADLOCK FALSE
INVARIANTS
  TypeOK
  ArrivesInTime
  EDelayIsElapsed
  OnlyInfeasibleExpire
  
  HeaderConsistent
  OnlyBadConfigurationFails
