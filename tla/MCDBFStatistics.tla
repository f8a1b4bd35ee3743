-------------------------- MODULE MCDBFStatistics --------------------------
(* Two pieces of data that are echoed, and packets of other applications.  *)
EXTENDS DBFStatistics, TLC

CONSTANTS e1, e2, u1, u2, a1

MCDeltaOf == e1 :> 2 @@ e2 :> 2 @@ u1 :> 1 @@ u2 :> 9 @@ a1 :> 9

IpHeader(protocolId, port) ==
  [ethertype |-> "ipv4", protocolId |-> protocolId, destinationPort |-> port]

MCHeader ==
  e1 :> IpHeader("tcp", 1042) @@ e2 :> IpHeader("tcp", 1042)
    @@ u1 :> IpHeader("udp", 1042) @@ u2 :> IpHeader("udp", 0)
    @@ a1 :> [ethertype |-> "other", protocolId |-> "udp", destinationPort |-> 7]

MCBitLength == e1 :> 3 @@ e2 :> 5
=============================================================================
