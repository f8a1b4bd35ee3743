--------------------------- MODULE DBFStatistics ---------------------------
(***************************************************************************)
(* A host with a DBF interface and an echo server, and what the simulation *)
(* records of it: data that arrive are counted, echoed and sent through    *)
(* the interface among the packets of other applications.                  *)
(***************************************************************************)
EXTENDS DBFEgress, TcpEchoAppStatistics

CONSTANT BitLength   (* The data that will arrive: their length in bits.   *)

ASSUME BitLengthAssumption ==
  DOMAIN BitLength \subseteq Id /\ \A id \in DOMAIN BitLength : BitLength[id] \in Nat

vars == <<egressVars, echoVars>>

TypeOK == EgressTypeOK /\ EchoTypeOK

Init == EgressInit(DOMAIN BitLength) /\ EchoInit

(* TcpEchoAppThreadStatistics::dataArrived: count, then echo. *)
DataArrived(packet) ==
  /\ ~failed
  /\ place[packet] = "remote"
  /\ place' = [place EXCEPT ![packet] = "host"]
  /\ CaptureBytesAtRate(BitLength[packet])
  /\ UNCHANGED <<deltaQueueMap, net, queueOf, queuesInUse, txPktToPortSignals,
                 recorders, samples, txPks, failed>>

CaptureMessage == ~failed /\ Capture /\ UNCHANGED egressVars

Tick == ~failed /\ EchoTick /\ UNCHANGED egressVars

Next ==
  \/ \E packet \in DOMAIN BitLength : DataArrived(packet)
  \/ \E packet \in Id : HandleMessage(packet) /\ UNCHANGED echoVars
  \/ \E expired \in SUBSET Queued(place, queueOf, net) :
       LookForExpiredPackets(expired) /\ UNCHANGED echoVars
  \/ \E i \in 1 .. Len(net.providers) : Transmit(i) /\ UNCHANGED echoVars
  \/ CaptureMessage
  \/ Tick

Spec == Init /\ [][Next]_vars

(* The event loop lets time pass and executes the message that is due. *)
FairSpec == Spec /\ WF_vars(CaptureMessage) /\ WF_vars(Tick)
=============================================================================
