----------------------------- MODULE DBFPacket -----------------------------
(***************************************************************************)
(* A packet as the queueing modules of an egress interface see it: the     *)
(* DBFHeaderTag that DBFComputer filled in, or no tag at all for a         *)
(* Best-Effort (BE) packet.                                                *)
(*                                                                         *)
(* The network layer leaves every packet of a flow with the same local     *)
(* queueing budget on this node, so a packet is a profile of service level *)
(* objectives plus the time it was received.  All times are multiples of   *)
(* one tick; local budgets may be negative (a flow that is already late,   *)
(* or one without a minimum delay).                                        *)
(***************************************************************************)
EXTENDS Integers, FiniteSets

CONSTANTS
  Id,       (* Identities of packets.                                      *)
  Delta,    (* The deltas (classes) that have a queue, smaller is better.  *)
  Profile   (* The service level profiles packets are sent with.           *)

(***************************************************************************)
(* dbf    the packet carries a DBFHeaderTag                                *)
(* admit  the admit bit                                                    *)
(* finite dMax # 0: the packet has a latest send time                      *)
(* lqMin  minimum local queueing budget                                    *)
(* lqMax  maximum local queueing budget                                    *)
(* delta  the class DBFPriorityClassifier puts the packet in               *)
(***************************************************************************)
ProfileType ==
  [dbf : BOOLEAN, admit : BOOLEAN, finite : BOOLEAN,
   lqMin : Int, lqMax : Int, delta : Delta]

ASSUME DeltaAssumption ==
  /\ Delta \subseteq Nat
  /\ IsFiniteSet(Delta)

(***************************************************************************)
(* DBFComputer::initialize refuses dMin > dMax, so the budgets of a packet *)
(* with both bounds are ordered; DBFIpv4 deletes a packet whose tMax lies  *)
(* before tRcv, so lqMax is not negative when the packet gets here.        *)
(***************************************************************************)
ASSUME ProfileAssumption ==
  /\ Profile \subseteq ProfileType
  /\ \A slo \in Profile :
       slo.dbf /\ slo.finite => slo.lqMin <= slo.lqMax /\ slo.lqMax >= 0

Packet == [id : Id, slo : Profile, tRcv : Nat]

(* DBFComputer::calculateSendTime on either budget. *)
TMin(packet) == packet.tRcv + packet.slo.lqMin
TMax(packet) == packet.tRcv + packet.slo.lqMax

(* DBFDynamicPriorityScheduler::isDBFPacket, and every findTag. *)
IsDBFPacket(packet) == packet.slo.dbf

HasInfiniteDmax(packet) == ~packet.slo.finite

(* A plausible bug: a packet is given up at its tMax already. *)
WrongExpiredAtTMax(packet, time) ==
  /\ IsDBFPacket(packet)
  /\ ~HasInfiniteDmax(packet)
  /\ TMax(packet) <= time

(* isExpired: only a tagged packet with a finite dMax ever expires. *)
IsExpired(packet, time) ==
  /\ IsDBFPacket(packet)
  /\ ~HasInfiniteDmax(packet)
  /\ TMax(packet) < time

(* DBFPriorityScheduler::isPacketReadyToSend: BE packets always are. *)
IsPacketReadyToSend(packet, time) ==
  IsDBFPacket(packet) => TMin(packet) <= time
=============================================================================
