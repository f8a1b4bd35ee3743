--------------------- MODULE DBFDynamicPriorityScheduler ---------------------
(***************************************************************************)
(* The DBFDynamicPriorityScheduler in place of the DBFPriorityScheduler it *)
(* derives from.  It overrides handleMessage, schedule and                 *)
(* lookForExpiredPackets: a message is armed only for a packet that may be *)
(* sent at once, and that packet, which may stand anywhere among the ready *)
(* ones of its queue, is remembered by a pointer.  Queues, classes, MAC    *)
(* and time are those of DBFPriorityScheduler.                             *)
(***************************************************************************)
EXTENDS DBFPriorityScheduler

VARIABLE scheduledPacket  (* The packet pointed to, {} for nullptr.        *)

dynamicVars == <<vars, scheduledPacket>>

DynamicFaults == Faults \cup {"scheduledTwice", "packetGone"}

DynamicTypeOK ==
  /\ now \in Nat
  /\ collections \in [Delta -> Seq(Packet)]
  /\ txIdleCounter \in 0 .. 2
  /\ selfMsg \in Msg \cup {NoMsg}
  /\ mac \in {"starting", "idle", "transmitting"}
  /\ onWire \subseteq Frame
  /\ fate \in [Id -> Fates]
  /\ fault \in DynamicFaults
  /\ scheduledPacket \subseteq Packet /\ Cardinality(scheduledPacket) <= 1

DynamicInit == Init /\ scheduledPacket = {}

-----------------------------------------------------------------------------
(***************************************************************************)
(* calculateDynamicPriority: the part of its window a packet has let pass, *)
(* as a fraction.  A packet whose window is a single instant is ready and  *)
(* not expired only in that instant; its 0/0 ends up as priority 0 (a NaN  *)
(* converted to simtime_t is negative or 0, and clamped to 0).  The        *)
(* packets compared are ready and not expired, so the clamping changes     *)
(* nothing else.                                                           *)
(***************************************************************************)
Bounded(packet) == ~HasInfiniteDmax(packet) /\ TMin(packet) # TMax(packet)

DynamicPriority(packet) ==
  IF Bounded(packet)
  THEN [passed |-> now - TMin(packet), window |-> TMax(packet) - TMin(packet)]
  ELSE [passed |-> 0, window |-> 1]

Outranks(packet, other) ==
  \/ IsDBFPacket(packet) /\ ~IsDBFPacket(other)
  \/ /\ IsDBFPacket(packet) /\ IsDBFPacket(other)
     /\ DynamicPriority(packet).passed * DynamicPriority(other).window
          > DynamicPriority(other).passed * DynamicPriority(packet).window

(* The packets looked at: the scan ends at the first that is not ready. *)
Scanned(queue) ==
  {i \in 1 .. Len(queue) : \A k \in 1 .. i : IsPacketReadyToSend(queue[k], now)}

WrongFrontPacket(queue) == Head(queue)

(* The first of the scanned packets that none of the others outranks. *)
HighestPriorityPacket(queue) ==
  queue[Min({i \in Scanned(queue) :
               \A k \in Scanned(queue) : ~Outranks(queue[k], queue[i])})]

WrongLastCollection(queues) == Max(ReadyToSend(queues))

(* The loop stops at the first class in which it finds a packet. *)
ReadyCollection(queues) == Min(ReadyToSend(queues))

-----------------------------------------------------------------------------
(***************************************************************************)
(* lookForExpiredPackets deletes the message, and keeps the pointer to it, *)
(* if the packet it was armed for is still queued and has expired.         *)
(***************************************************************************)
ScheduledExpired(queues) ==
  /\ selfMsg.state = "scheduled"
  /\ \E packet \in scheduledPacket : packet.id \in ExpiredIds(queues)

DynamicAfterPurge(queues) ==
  IF ScheduledExpired(queues) THEN [selfMsg EXCEPT !.state = "deleted"] ELSE selfMsg

(***************************************************************************)
(* schedule() after prepareSelfMsg.  If a packet is ready, the old message *)
(* is cancelled; if none is, an old message, should there be one, is       *)
(* scheduled a second time.                                                *)
(***************************************************************************)
ScheduleFault(queues) ==
  CASE DynamicAfterPurge(queues).state = "deleted" -> "deletedSelfMsg"
    [] /\ DynamicAfterPurge(queues).state = "scheduled"
       /\ ReadyToSend(PurgeAll(queues)) = {}       -> "scheduledTwice"
    [] OTHER                                       -> "none"

WrongNoPurge(queues, fates, idle) ==
  /\ collections' = queues
  /\ fate' = fates
  /\ fault' = "none"
  /\ IF idle /\ ReadyToSend(queues) # {}
     THEN LET delta == ReadyCollection(queues)
              packet == HighestPriorityPacket(queues[delta])
          IN  /\ scheduledPacket' = {packet}
              /\ selfMsg' = [state |-> "scheduled", collectionIdx |-> delta,
                             at |-> ScheduleTime(packet)]
     ELSE UNCHANGED <<selfMsg, scheduledPacket>>

(* An armed message is left alone when more packets arrive. *)
WrongKeepsScheduled(queues, fates, idle) ==
  /\ collections' = PurgeAll(queues)
  /\ fate' = [id \in Id |->
                IF id \in ExpiredIds(queues) THEN "expired" ELSE fates[id]]
  /\ fault' = "none"
  /\ IF idle /\ selfMsg.state = "none" /\ ReadyToSend(PurgeAll(queues)) # {}
     THEN LET delta == ReadyCollection(PurgeAll(queues))
              packet == HighestPriorityPacket(PurgeAll(queues)[delta])
          IN  /\ scheduledPacket' = {packet}
              /\ selfMsg' = [state |-> "scheduled", collectionIdx |-> delta,
                             at |-> ScheduleTime(packet)]
     ELSE UNCHANGED <<selfMsg, scheduledPacket>>

DynamicDispatch(queues, fates, idle) ==
  /\ collections' = PurgeAll(queues)
  /\ fate' = [id \in Id |->
                IF id \in ExpiredIds(queues) THEN "expired" ELSE fates[id]]
  /\ fault' = IF idle THEN ScheduleFault(queues) ELSE "none"
  /\ IF idle /\ ReadyToSend(PurgeAll(queues)) # {}
     THEN LET delta == ReadyCollection(PurgeAll(queues))
              packet == HighestPriorityPacket(PurgeAll(queues)[delta])
          IN  /\ scheduledPacket' = {packet}
              /\ selfMsg' = [state |-> "scheduled", collectionIdx |-> delta,
                             at |-> ScheduleTime(packet)]
     ELSE /\ selfMsg' = DynamicAfterPurge(queues)
          /\ scheduledPacket' = IF ScheduledExpired(queues) THEN {} ELSE scheduledPacket

DynamicHandleMessage(id, slo, lag) ==
  LET packet == [id |-> id, slo |-> slo, tRcv |-> now - lag]
      fates == [fate EXCEPT ![id] = "queued"]
  IN  /\ fault = "none"
      /\ now <= MaxArrival /\ lag <= now
      /\ fate[id] = "new"
      /\ DynamicDispatch(
           Pushed(packet),
           [i \in Id |-> IF i \in Overflow(packet) THEN "overflow" ELSE fates[i]],
           txIdleCounter = 1)
      /\ UNCHANGED <<now, txIdleCounter, mac, onWire>>

(* popPacket in place of removePacket, as in the base class. *)
WrongPopsFront(packet) == {1}

(* The self message removes the remembered packet, wherever it stands. *)
Position(packet) ==
  {i \in 1 .. Len(collections[packet.slo.delta]) :
     collections[packet.slo.delta][i] = packet}

DynamicSendFault ==
  IF \A packet \in scheduledPacket : Position(packet) = {} THEN "packetGone"
  ELSE IF txIdleCounter # 1 THEN "txIdleCounter" ELSE "none"

DynamicHandleSelfMsg ==
  /\ fault = "none"
  /\ selfMsg.state = "scheduled" /\ selfMsg.at = now
  /\ selfMsg' = NoMsg /\ scheduledPacket' = {}
  /\ fault' = DynamicSendFault
  /\ IF DynamicSendFault # "none"
     THEN UNCHANGED <<collections, txIdleCounter, mac, onWire, fate>>
     ELSE \E packet \in scheduledPacket :
            /\ collections' = [collections EXCEPT ![selfMsg.collectionIdx] =
                                 RemoveAt(@, Min(Position(packet)))]
            /\ txIdleCounter' = txIdleCounter - 1
            /\ mac' = "transmitting"
            /\ onWire' = {FrameOf(packet)}
            /\ fate' = [fate EXCEPT ![packet.id] = "sent"]
  /\ UNCHANGED now

DynamicReceiveSignal ==
  /\ fault = "none"
  /\ mac # "idle"
  /\ mac' = "idle"
  /\ onWire' = {}
  /\ txIdleCounter' = txIdleCounter + 1
  /\ IF txIdleCounter = 0
     THEN DynamicDispatch(collections, fate, TRUE)
     ELSE fault' = "txIdleCounter"
          /\ UNCHANGED <<collections, selfMsg, fate, scheduledPacket>>
  /\ UNCHANGED now

DynamicTick == Tick /\ UNCHANGED scheduledPacket

DynamicNext ==
  \/ \E id \in Id, slo \in Profile, lag \in 0 .. MaxLag :
       DynamicHandleMessage(id, slo, lag)
  \/ DynamicHandleSelfMsg
  \/ DynamicReceiveSignal
  \/ DynamicTick

DynamicSpec == DynamicInit /\ [][DynamicNext]_dynamicVars

(* The event loop executes what is due and time passes, as for the base. *)
DynamicFairSpec ==
  /\ DynamicSpec
  /\ WF_dynamicVars(DynamicHandleSelfMsg)
  /\ WF_dynamicVars(DynamicReceiveSignal)
  /\ WF_dynamicVars(DynamicTick)

-----------------------------------------------------------------------------
(***************************************************************************)
(* The remembered pointer is good whenever it is used: although the        *)
(* dropper and the purge delete packets while a message is armed, the      *)
(* packet the message was armed for is still in the queue the message      *)
(* names, may be sent now and has not expired.                             *)
(***************************************************************************)
ScheduledPacketSendable ==
  fault = "none" /\ selfMsg.state = "scheduled" =>
    /\ selfMsg.at = now /\ txIdleCounter = 1
    /\ Cardinality(scheduledPacket) = 1
    /\ \A packet \in scheduledPacket :
         /\ \E i \in 1 .. Len(collections[selfMsg.collectionIdx]) :
              collections[selfMsg.collectionIdx][i] = packet
         /\ IsPacketReadyToSend(packet, now) /\ ~IsExpired(packet, now)

(***************************************************************************)
(* No packet overtakes, within its class, a DBF packet that may be sent    *)
(* and has let a larger part of its window pass, whatever arrived between  *)
(* the arming of the message and its arrival.                              *)
(***************************************************************************)
SendsMostUrgent ==
  \A frame \in onWire' \ onWire :
    \A other \in ToSet(collections[frame.packet.slo.delta]) :
      IsPacketReadyToSend(other, now) => ~Outranks(other, frame.packet)

(* Every step that puts a frame on the wire does so. *)
MostUrgentSent == [][SendsMostUrgent]_dynamicVars

(***************************************************************************)
(* Seen from outside, the dynamic scheduler keeps what TimedEgress says of *)
(* the packets, but not what it says of time: packets that may be sent can *)
(* wait before a free link, since nothing wakes the scheduler at a tMin.   *)
(***************************************************************************)
ImplementsTimedSafety == Egress!SafeSpec
=============================================================================
