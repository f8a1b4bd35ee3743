---------------------------- MODULE DBFQueueOps ----------------------------
(***************************************************************************)
(* What the queueing code does to one queue, as operators on the sequence  *)
(* of its packets (front first) and the current simulation time: the       *)
(* ordered insertion of DBFPacketComparator, the choice of                 *)
(* DBFPacketDropper, the push of INET's PacketQueue that combines the two, *)
(* and the purge of expired packets both schedulers perform.               *)
(***************************************************************************)
EXTENDS DBFPacket, SequencesExt

CONSTANT PacketCapacity   (* packetCapacity of a queue; -1: unlimited.     *)

ASSUME PacketCapacityAssumption ==
  /\ PacketCapacity \in Int
  /\ PacketCapacity = -1 \/ PacketCapacity >= 1

(***************************************************************************)
(* The operators named Wrong... are plausible bugs of the definition that  *)
(* follows them; PROJECT.json names the property that notices each.        *)
(***************************************************************************)
WrongNoReadyCheck(packet1, packet2, time) ==
  \/ /\ IsDBFPacket(packet1) /\ IsDBFPacket(packet2)
     /\ TMin(packet1) < TMin(packet2)
  \/ IsDBFPacket(packet1) /\ ~IsDBFPacket(packet2)

WrongNotStrict(packet1, packet2, time) ==
  /\ IsDBFPacket(packet1) /\ IsDBFPacket(packet2)
  /\ TMin(packet1) <= TMin(packet2)

(***************************************************************************)
(* comparePackets(packet1, packet2) = -1: packet1 goes ahead of packet2.   *)
(* Note the strict comparisons with the current time.                      *)
(***************************************************************************)
Precedes(packet1, packet2, time) ==
  \/ /\ IsDBFPacket(packet1) /\ IsDBFPacket(packet2)
     /\ \/ TMin(packet1) < TMin(packet2)
        \/ /\ TMin(packet1) = TMin(packet2)
           /\ packet1.slo.admit /\ ~packet2.slo.admit
  \/ /\ IsDBFPacket(packet1) /\ ~IsDBFPacket(packet2)
     /\ TMin(packet1) < time
  \/ /\ ~IsDBFPacket(packet1) /\ IsDBFPacket(packet2)
     /\ TMin(packet2) > time

(***************************************************************************)
(* cQueue::insert scans from the back: the new packet is placed right      *)
(* behind the last packet it does not precede.                             *)
(***************************************************************************)
InsertPosition(queue, packet, time) ==
  1 + SelectLastInSeq(queue, LAMBDA other : ~Precedes(packet, other, time))

Insert(queue, packet, time) ==
  InsertAt(queue, InsertPosition(queue, packet, time), packet)

WrongOffByOne(queue) == PacketCapacity # -1 /\ Len(queue) > PacketCapacity + 1

IsOverloaded(queue) == PacketCapacity # -1 /\ Len(queue) > PacketCapacity

WrongDropTail(queue, time) == Len(queue)

WrongDropFront(queue, time) == 1

(* DBFPacketDropper::selectPacket: the first expired packet, else the last. *)
SelectPacket(queue, time) ==
  LET expired == SelectInSeq(queue, LAMBDA packet : IsExpired(packet, time))
  IN  IF expired # 0 THEN expired ELSE Len(queue)

(***************************************************************************)
(* PacketQueue::pushPacket up to the notification of its collector.  A     *)
(* queue is at most one packet over its capacity, so its while loop drops  *)
(* at most once.                                                           *)
(***************************************************************************)
PushPacket(queue, packet, time) ==
  LET inserted == Insert(queue, packet, time)
  IN  IF IsOverloaded(inserted)
      THEN RemoveAt(inserted, SelectPacket(inserted, time))
      ELSE inserted

(***************************************************************************)
(* What lookForExpiredPackets leaves of a queue.  The kept packets stay in *)
(* order: kept positions are enumerated by the increasing map onto them.   *)
(***************************************************************************)
Enumeration(positions) ==
  CHOOSE f \in [1 .. Cardinality(positions) -> positions] :
    \A i, j \in 1 .. Cardinality(positions) : i < j => f[i] < f[j]

Unexpired(queue, time) == {i \in 1 .. Len(queue) : ~IsExpired(queue[i], time)}

Purge(queue, time) ==
  [i \in 1 .. Cardinality(Unexpired(queue, time)) |->
     queue[Enumeration(Unexpired(queue, time))[i]]]

-----------------------------------------------------------------------------
(***************************************************************************)
(* The order of a queue at a time.  DBF packets are sorted by tMin, and a  *)
(* DBF packet stands ahead of a BE packet only if it may be sent already.  *)
(***************************************************************************)
InOrder(first, second, time) ==
  IsDBFPacket(first) =>
    IF IsDBFPacket(second) THEN TMin(first) <= TMin(second)
                           ELSE TMin(first) <= time

QueueInOrder(queue, time) ==
  \A i, j \in 1 .. Len(queue) : i < j => InOrder(queue[i], queue[j], time)

(* The packets that are ready stand in front of the ones that are not. *)
ReadyPacketsFirst(queue, time) ==
  \A i, j \in 1 .. Len(queue) :
    i < j /\ IsPacketReadyToSend(queue[j], time)
      => IsPacketReadyToSend(queue[i], time)
=============================================================================
