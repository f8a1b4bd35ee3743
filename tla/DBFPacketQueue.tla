--------------------------- MODULE DBFPacketQueue ---------------------------
(***************************************************************************)
(* One DBFPacketQueue on its own: packets are pushed at any time, popped   *)
(* from the front (DBFPriorityScheduler), removed from any position        *)
(* (DBFDynamicPriorityScheduler) or purged once expired (both), while the  *)
(* simulation time, which the comparator and the dropper read, advances.   *)
(***************************************************************************)
EXTENDS DBFQueueOps

CONSTANTS
  MaxTime,  (* Bound: the last simulation time that is explored.           *)
  MaxLag    (* Bound: how long after tRcv a packet may reach the queue.    *)

ASSUME TimeAssumption == MaxTime \in Nat /\ MaxLag \in Nat

VARIABLES
  now,      (* The simulation time, omnetpp::simTime().                    *)
  queue,    (* The packets of the queue, front first.                      *)
  arrivals, (* History: the packets pushed so far, in order of arrival.    *)
  dropped   (* History: the packets dropped for QUEUE_OVERFLOW.            *)

vars == <<now, queue, arrivals, dropped>>

TypeOK ==
  /\ now \in Nat
  /\ queue \in Seq(Packet)
  /\ PacketCapacity # -1 => Len(queue) <= PacketCapacity
  /\ arrivals \in Seq(Packet)
  /\ dropped \subseteq Packet

Init ==
  /\ now = 0
  /\ queue = <<>>
  /\ arrivals = <<>>
  /\ dropped = {}

(* The packets the queue loses when it takes this packet now. *)
Overflow(packet) ==
  (ToSet(queue) \cup {packet}) \ ToSet(PushPacket(queue, packet, now))

Push(id, slo, lag) ==
  LET packet == [id |-> id, slo |-> slo, tRcv |-> now - lag]
  IN  /\ lag <= now
      /\ \A i \in 1 .. Len(arrivals) : arrivals[i].id # id
      /\ queue' = PushPacket(queue, packet, now)
      /\ arrivals' = Append(arrivals, packet)
      /\ dropped' = dropped \cup Overflow(packet)
      /\ UNCHANGED now

PopPacket ==
  /\ queue # <<>>
  /\ queue' = Tail(queue)
  /\ UNCHANGED <<now, arrivals, dropped>>

RemovePacket(position) ==
  /\ queue' = RemoveAt(queue, position)
  /\ UNCHANGED <<now, arrivals, dropped>>

LookForExpiredPackets ==
  /\ queue' = Purge(queue, now)
  /\ UNCHANGED <<now, arrivals, dropped>>

Tick ==
  /\ now < MaxTime
  /\ now' = now + 1
  /\ UNCHANGED <<queue, arrivals, dropped>>

Next ==
  \/ \E id \in Id, slo \in Profile, lag \in 0 .. MaxLag : Push(id, slo, lag)
  \/ PopPacket
  \/ \E position \in 1 .. Len(queue) : RemovePacket(position)
  \/ LookForExpiredPackets
  \/ Tick

Spec == Init /\ [][Next]_vars

-----------------------------------------------------------------------------
(***************************************************************************)
(* The comparator reads the clock, so two packets may be ordered by rules  *)
(* of different moments.  The queue nevertheless stays in order: DBF       *)
(* packets by tMin, none ahead of a BE packet before its tMin.             *)
(***************************************************************************)
QueueOrder == QueueInOrder(queue, now)

(***************************************************************************)
(* Both schedulers stop at the first packet that is not ready              *)
(* (determineCollection looks at the front only, prepareSelfMsg breaks out *)
(* of its scan): no ready packet is hidden behind one that must wait.      *)
(***************************************************************************)
ReadyPrefix == ReadyPacketsFirst(queue, now)

(***************************************************************************)
(* Packets the comparator does not tell apart (BE packets, DBF packets     *)
(* with the same tMin and admit bit) leave in the order they arrived:      *)
(* "otherwise the order remains unchanged".                                *)
(***************************************************************************)
SameClass(first, second) ==
  \/ ~IsDBFPacket(first) /\ ~IsDBFPacket(second)
  \/ /\ IsDBFPacket(first) /\ IsDBFPacket(second)
     /\ TMin(first) = TMin(second)
     /\ first.slo.admit = second.slo.admit

ArrivalOrderKept ==
  \A i, j \in 1 .. Len(queue) :
    i < j /\ SameClass(queue[i], queue[j])
      => \E k, l \in 1 .. Len(arrivals) :
           k < l /\ arrivals[k] = queue[i] /\ arrivals[l] = queue[j]

(* A full queue never drops a packet that can still be sent in time while  *)
(* it keeps one that cannot (DBFPacketDropper looks for expired first).    *)
DropsExpiredFirst ==
  \A packet \in dropped' \ dropped :
    \/ IsExpired(packet, now)
    \/ \A i \in 1 .. Len(queue') : ~IsExpired(queue'[i], now)

(* Every step of a queue drops that way. *)
ExpiredDroppedFirst == [][DropsExpiredFirst]_vars

(***************************************************************************)
(* In a queue that holds DBF packets only, an overflow that finds no       *)
(* expired packet drops one with the highest tMin.                         *)
(***************************************************************************)
DropsLatest ==
  \A packet \in dropped' \ dropped :
    (\A other \in ToSet(queue') \cup {packet} : IsDBFPacket(other))
      => \/ IsExpired(packet, now)
         \/ \A i \in 1 .. Len(queue') : TMin(queue'[i]) <= TMin(packet)

(* Every step of a queue drops that way. *)
LatestDbfPacketDropped == [][DropsLatest]_vars

(***************************************************************************)
(* What the comment in DBFPacketDropper::selectPacket says of every queue: *)
(* "If no packet is expired, then the packet with the highest Tmin is      *)
(* dropped".                                                               *)
(***************************************************************************)
HighestTMinDropped ==
  [][\A packet \in dropped' \ dropped :
       \/ IsExpired(packet, now)
       \/ \A i \in 1 .. Len(queue') :
            IsDBFPacket(queue'[i])
              => IsDBFPacket(packet) /\ TMin(queue'[i]) <= TMin(packet)]_vars

(***************************************************************************)
(* What the comment in DBFPacketComparator::comparePackets says of a DBF   *)
(* packet "already ready to send": when it arrives it is not put behind a  *)
(* BE packet.                                                              *)
(***************************************************************************)
ReadyDbfPacketFirst ==
  [][arrivals' # arrivals =>
       LET packet == Last(arrivals')
       IN  IsDBFPacket(packet) /\ IsPacketReadyToSend(packet, now)
             => \A i, j \in 1 .. Len(queue') :
                  i < j /\ queue'[j] = packet => IsDBFPacket(queue'[i])]_vars
=============================================================================
