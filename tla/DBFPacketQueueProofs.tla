------------------------ MODULE DBFPacketQueueProofs ------------------------
(***************************************************************************)
(* The order of a DBFPacketQueue, for every capacity, any set of profiles, *)
(* and any number of packets, at all times.                                *)
(***************************************************************************)
EXTENDS DBFPacketQueue, DBFQueueOpsProofs

LEMMA PushedPacketType ==
  ASSUME NEW id \in Id, NEW slo \in Profile, NEW lag \in 0 .. MaxLag,
         TypeOK, lag <= now
  PROVE  [id |-> id, slo |-> slo, tRcv |-> now - lag] \in Packet
  BY TimeAssumption DEF TypeOK, Packet

(* Every queue holds packets only, and no more than its capacity. *)
THEOREM TypeCorrect == Spec => []TypeOK
<1>1. Init => TypeOK
  BY PacketCapacityAssumption DEF Init, TypeOK
<1>2. TypeOK /\ [Next]_vars => TypeOK'
  <2> SUFFICES ASSUME TypeOK, [Next]_vars PROVE TypeOK'
    OBVIOUS
  <2>1. ASSUME NEW id \in Id, NEW slo \in Profile, NEW lag \in 0 .. MaxLag,
               Push(id, slo, lag)
        PROVE  TypeOK'
    <3> DEFINE packet == [id |-> id, slo |-> slo, tRcv |-> now - lag]
    <3>1. packet \in Packet
      BY <2>1, PushedPacketType DEF Push
    <3>2. /\ queue' = PushPacket(queue, packet, now)
          /\ arrivals' = Append(arrivals, packet)
          /\ dropped' = dropped \cup Overflow(packet)
          /\ now' = now
      BY <2>1 DEF Push
    <3> HIDE DEF packet
    <3>3. queue' \in Seq(Packet) /\ (PacketCapacity # -1 => Len(queue') <= PacketCapacity)
      BY <3>1, <3>2, PushPacketType DEF TypeOK
    <3>4. Overflow(packet) \subseteq Packet
      BY <3>1 DEF Overflow, ToSet, TypeOK
    <3> QED
      BY <3>1, <3>2, <3>3, <3>4 DEF TypeOK
  <2>2. CASE PopPacket
    <3>1. queue' \in Seq(Packet) /\ Len(queue') = Len(queue) - 1 /\ Len(queue) \in Nat
      BY <2>2, HeadTailProperties DEF PopPacket, TypeOK
    <3> QED
      BY <2>2, <3>1, PacketCapacityAssumption DEF PopPacket, TypeOK
  <2>3. ASSUME NEW position \in 1 .. Len(queue), RemovePacket(position)
        PROVE  TypeOK'
    <3>1. queue' \in Seq(Packet) /\ Len(queue') = Len(queue) - 1 /\ Len(queue) \in Nat
      BY <2>3, RemoveAtProperties DEF RemovePacket, TypeOK
    <3> QED
      BY <2>3, <3>1, PacketCapacityAssumption DEF RemovePacket, TypeOK
  <2>4. CASE LookForExpiredPackets
    <3>1. queue' \in Seq(Packet) /\ Len(queue') <= Len(queue) /\ Len(queue) \in Nat
      BY <2>4, PurgeProperties, PurgeNoLonger DEF LookForExpiredPackets, TypeOK
    <3> QED
      BY <2>4, <3>1, PacketCapacityAssumption DEF LookForExpiredPackets, TypeOK
  <2>5. CASE Tick
    BY <2>5 DEF Tick, TypeOK
  <2>6. CASE UNCHANGED vars
    BY <2>6 DEF vars, TypeOK
  <2> QED
    BY <2>1, <2>2, <2>3, <2>4, <2>5, <2>6 DEF Next
<1> QED
  BY <1>1, <1>2, PTL DEF Spec

(***************************************************************************)
(* The comparator's verdict on two packets depends on the time it is       *)
(* asked, and packets leave from the front, the middle and the back; the   *)
(* queue is in order all the same.                                         *)
(***************************************************************************)
THEOREM AlwaysInOrder == Spec => []QueueOrder
<1>1. Init => QueueOrder
  BY DEF Init, QueueOrder, QueueInOrder
<1>2. TypeOK /\ QueueOrder /\ [Next]_vars => QueueOrder'
  <2> SUFFICES ASSUME TypeOK, QueueOrder, [Next]_vars PROVE QueueOrder'
    OBVIOUS
  <2>0. queue \in Seq(Packet) /\ now \in Nat /\ QueueInOrder(queue, now)
    BY DEF TypeOK, QueueOrder
  <2>1. ASSUME NEW id \in Id, NEW slo \in Profile, NEW lag \in 0 .. MaxLag,
               Push(id, slo, lag)
        PROVE  QueueOrder'
    <3> DEFINE packet == [id |-> id, slo |-> slo, tRcv |-> now - lag]
    <3>1. packet \in Packet
      BY <2>1, PushedPacketType DEF Push
    <3>2. queue' = PushPacket(queue, packet, now) /\ now' = now
      BY <2>1 DEF Push
    <3> HIDE DEF packet
    <3>3. QueueInOrder(PushPacket(queue, packet, now), now)
      BY <2>0, <3>1, PushPacketKeepsOrder
    <3> QED
      BY <3>2, <3>3 DEF QueueOrder
  <2>2. CASE PopPacket
    <3>1. queue' = Tail(queue) /\ now' = now /\ queue # <<>>
      BY <2>2 DEF PopPacket
    <3>2. QueueInOrder(Tail(queue), now)
      BY <2>0, <3>1, TailKeepsOrder
    <3> QED
      BY <3>1, <3>2 DEF QueueOrder
  <2>3. ASSUME NEW position \in 1 .. Len(queue), RemovePacket(position)
        PROVE  QueueOrder'
    <3>1. QueueInOrder(RemoveAt(queue, position), now)
      BY <2>0, RemoveAtKeepsOrder
    <3> QED
      BY <2>3, <3>1 DEF RemovePacket, QueueOrder
  <2>4. CASE LookForExpiredPackets
    <3>1. QueueInOrder(Purge(queue, now), now)
      BY <2>0, PurgeKeepsOrder
    <3> QED
      BY <2>4, <3>1 DEF LookForExpiredPackets, QueueOrder
  <2>5. CASE Tick
    <3>1. QueueInOrder(queue, now + 1)
      BY <2>0, OrderInTime
    <3> QED
      BY <2>5, <3>1 DEF Tick, QueueOrder
  <2>6. CASE UNCHANGED vars
    BY <2>6 DEF vars, QueueOrder, QueueInOrder, InOrder
  <2> QED
    BY <2>1, <2>2, <2>3, <2>4, <2>5, <2>6 DEF Next
<1> QED
  BY <1>1, <1>2, TypeCorrect, PTL DEF Spec

(***************************************************************************)
(* Looking at the front only, or stopping a scan at the first packet that  *)
(* is not ready, misses no packet that is: what both schedulers rely on.   *)
(***************************************************************************)
THEOREM ReadyPacketsInFront == Spec => []ReadyPrefix
<1>1. TypeOK /\ QueueOrder => ReadyPrefix
  BY OrderGivesReadyPrefix DEF TypeOK, QueueOrder, ReadyPrefix
<1> QED
  BY <1>1, TypeCorrect, AlwaysInOrder, PTL
-----------------------------------------------------------------------------
(***************************************************************************)
(* The order of arrival.  A new packet precedes everything behind its      *)
(* place, so nothing there is of its class; whatever is taken out later    *)
(* leaves the order of the rest alone.                                     *)
(***************************************************************************)
ArrivedInOrder(packets, history) ==
  /\ \A i \in 1 .. Len(packets) : \E k \in 1 .. Len(history) : history[k] = packets[i]
  /\ \A i, j \in 1 .. Len(packets) :
       i < j /\ SameClass(packets[i], packets[j])
         => \E k, l \in 1 .. Len(history) :
              k < l /\ history[k] = packets[i] /\ history[l] = packets[j]

LEMMA SubsequenceArrivedInOrder ==
  ASSUME NEW history, NEW packets \in Seq(Packet), ArrivedInOrder(packets, history),
         NEW s \in Seq(Packet), NEW f \in [1 .. Len(s) -> 1 .. Len(packets)],
         \A i, j \in 1 .. Len(s) : i < j => f[i] < f[j],
         \A i \in 1 .. Len(s) : s[i] = packets[f[i]]
  PROVE  ArrivedInOrder(s, history)
<1>1. ASSUME NEW i \in 1 .. Len(s)
      PROVE  \E k \in 1 .. Len(history) : history[k] = s[i]
  BY DEF ArrivedInOrder
<1>2. ASSUME NEW i \in 1 .. Len(s), NEW j \in 1 .. Len(s), i < j, SameClass(s[i], s[j])
      PROVE  \E k, l \in 1 .. Len(history) :
               k < l /\ history[k] = s[i] /\ history[l] = s[j]
  <2>1. /\ f[i] \in 1 .. Len(packets) /\ f[j] \in 1 .. Len(packets) /\ f[i] < f[j]
        /\ SameClass(packets[f[i]], packets[f[j]])
    BY <1>2
  <2> QED
    BY <2>1 DEF ArrivedInOrder
<1> QED
  BY <1>1, <1>2 DEF ArrivedInOrder

LEMMA RemovalArrivedInOrder ==
  ASSUME NEW history, NEW packets \in Seq(Packet), ArrivedInOrder(packets, history),
         NEW s \in Seq(Packet), NEW position \in 1 .. Len(packets),
         Len(s) = Len(packets) - 1,
         \A k \in 1 .. Len(packets) - 1 :
           s[k] = IF k < position THEN packets[k] ELSE packets[k + 1]
  PROVE  ArrivedInOrder(s, history)
<1> DEFINE f == [i \in 1 .. Len(s) |-> IF i < position THEN i ELSE i + 1]
<1>1. Len(packets) \in Nat
  OBVIOUS
<1>2. /\ f \in [1 .. Len(s) -> 1 .. Len(packets)]
      /\ \A i, j \in 1 .. Len(s) : i < j => f[i] < f[j]
      /\ \A i \in 1 .. Len(s) : s[i] = packets[f[i]]
  BY <1>1
<1> HIDE DEF f
<1> QED
  BY <1>2, SubsequenceArrivedInOrder

(* A packet of the same class as another does not precede it.              *)
LEMMA SameClassNotPreceding ==
  ASSUME NEW packet \in Packet, NEW other \in Packet, NEW time \in Int,
         SameClass(packet, other)
  PROVE  ~Precedes(packet, other, time)
  BY PacketTypes DEF SameClass, Precedes

LEMMA InsertArrivedInOrder ==
  ASSUME NEW history \in Seq(Packet), NEW packets \in Seq(Packet),
         NEW packet \in Packet, NEW time \in Int, ArrivedInOrder(packets, history)
  PROVE  ArrivedInOrder(Insert(packets, packet, time), Append(history, packet))
<1> DEFINE place == InsertPosition(packets, packet, time)
           s == Insert(packets, packet, time)
           longer == Append(history, packet)
<1>1. /\ place \in 1 .. Len(packets) + 1 /\ Len(s) = Len(packets) + 1
      /\ \A k \in 1 .. Len(packets) + 1 :
           s[k] = IF k < place THEN packets[k]
                  ELSE IF k = place THEN packet ELSE packets[k - 1]
  BY InsertProperties
<1>2. \A i \in 1 .. Len(packets) : i >= place => ~SameClass(packet, packets[i])
  <2>1. \A i \in 1 .. Len(packets) :
          packets[i] \in Packet /\ (i >= place => Precedes(packet, packets[i], time))
    BY InsertPositionProperties, ElementOfSeq
  <2> QED
    BY <2>1, SameClassNotPreceding
<1>3. /\ Len(longer) = Len(history) + 1 /\ Len(history) \in Nat /\ Len(packets) \in Nat
      /\ longer[Len(history) + 1] = packet
      /\ \A k \in 1 .. Len(history) : longer[k] = history[k]
  OBVIOUS
<1> HIDE DEF place, s, longer
<1>4. ASSUME NEW i \in 1 .. Len(packets)
      PROVE  \E k \in 1 .. Len(history) : longer[k] = packets[i]
  BY <1>3 DEF ArrivedInOrder
<1>5. ASSUME NEW i \in 1 .. Len(packets), NEW j \in 1 .. Len(packets), i < j,
             SameClass(packets[i], packets[j])
      PROVE  \E k, l \in 1 .. Len(longer) :
               k < l /\ longer[k] = packets[i] /\ longer[l] = packets[j]
  <2>1. PICK k, l \in 1 .. Len(history) :
          k < l /\ history[k] = packets[i] /\ history[l] = packets[j]
    BY <1>5 DEF ArrivedInOrder
  <2> QED
    BY <1>3, <2>1
<1>6. ASSUME NEW i \in 1 .. Len(s)
      PROVE  \E k \in 1 .. Len(longer) : longer[k] = s[i]
  <2>1. CASE i = place
    BY <1>1, <1>3, <2>1
  <2>2. CASE i < place
    <3>1. i \in 1 .. Len(packets) /\ s[i] = packets[i]
      BY <1>1, <1>3, <2>2
    <3> QED
      BY <1>3, <1>4, <3>1
  <2>3. CASE i > place
    <3>1. i - 1 \in 1 .. Len(packets) /\ s[i] = packets[i - 1]
      BY <1>1, <1>3, <2>3
    <3> QED
      BY <1>3, <1>4, <3>1
  <2> QED
    BY <1>1, <2>1, <2>2, <2>3
<1>7. ASSUME NEW i \in 1 .. Len(s), NEW j \in 1 .. Len(s), i < j, SameClass(s[i], s[j])
      PROVE  \E k, l \in 1 .. Len(longer) :
               k < l /\ longer[k] = s[i] /\ longer[l] = s[j]
  <2>1. CASE i = place
    <3>1. j - 1 \in 1 .. Len(packets) /\ j - 1 >= place /\ s[j] = packets[j - 1]
      BY <1>1, <1>3, <1>7, <2>1
    <3>2. s[i] = packet
      BY <1>1, <2>1
    <3> QED
      BY <1>2, <1>7, <3>1, <3>2
  <2>2. CASE j = place
    <3>1. i \in 1 .. Len(packets) /\ s[i] = packets[i] /\ s[j] = packet
      BY <1>1, <1>3, <1>7, <2>2
    <3>2. PICK k \in 1 .. Len(history) : longer[k] = packets[i]
      BY <1>4, <3>1
    <3>3. /\ k \in 1 .. Len(longer) /\ Len(history) + 1 \in 1 .. Len(longer)
          /\ k < Len(history) + 1
      BY <1>3
    <3> QED
      BY <1>3, <3>1, <3>2, <3>3
  <2>3. CASE i # place /\ j # place
    <3> DEFINE source(k) == IF k < place THEN k ELSE k - 1
    <3>1. /\ source(i) \in 1 .. Len(packets) /\ source(j) \in 1 .. Len(packets)
          /\ source(i) < source(j)
          /\ s[i] = packets[source(i)] /\ s[j] = packets[source(j)]
      BY <1>1, <1>3, <1>7, <2>3
    <3> HIDE DEF source
    <3> QED
      BY <1>5, <1>7, <3>1
  <2> QED
    BY <2>1, <2>2, <2>3
<1>8. ArrivedInOrder(s, longer)
  BY <1>6, <1>7 DEF ArrivedInOrder
<1> QED
  BY <1>8 DEF s, longer

LEMMA PushArrivedInOrder ==
  ASSUME NEW history \in Seq(Packet), NEW packets \in Seq(Packet),
         NEW packet \in Packet, NEW time \in Int, ArrivedInOrder(packets, history)
  PROVE  ArrivedInOrder(PushPacket(packets, packet, time), Append(history, packet))
<1> DEFINE inserted == Insert(packets, packet, time)
           result == PushPacket(packets, packet, time)
           longer == Append(history, packet)
<1>1. inserted \in Seq(Packet) /\ ArrivedInOrder(inserted, longer)
  BY InsertProperties, InsertArrivedInOrder
<1>2. result \in Seq(Packet) /\ (~IsOverloaded(inserted) => result = inserted)
  BY PushPacketProperties
<1>3. IsOverloaded(inserted) =>
        \E victim \in 1 .. Len(inserted) :
          /\ Len(result) = Len(inserted) - 1
          /\ \A k \in 1 .. Len(inserted) - 1 :
               result[k] = IF k < victim THEN inserted[k] ELSE inserted[k + 1]
  BY PushPacketProperties
<1> HIDE DEF inserted, result, longer
<1>4. ArrivedInOrder(result, longer)
  BY <1>1, <1>2, <1>3, RemovalArrivedInOrder
<1> QED
  BY <1>4 DEF result, longer

(***************************************************************************)
(* "otherwise the order remains unchanged": packets the comparator does    *)
(* not tell apart leave in the order they arrived, although others are     *)
(* inserted between them, dropped, removed and purged.                     *)
(***************************************************************************)
THEOREM FirstComeFirstServed == Spec => []ArrivalOrderKept
<1> DEFINE Inv == ArrivedInOrder(queue, arrivals)
<1>1. Init => Inv
  BY DEF Init, ArrivedInOrder
<1>2. TypeOK /\ Inv /\ [Next]_vars => Inv'
  <2> SUFFICES ASSUME TypeOK, ArrivedInOrder(queue, arrivals), [Next]_vars
               PROVE  ArrivedInOrder(queue', arrivals')
    BY DEF ArrivedInOrder, SameClass, IsDBFPacket, TMin
  <2>0. queue \in Seq(Packet) /\ arrivals \in Seq(Packet) /\ now \in Int
    BY DEF TypeOK
  <2>1. ASSUME NEW id \in Id, NEW slo \in Profile, NEW lag \in 0 .. MaxLag,
               Push(id, slo, lag)
        PROVE  ArrivedInOrder(queue', arrivals')
    <3> DEFINE packet == [id |-> id, slo |-> slo, tRcv |-> now - lag]
    <3>1. packet \in Packet
      BY <2>1, PushedPacketType DEF Push
    <3>2. queue' = PushPacket(queue, packet, now) /\ arrivals' = Append(arrivals, packet)
      BY <2>1 DEF Push
    <3> HIDE DEF packet
    <3> QED
      BY <2>0, <3>1, <3>2, PushArrivedInOrder
  <2>2. CASE PopPacket
    <3>1. /\ queue' \in Seq(Packet) /\ Len(queue') = Len(queue) - 1 /\ Len(queue) \in Nat
          /\ \A i \in 1 .. Len(queue') : queue'[i] = queue[i + 1]
          /\ queue # <<>> /\ arrivals' = arrivals
      BY <2>0, <2>2, HeadTailProperties DEF PopPacket
    <3>2. 1 \in 1 .. Len(queue)
      BY <2>0, <3>1
    <3>3. \A k \in 1 .. Len(queue) - 1 :
            queue'[k] = IF k < 1 THEN queue[k] ELSE queue[k + 1]
      BY <3>1
    <3> QED
      BY <2>0, <3>1, <3>2, <3>3, RemovalArrivedInOrder
  <2>3. ASSUME NEW position \in 1 .. Len(queue), RemovePacket(position)
        PROVE  ArrivedInOrder(queue', arrivals')
    <3>1. /\ queue' \in Seq(Packet) /\ Len(queue') = Len(queue) - 1
          /\ \A k \in 1 .. Len(queue) - 1 :
               queue'[k] = IF k < position THEN queue[k] ELSE queue[k + 1]
          /\ arrivals' = arrivals
      BY <2>0, <2>3, RemoveAtProperties DEF RemovePacket
    <3> QED
      BY <2>0, <3>1, RemovalArrivedInOrder
  <2>4. CASE LookForExpiredPackets
    <3>1. queue' = Purge(queue, now) /\ arrivals' = arrivals
      BY <2>4 DEF LookForExpiredPackets
    <3>2. ArrivedInOrder(Purge(queue, now), arrivals)
      BY <2>0, PurgeProperties, SubsequenceArrivedInOrder
    <3> QED
      BY <3>1, <3>2
  <2>5. CASE Tick
    BY <2>5 DEF Tick
  <2>6. CASE UNCHANGED vars
    BY <2>6 DEF vars
  <2> QED
    BY <2>1, <2>2, <2>3, <2>4, <2>5, <2>6 DEF Next
<1>3. Inv => ArrivalOrderKept
  BY DEF ArrivedInOrder, ArrivalOrderKept
<1> QED
  BY <1>1, <1>2, <1>3, TypeCorrect, PTL DEF Spec

-----------------------------------------------------------------------------
(* Who is dropped.                                                         *)

(* Only a push drops, and at most what it does not leave in the queue.     *)
LEMMA DropsOnPush ==
  ASSUME TypeOK, [Next]_vars, NEW victim \in dropped' \ dropped
  PROVE  \E packet \in Packet :
           /\ queue' = PushPacket(queue, packet, now)
           /\ victim \in (ToSet(queue) \cup {packet}) \ ToSet(queue')
<1>1. PICK id \in Id, slo \in Profile, lag \in 0 .. MaxLag : Push(id, slo, lag)
  BY DEF Next, vars, PopPacket, RemovePacket, LookForExpiredPackets, Tick
<1> DEFINE packet == [id |-> id, slo |-> slo, tRcv |-> now - lag]
<1>2. packet \in Packet
  BY <1>1, PushedPacketType DEF Push
<1>3. queue' = PushPacket(queue, packet, now) /\ dropped' = dropped \cup Overflow(packet)
  BY <1>1 DEF Push
<1> HIDE DEF packet
<1>4. victim \in (ToSet(queue) \cup {packet}) \ ToSet(queue')
  BY <1>3 DEF Overflow
<1> QED
  BY <1>2, <1>3, <1>4

(***************************************************************************)
(* A full queue does not drop a packet that can still be sent in time      *)
(* while it keeps one that cannot.                                         *)
(***************************************************************************)
THEOREM ExpiredFirst == Spec => ExpiredDroppedFirst
<1>1. ASSUME TypeOK, [Next]_vars, NEW victim \in dropped' \ dropped
      PROVE  \/ IsExpired(victim, now)
             \/ \A i \in 1 .. Len(queue') : ~IsExpired(queue'[i], now)
  <2>1. PICK packet \in Packet :
          /\ queue' = PushPacket(queue, packet, now)
          /\ victim \in (ToSet(queue) \cup {packet}) \ ToSet(queue')
    BY <1>1, DropsOnPush
  <2>2. queue \in Seq(Packet) /\ now \in Int
    BY <1>1 DEF TypeOK
  <2>3. queue' \in Seq(Packet)
    BY <2>1, <2>2, PushPacketProperties
  <2>4. IsExpired(victim, now) \/ \A other \in ToSet(queue') : ~IsExpired(other, now)
    BY <2>1, <2>2, PushContents
  <2> QED
    BY <2>3, <2>4, SetOfSeq
<1>2. TypeOK /\ [Next]_vars => [DropsExpiredFirst]_vars
  BY <1>1 DEF DropsExpiredFirst
<1> QED
  BY <1>2, TypeCorrect, PTL DEF Spec, ExpiredDroppedFirst

(***************************************************************************)
(* Among DBF packets none of which has expired, the packet dropped is one  *)
(* with the highest tMin.                                                  *)
(***************************************************************************)
THEOREM LatestDropped == Spec => LatestDbfPacketDropped
<1>1. ASSUME TypeOK, QueueOrder, [Next]_vars, NEW victim \in dropped' \ dropped,
             \A other \in ToSet(queue') \cup {victim} : IsDBFPacket(other),
             ~IsExpired(victim, now), NEW i \in 1 .. Len(queue')
      PROVE  TMin(queue'[i]) <= TMin(victim)
  <2>1. PICK packet \in Packet :
          /\ queue' = PushPacket(queue, packet, now)
          /\ victim \in (ToSet(queue) \cup {packet}) \ ToSet(queue')
    BY <1>1, DropsOnPush
  <2>2. queue \in Seq(Packet) /\ now \in Int /\ QueueInOrder(queue, now)
    BY <1>1 DEF TypeOK, QueueOrder
  <2>3. queue' \in Seq(Packet)
    BY <2>1, <2>2, PushPacketProperties
  <2>4. queue'[i] \in ToSet(queue')
    BY <2>3, SetOfSeq
  <2>5. InOrder(queue'[i], victim, now)
    BY <1>1, <2>1, <2>2, <2>4, PushContents
  <2> QED
    BY <1>1, <2>4, <2>5 DEF InOrder
<1>2. TypeOK /\ QueueOrder /\ [Next]_vars => [DropsLatest]_vars
  BY <1>1 DEF DropsLatest
<1> QED
  BY <1>2, TypeCorrect, AlwaysInOrder, PTL DEF Spec, LatestDbfPacketDropped
=============================================================================
