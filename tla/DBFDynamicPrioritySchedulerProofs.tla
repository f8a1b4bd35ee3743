------------------ MODULE DBFDynamicPrioritySchedulerProofs ------------------
(***************************************************************************)
(* Safety of the DBFDynamicPriorityScheduler for any classes, profiles,    *)
(* number of packets, capacity and lag.  What it shares with its base      *)
(* class, the pushes, the purge and the places of packets, is proved in    *)
(* DBFPrioritySchedulerProofs.                                             *)
(***************************************************************************)
EXTENDS DBFDynamicPriorityScheduler, DBFPrioritySchedulerProofs

-----------------------------------------------------------------------------
(* The dynamic priority orders the packets of a class.                     *)

LEMMA PriorityType ==
  ASSUME now \in Nat, NEW packet \in Packet, IsDBFPacket(packet)
  PROVE  /\ DynamicPriority(packet).passed \in Int
         /\ DynamicPriority(packet).window \in Int
         /\ DynamicPriority(packet).window > 0
<1>1. TMin(packet) \in Int /\ TMax(packet) \in Int
  BY PacketTypes
<1>2. Bounded(packet) => TMin(packet) < TMax(packet)
  BY <1>1, WindowNotEmpty DEF Bounded
<1>3. CASE Bounded(packet)
  <2>1. /\ DynamicPriority(packet).passed = now - TMin(packet)
        /\ DynamicPriority(packet).window = TMax(packet) - TMin(packet)
    BY <1>3 DEF DynamicPriority
  <2> QED
    BY <1>1, <1>2, <1>3, <2>1
<1>4. CASE ~Bounded(packet)
  BY <1>4 DEF DynamicPriority
<1> QED
  BY <1>3, <1>4

LEMMA OutranksTransitive ==
  ASSUME now \in Nat, NEW p \in Packet, NEW q \in Packet, NEW r \in Packet,
         Outranks(p, q), Outranks(q, r)
  PROVE  Outranks(p, r)
<1>1. IsDBFPacket(p) /\ IsDBFPacket(q)
  BY DEF Outranks
<1>2. CASE ~IsDBFPacket(r)
  BY <1>1, <1>2 DEF Outranks
<1>3. CASE IsDBFPacket(r)
  <2> DEFINE a == DynamicPriority(p).passed
             b == DynamicPriority(p).window
             c == DynamicPriority(q).passed
             d == DynamicPriority(q).window
             e == DynamicPriority(r).passed
             f == DynamicPriority(r).window
  <2>1. a * d > c * b /\ c * f > e * d
    BY <1>1, <1>3 DEF Outranks
  <2>2. /\ a \in Int /\ b \in Int /\ c \in Int /\ d \in Int /\ e \in Int /\ f \in Int
        /\ b > 0 /\ d > 0 /\ f > 0
    BY <1>1, <1>3, PriorityType
  <2> HIDE DEF a, b, c, d, e, f
  <2>3. a * f > e * b
    BY <2>1, <2>2, FractionsTransitive
  <2> QED
    BY <1>1, <1>3, <2>3 DEF Outranks, a, b, e, f
<1> QED
  BY <1>2, <1>3

LEMMA OutranksIrreflexive ==
  ASSUME now \in Nat, NEW p \in Packet
  PROVE  ~Outranks(p, p)
<1>1. CASE IsDBFPacket(p)
  <2> DEFINE a == DynamicPriority(p).passed
             b == DynamicPriority(p).window
  <2>1. a * b \in Int
    BY <1>1, PriorityType
  <2>2. ~(a * b > a * b)
    BY <2>1
  <2> QED
    BY <1>1, <2>2 DEF Outranks
<1>2. CASE ~IsDBFPacket(p)
  BY <1>2 DEF Outranks
<1> QED
  BY <1>1, <1>2

(***************************************************************************)
(* Of the first n packets of a queue, one is outranked by none of them: of *)
(* the smallest n for which that fails, the n-th would outrank the one     *)
(* that none of those before it outranks, and so be outranked by none.     *)
(***************************************************************************)
MostUrgentOf(queue, n) ==
  {i \in 1 .. n : \A k \in 1 .. n : ~Outranks(queue[k], queue[i])}

LEMMA MostUrgentExists ==
  ASSUME now \in Nat, NEW queue \in Seq(Packet), NEW n \in 1 .. Len(queue)
  PROVE  MostUrgentOf(queue, n) # {}
<1> DEFINE Without == {m \in 1 .. Len(queue) : MostUrgentOf(queue, m) = {}}
<1> SUFFICES ASSUME Without # {} PROVE FALSE
  OBVIOUS
<1>1. Without \in SUBSET Nat
  OBVIOUS
<1>2. PICK m \in Without : \A other \in Without : m <= other
  BY <1>1, MinOfNaturals
<1>3. m \in 1 .. Len(queue) /\ MostUrgentOf(queue, m) = {}
  BY <1>2
<1>4. \A i \in 1 .. m : queue[i] \in Packet
  BY <1>3, ElementOfSeq
<1>5. CASE m = 1
  <2>1. \A k \in 1 .. m : ~Outranks(queue[k], queue[1])
    BY <1>4, <1>5, OutranksIrreflexive
  <2> QED
    BY <1>3, <1>5, <2>1 DEF MostUrgentOf
<1>6. CASE m # 1
  <2>1. m - 1 \in 1 .. Len(queue) /\ m - 1 \notin Without
    BY <1>1, <1>2, <1>3, <1>6
  <2>2. PICK i \in 1 .. m - 1 : \A k \in 1 .. m - 1 : ~Outranks(queue[k], queue[i])
    BY <2>1 DEF MostUrgentOf
  <2>3. \A k \in 1 .. m : k \in 1 .. m - 1 \/ k = m
    BY <1>3
  <2>4. i \in 1 .. m /\ m \in 1 .. m
    BY <1>3, <2>1
  <2>5. CASE ~Outranks(queue[m], queue[i])
    <3>1. i \in MostUrgentOf(queue, m)
      BY <2>2, <2>3, <2>4, <2>5 DEF MostUrgentOf
    <3> QED
      BY <1>3, <3>1
  <2>6. CASE Outranks(queue[m], queue[i])
    <3>1. ASSUME NEW k \in 1 .. m PROVE ~Outranks(queue[k], queue[m])
      <4>1. CASE k \in 1 .. m - 1
        BY <1>4, <2>2, <2>4, <2>6, <4>1, OutranksTransitive
      <4>2. CASE k = m
        BY <1>4, <2>4, <4>2, OutranksIrreflexive
      <4> QED
        BY <2>3, <4>1, <4>2
    <3>2. m \in MostUrgentOf(queue, m)
      BY <2>4, <3>1 DEF MostUrgentOf
    <3> QED
      BY <1>3, <3>2
  <2> QED
    BY <2>5, <2>6
<1> QED
  BY <1>5, <1>6

(***************************************************************************)
(* The packet schedule() finds in a queue that is in order and has a ready *)
(* front is ready, and no ready packet of the queue outranks it.           *)
(***************************************************************************)
LEMMA HighestPriorityPacketProperties ==
  ASSUME now \in Nat, NEW queue \in Seq(Packet), QueueInOrder(queue, now),
         queue # <<>>, IsPacketReadyToSend(Head(queue), now)
  PROVE  LET packet == HighestPriorityPacket(queue)
         IN  /\ packet \in ToSet(queue) /\ IsPacketReadyToSend(packet, now)
             /\ \A other \in ToSet(queue) :
                  IsPacketReadyToSend(other, now) => ~Outranks(other, packet)
<1> DEFINE S == Scanned(queue)
           Best == {i \in S : \A k \in S : ~Outranks(queue[k], queue[i])}
<1>1. /\ S \in SUBSET Nat /\ S \in SUBSET (1 .. Len(queue)) /\ Len(queue) \in Nat
      /\ \A i \in S : IsPacketReadyToSend(queue[i], now)
      /\ \A i \in S : \A k \in 1 .. i : k \in S
  BY DEF Scanned
<1>2. 1 \in S
  <2>1. Head(queue) = queue[1] /\ 1 \in 1 .. Len(queue)
    OBVIOUS
  <2> QED
    BY <2>1 DEF Scanned
<1>3. ASSUME NEW j \in 1 .. Len(queue), IsPacketReadyToSend(queue[j], now)
      PROVE  j \in S
  <2>1. ReadyPacketsFirst(queue, now)
    BY OrderGivesReadyPrefix
  <2>2. ASSUME NEW k \in 1 .. j PROVE IsPacketReadyToSend(queue[k], now)
    <3>1. CASE k = j
      BY <1>3, <3>1
    <3>2. CASE k < j
      BY <1>3, <2>1, <3>2 DEF ReadyPacketsFirst
    <3> QED
      BY <3>1, <3>2
  <2> QED
    BY <2>2 DEF Scanned
<1> HIDE DEF S
<1>4. PICK n \in S : \A y \in S : y <= n
  <2>1. \A y \in S : y <= Len(queue)
    BY <1>1
  <2> QED
    BY <1>1, <1>2, <2>1, MaxOfNaturals
<1>5. S = 1 .. n /\ n \in 1 .. Len(queue)
  <2>1. n \in 1 .. Len(queue) /\ \A k \in 1 .. n : k \in S
    BY <1>1
  <2>2. \A y \in S : y \in 1 .. Len(queue) /\ y <= n
    BY <1>1, <1>4
  <2>3. \A y \in S : y \in 1 .. n
    BY <2>1, <2>2
  <2> QED
    BY <2>1, <2>3
<1>6. Best # {} /\ Best \in SUBSET Nat
  <2>1. MostUrgentOf(queue, n) # {}
    BY <1>5, MostUrgentExists
  <2>2. Best = MostUrgentOf(queue, n)
    BY <1>5 DEF MostUrgentOf
  <2> QED
    BY <1>1, <2>1, <2>2
<1>7. HighestPriorityPacket(queue) = queue[Min(Best)]
  BY DEF HighestPriorityPacket, S
<1>8. Min(Best) \in Best
  BY <1>6, MinOfNaturals
<1> DEFINE best == Min(Best)
<1>9. /\ best \in S /\ best \in 1 .. Len(queue)
      /\ \A k \in S : ~Outranks(queue[k], queue[best])
  BY <1>1, <1>8
<1> HIDE DEF Best, best
<1>10. ToSet(queue) = {queue[i] : i \in 1 .. Len(queue)}
  BY SetOfSeq
<1> QED
  BY <1>1, <1>3, <1>7, <1>9, <1>10 DEF best

-----------------------------------------------------------------------------
(* A push drops no last ready packet: the victim, if it has not expired,   *)
(* is the last of a queue in order.                                        *)
LEMMA PushKeepsReady ==
  ASSUME now \in Nat, NEW queue \in Seq(Packet), QueueInOrder(queue, now),
         NEW packet \in Packet, NEW ready \in ToSet(queue),
         IsPacketReadyToSend(ready, now), ~IsExpired(ready, now)
  PROVE  \E other \in ToSet(PushPacket(queue, packet, now)) :
           IsPacketReadyToSend(other, now) /\ ~IsExpired(other, now)
<1> DEFINE left == ToSet(PushPacket(queue, packet, now))
           all == ToSet(queue) \cup {packet}
<1>1. /\ left \subseteq all /\ left # {}
      /\ \A victim \in all \ left :
           /\ IsExpired(victim, now) \/ \A other \in left : ~IsExpired(other, now)
           /\ IsExpired(victim, now) \/ \A other \in left : InOrder(other, victim, now)
  BY PushContents
<1>2. all \subseteq Packet
  BY SetOfSeq
<1>3. ready \in all
  OBVIOUS
<1> HIDE DEF left, all
<1>4. CASE ready \in left
  BY <1>4 DEF left
<1>5. CASE ready \notin left
  <2>1. PICK other \in left : ~IsExpired(other, now) /\ InOrder(other, ready, now)
    BY <1>1, <1>3, <1>5
  <2>2. IsPacketReadyToSend(other, now)
    BY <1>1, <1>2, <1>3, <2>1, PacketTypes DEF InOrder, IsPacketReadyToSend
  <2> QED
    BY <2>1, <2>2 DEF left
<1> QED
  BY <1>4, <1>5

-----------------------------------------------------------------------------
(***************************************************************************)
(* The inductive invariant.  An armed message is due in the same instant   *)
(* and points to a packet that stands in the queue of the message, may be  *)
(* sent, and is the right choice: no class of higher priority has a ready  *)
(* packet, and no ready packet of its own class outranks it.  That the     *)
(* pointer stays good relies on the places of the packets (WellKept): only *)
(* with distinct identities is an unexpired packet never purged, and only  *)
(* in a queue in order does the dropper leave a ready packet in its place. *)
(***************************************************************************)
ArmedForMostUrgent ==
  selfMsg.state = "scheduled" =>
    LET delta == selfMsg.collectionIdx
    IN  /\ selfMsg.at = now /\ txIdleCounter = 1
        /\ \A other \in Delta : HasReady(collections, other) => delta <= other
        /\ \E packet \in ToSet(collections[delta]) :
             /\ scheduledPacket = {packet}
             /\ IsPacketReadyToSend(packet, now) /\ ~IsExpired(packet, now)
             /\ \A other \in ToSet(collections[delta]) :
                  IsPacketReadyToSend(other, now) => ~Outranks(other, packet)

DynamicIInv ==
  /\ DynamicTypeOK
  /\ NoDeletedMsg
  /\ CounterFollowsMac
  /\ WellKept
  /\ ArmedForMostUrgent
  /\ SentInWindow

(* The types of the variables that most lemmas need. *)
LEMMA DynamicTypes ==
  ASSUME DynamicIInv
  PROVE  /\ now \in Nat /\ collections \in QueuesType /\ fate \in [Id -> Fates]
         /\ fault = "none" /\ selfMsg.state \in {"none", "scheduled"}
         /\ selfMsg.state = "scheduled" => selfMsg.collectionIdx \in Delta
  BY DEF DynamicIInv, DynamicTypeOK, QueuesType, NoDeletedMsg, Msg, NoMsg

(* What a schedule() that finds a ready packet arms. *)
LEMMA ArmsMostUrgent ==
  ASSUME now \in Nat, NEW queues \in QueuesType, InOrderByClass(queues, now),
         ReadyToSend(queues) # {}
  PROVE  LET delta == ReadyCollection(queues)
             packet == HighestPriorityPacket(queues[delta])
         IN  /\ delta \in Delta
             /\ \A other \in Delta : HasReady(queues, other) => delta <= other
             /\ packet \in ToSet(queues[delta]) /\ packet \in Packet
             /\ IsPacketReadyToSend(packet, now) /\ ScheduleTime(packet) = now
             /\ \A other \in ToSet(queues[delta]) :
                  IsPacketReadyToSend(other, now) => ~Outranks(other, packet)
<1> DEFINE delta == ReadyCollection(queues)
           queue == queues[delta]
           packet == HighestPriorityPacket(queue)
<1>1. /\ delta \in ReadyToSend(queues)
      /\ \A other \in ReadyToSend(queues) : delta <= other
  BY LeastReadyClass DEF ReadyCollection
<1> HIDE DEF delta
<1>2. /\ delta \in Delta /\ queue # <<>> /\ IsPacketReadyToSend(Head(queue), now)
      /\ queue \in Seq(Packet) /\ QueueInOrder(queue, now)
  BY <1>1 DEF ReadyToSend, Backlogged, QueuesType, InOrderByClass
<1>3. \A other \in Delta : HasReady(queues, other) => delta <= other
  BY <1>1, ReadyClass
<1> HIDE DEF queue
<1>4. /\ packet \in ToSet(queue) /\ IsPacketReadyToSend(packet, now)
      /\ \A other \in ToSet(queue) :
           IsPacketReadyToSend(other, now) => ~Outranks(other, packet)
  BY <1>2, HighestPriorityPacketProperties
<1>5. packet \in Packet
  BY <1>2, <1>4, SetOfSeq
<1> HIDE DEF packet
<1>6. ScheduleTime(packet) = now
  BY <1>4, <1>5, PacketTypes DEF ScheduleTime, IsPacketReadyToSend
<1> QED
  BY <1>2, <1>3, <1>4, <1>5, <1>6 DEF packet, queue, delta

LEMMA SameInstant ==
  ASSUME now' = now, NEW p, NEW q
  PROVE  Outranks(p, q)' <=> Outranks(p, q)
  BY DEF Outranks, DynamicPriority

(* What the common part of two handlers does with an idle MAC ...          *)
LEMMA DynamicDispatchIdle ==
  ASSUME DynamicIInv, now' = now, txIdleCounter' = 1,
         NEW queues \in QueuesType, InOrderByClass(queues, now), NEW fates,
         DynamicDispatch(queues, fates, TRUE), ~ScheduledExpired(queues),
         selfMsg.state = "scheduled" => ReadyToSend(PurgeAll(queues)) # {}
  PROVE  /\ ArmedForMostUrgent' /\ NoDeletedMsg' /\ selfMsg' \in Msg \cup {NoMsg}
         /\ scheduledPacket' \subseteq Packet /\ Cardinality(scheduledPacket') <= 1
<1>0. now \in Nat /\ selfMsg.state \in {"none", "scheduled"}
  BY DynamicTypes
<1>1. PICK left : left = PurgeAll(queues)
  OBVIOUS
<1>2. /\ left \in QueuesType /\ InOrderByClass(left, now)
      /\ \A d \in Delta : \A p \in ToSet(left[d]) : ~IsExpired(p, now)
  BY <1>0, <1>1, PurgeAllProperties, PurgeAllContents
<1>3. collections' = left /\ DynamicAfterPurge(queues) = selfMsg
  BY <1>1 DEF DynamicDispatch, DynamicAfterPurge
<1>4. fault' = "none"
  BY <1>0, <1>1, <1>3 DEF DynamicDispatch, ScheduleFault
<1>5. CASE ReadyToSend(left) # {}
  <2>1. PICK delta, packet :
          delta = ReadyCollection(left) /\ packet = HighestPriorityPacket(left[delta])
    OBVIOUS
  <2>2. /\ scheduledPacket' = {packet}
        /\ selfMsg' = [state |-> "scheduled", collectionIdx |-> delta,
                       at |-> ScheduleTime(packet)]
    BY <1>1, <1>5, <2>1 DEF DynamicDispatch
  <2>3. /\ delta \in Delta
        /\ \A other \in Delta : HasReady(left, other) => delta <= other
        /\ packet \in ToSet(left[delta]) /\ packet \in Packet
        /\ IsPacketReadyToSend(packet, now) /\ ScheduleTime(packet) = now
        /\ \A other \in ToSet(left[delta]) :
             IsPacketReadyToSend(other, now) => ~Outranks(other, packet)
    BY <1>0, <1>2, <1>5, <2>1, ArmsMostUrgent
  <2>4. \A other \in Delta : HasReady(collections, other)' <=> HasReady(left, other)
    BY <1>3 DEF HasReady
  <2>5. selfMsg'.collectionIdx = delta /\ selfMsg'.at = now' /\ ~IsExpired(packet, now)
    BY <1>2, <2>2, <2>3
  <2>6. ASSUME NEW other \in ToSet(left[delta]), IsPacketReadyToSend(other, now)
        PROVE  ~Outranks(other, packet)'
    BY <2>3, <2>6, SameInstant
  <2>7. ArmedForMostUrgent'
    BY <1>3, <2>2, <2>3, <2>4, <2>5, <2>6 DEF ArmedForMostUrgent
  <2>8. selfMsg' \in Msg /\ selfMsg'.state = "scheduled"
    BY <1>0, <2>2, <2>3 DEF Msg
  <2>9. Cardinality(scheduledPacket') = 1
    BY <2>2, FS_Singleton
  <2> QED
    BY <1>4, <2>2, <2>3, <2>7, <2>8, <2>9 DEF NoDeletedMsg
<1>6. CASE ReadyToSend(left) = {}
  <2>1. selfMsg.state = "none" /\ selfMsg' = selfMsg /\ scheduledPacket' = scheduledPacket
    BY <1>0, <1>1, <1>3, <1>6 DEF DynamicDispatch
  <2> QED
    BY <1>4, <2>1 DEF DynamicIInv, DynamicTypeOK, ArmedForMostUrgent, NoDeletedMsg
<1> QED
  BY <1>5, <1>6

(* ... and while the MAC transmits.                                        *)
LEMMA DynamicDispatchBusy ==
  ASSUME DynamicIInv, selfMsg.state # "scheduled", NEW queues, NEW fates,
         DynamicDispatch(queues, fates, FALSE)
  PROVE  fault' = "none" /\ selfMsg' = selfMsg /\ scheduledPacket' = scheduledPacket
  BY DEF DynamicDispatch, DynamicAfterPurge, ScheduledExpired

(* The packet a message was armed for is not purged after a push, and the  *)
(* push leaves a ready packet in its queue even if it drops that one.      *)
LEMMA ArmedPacketSurvives ==
  ASSUME DynamicIInv, selfMsg.state = "scheduled", NEW packet \in Packet,
         fate[packet.id] = "new"
  PROVE  /\ ~ScheduledExpired(Pushed(packet))
         /\ ReadyToSend(PurgeAll(Pushed(packet))) # {}
<1> DEFINE delta == selfMsg.collectionIdx
           queue == collections[delta]
           queues == Pushed(packet)
           all == WaitingIn(collections) \cup {packet}
<1>1. /\ now \in Nat /\ collections \in QueuesType /\ fate \in [Id -> Fates]
      /\ delta \in Delta /\ KeptApart(collections, fate) /\ InOrderByClass(collections, now)
  BY DynamicTypes DEF DynamicIInv, WellKept
<1>2. PICK armed \in ToSet(queue) :
        /\ scheduledPacket = {armed}
        /\ IsPacketReadyToSend(armed, now) /\ ~IsExpired(armed, now)
  BY DEF DynamicIInv, ArmedForMostUrgent
<1> HIDE DEF delta
<1>3. /\ queues \in QueuesType
      /\ \A d \in Delta : queues[d] = IF d = packet.slo.delta
                                      THEN PushPacket(collections[d], packet, now)
                                      ELSE collections[d]
  BY <1>1, PushedProperties
<1>4. /\ WaitingIn(queues) \subseteq all
      /\ \A p, q \in all : p.id = q.id => p = q
      /\ InOrderByClass(queues, now)
  BY <1>1, PushedContents
<1>5. queue \in Seq(Packet) /\ QueueInOrder(queue, now)
  BY <1>1 DEF QueuesType, InOrderByClass
<1>6. armed \in all /\ armed \in Packet /\ armed.id \in Id
  BY <1>1, <1>2, WaitingPackets, PacketTypes
<1> HIDE DEF queues
<1>7. ~ScheduledExpired(queues)
  <2>1. armed.id \notin ExpiredIds(queues)
    <3>1. \A p \in WaitingIn(queues) : p.id = armed.id => ~IsExpired(p, now)
      BY <1>2, <1>4, <1>6
    <3> QED
      BY <1>1, <1>3, <1>6, <3>1, PurgeAllContents
  <2> QED
    BY <1>2, <2>1 DEF ScheduledExpired
<1>8. \E other \in ToSet(queues[delta]) :
        IsPacketReadyToSend(other, now) /\ ~IsExpired(other, now)
  <2>1. CASE delta = packet.slo.delta
    <3>1. queues[delta] = PushPacket(queue, packet, now)
      BY <1>1, <1>3, <2>1
    <3> HIDE DEF queue
    <3> QED
      BY <1>1, <1>2, <1>5, <3>1, PushKeepsReady
  <2>2. CASE delta # packet.slo.delta
    BY <1>1, <1>2, <1>3, <2>2
  <2> QED
    BY <2>1, <2>2
<1>9. ReadyToSend(PurgeAll(queues)) # {}
  <2> DEFINE left == PurgeAll(queues)
  <2>1. /\ left \in QueuesType /\ InOrderByClass(left, now)
        /\ ToSet(left[delta]) = {p \in ToSet(queues[delta]) : ~IsExpired(p, now)}
    BY <1>1, <1>3, <1>4, PurgeAllProperties, PurgeAllContents
  <2> HIDE DEF left
  <2>2. left[delta] \in Seq(Packet)
    BY <1>1, <2>1 DEF QueuesType
  <2>3. HasReady(left, delta)
    <3>1. \E other \in ToSet(left[delta]) : IsPacketReadyToSend(other, now)
      BY <1>8, <2>1
    <3> QED
      BY <2>2, <3>1, SetOfSeq DEF HasReady
  <2>4. delta \in ReadyToSend(left)
    BY <1>1, <2>1, <2>3, ReadyClass
  <2> QED
    BY <2>4 DEF left
<1> QED
  BY <1>7, <1>9 DEF queues

-----------------------------------------------------------------------------
(* The self message finds the packet it was armed for, and sends it.       *)
LEMMA DynamicSends ==
  ASSUME DynamicIInv, DynamicHandleSelfMsg
  PROVE  \E delta \in Delta : \E packet \in ToSet(collections[delta]) :
         \E rest \in Seq(Packet) :
           /\ packet.slo.delta = delta /\ packet \in Packet
           /\ IsPacketReadyToSend(packet, now) /\ ~IsExpired(packet, now)
           /\ \A other \in Delta : HasReady(collections, other) => delta <= other
           /\ \A other \in ToSet(collections[delta]) :
                IsPacketReadyToSend(other, now) => ~Outranks(other, packet)
           /\ Distinct(rest) /\ ToSet(rest) = ToSet(collections[delta]) \ {packet}
           /\ QueueInOrder(rest, now)
           /\ collections' = [collections EXCEPT ![delta] = rest]
           /\ fate' = [fate EXCEPT ![packet.id] = "sent"]
           /\ mac = "idle" /\ mac' = "transmitting" /\ onWire' = {FrameOf(packet)}
           /\ txIdleCounter = 1 /\ txIdleCounter' = 0
           /\ fault' = "none" /\ selfMsg' = NoMsg /\ scheduledPacket' = {} /\ now' = now
<1>1. /\ now \in Nat /\ collections \in QueuesType /\ fault = "none"
      /\ selfMsg.state = "scheduled"
  BY DynamicTypes DEF DynamicHandleSelfMsg
<1>2. PICK delta \in Delta : delta = selfMsg.collectionIdx
  BY <1>1, DynamicTypes
<1>3. PICK packet \in ToSet(collections[delta]) :
        /\ scheduledPacket = {packet}
        /\ IsPacketReadyToSend(packet, now) /\ ~IsExpired(packet, now)
        /\ \A other \in ToSet(collections[delta]) :
             IsPacketReadyToSend(other, now) => ~Outranks(other, packet)
  BY <1>1, <1>2 DEF DynamicIInv, ArmedForMostUrgent
<1>4. /\ txIdleCounter = 1
      /\ \A other \in Delta : HasReady(collections, other) => delta <= other
  BY <1>1, <1>2 DEF DynamicIInv, ArmedForMostUrgent
<1>5. mac = "idle"
  BY <1>1, <1>4 DEF DynamicIInv, CounterFollowsMac
<1>6. PICK queue : queue = collections[delta]
  OBVIOUS
<1>7. /\ queue \in Seq(Packet) /\ Distinct(queue) /\ QueueInOrder(queue, now)
      /\ packet \in ToSet(queue)
  BY <1>1, <1>3, <1>6 DEF QueuesType, DynamicIInv, WellKept, KeptApart, InOrderByClass
<1>8. packet.slo.delta = delta /\ packet \in Packet
  BY <1>3, <1>6, <1>7, SetOfSeq DEF DynamicIInv, WellKept, KeptApart
<1>9. PICK positions : positions = Position(packet)
  OBVIOUS
<1>10. /\ positions \in SUBSET Nat /\ positions # {} /\ positions \in SUBSET (1 .. Len(queue))
       /\ \A i \in positions : queue[i] = packet
  <2>1. positions = {i \in 1 .. Len(queue) : queue[i] = packet}
    BY <1>6, <1>8, <1>9 DEF Position
  <2>2. \E i \in 1 .. Len(queue) : queue[i] = packet
    BY <1>7, SetOfSeq
  <2>3. 1 .. Len(queue) \subseteq Nat
    BY <1>7
  <2> QED
    BY <2>1, <2>2, <2>3
<1>11. PICK position : position = Min(positions)
  OBVIOUS
<1>12. position \in 1 .. Len(queue) /\ queue[position] = packet
  BY <1>10, <1>11, MinOfNaturals
<1>13. DynamicSendFault = "none"
  BY <1>3, <1>4, <1>9, <1>10 DEF DynamicSendFault
<1>14. PICK rest : rest = RemoveAt(queue, position)
  OBVIOUS
<1>15. /\ rest \in Seq(Packet) /\ Distinct(rest) /\ QueueInOrder(rest, now)
       /\ ToSet(rest) = ToSet(queue) \ {packet}
  <2>1. now \in Int
    BY <1>1
  <2> QED
    BY <1>7, <1>12, <1>14, <2>1, RemoveAtContents, RemoveAtKeepsOrder
<1>16. /\ collections' = [collections EXCEPT ![delta] = rest]
       /\ txIdleCounter' = 0 /\ mac' = "transmitting" /\ onWire' = {FrameOf(packet)}
       /\ fate' = [fate EXCEPT ![packet.id] = "sent"]
       /\ fault' = "none" /\ selfMsg' = NoMsg /\ scheduledPacket' = {} /\ now' = now
  <2>1. /\ fault' = "none" /\ selfMsg' = NoMsg /\ scheduledPacket' = {} /\ now' = now
    BY <1>13 DEF DynamicHandleSelfMsg
  <2>2. \E p \in scheduledPacket :
          /\ collections' = [collections EXCEPT ![selfMsg.collectionIdx] =
                               RemoveAt(collections[selfMsg.collectionIdx], Min(Position(p)))]
          /\ txIdleCounter' = txIdleCounter - 1
          /\ mac' = "transmitting"
          /\ onWire' = {FrameOf(p)}
          /\ fate' = [fate EXCEPT ![p.id] = "sent"]
    BY <1>13 DEF DynamicHandleSelfMsg
  <2> QED
    BY <1>2, <1>3, <1>4, <1>6, <1>9, <1>11, <1>14, <2>1, <2>2
<1> QED
  BY <1>3, <1>4, <1>5, <1>6, <1>8, <1>15, <1>16

LEMMA DynamicInitIInv == DynamicInit => DynamicIInv
<1> SUFFICES ASSUME DynamicInit PROVE DynamicIInv
  OBVIOUS
<1>1. WellKept
  BY InitWellKept DEF DynamicInit
<1>2. Cardinality({}) = 0
  BY FS_EmptySet
<1> QED
  BY <1>1, <1>2
     DEF DynamicInit, Init, DynamicIInv, DynamicTypeOK, NoDeletedMsg, CounterFollowsMac,
         ArmedForMostUrgent, SentInWindow, NoMsg, Fates, DynamicFaults, Faults

LEMMA DynamicHandleMessageIInv ==
  ASSUME DynamicIInv, NEW id \in Id, NEW slo \in Profile, NEW lag \in 0 .. MaxLag,
         DynamicHandleMessage(id, slo, lag)
  PROVE  DynamicIInv'
<1>1. PICK packet : packet = [id |-> id, slo |-> slo, tRcv |-> now - lag]
  OBVIOUS
<1>2. PICK queues, fates : queues = Pushed(packet) /\ fates = FatesAfterPush(packet)
  OBVIOUS
<1>3. /\ now \in Nat /\ collections \in QueuesType /\ fate \in [Id -> Fates]
      /\ KeptApart(collections, fate) /\ InOrderByClass(collections, now)
  BY DynamicTypes DEF DynamicIInv, WellKept
<1>4. /\ fault = "none" /\ lag <= now /\ fate[id] = "new"
      /\ now' = now /\ txIdleCounter' = txIdleCounter /\ mac' = mac /\ onWire' = onWire
      /\ DynamicDispatch(queues, fates, txIdleCounter = 1)
  BY <1>1, <1>2 DEF DynamicHandleMessage, FatesAfterPush
<1>5. packet \in Packet /\ packet.id = id
  BY <1>1, <1>3, <1>4, ArrivingPacket
<1>6. /\ queues \in QueuesType /\ KeptApart(queues, fates) /\ InOrderByClass(queues, now)
  BY <1>2, <1>3, <1>4, <1>5, PushedProperties, PushedContents
<1>7. collections' = PurgeAll(queues) /\ fate' = FatesAfterPurge(queues, fates)
  BY <1>4 DEF DynamicDispatch, FatesAfterPurge
<1>8. WellKept'
  BY <1>3, <1>4, <1>6, <1>7, PurgeWellKept
<1>9. collections' \in QueuesType /\ fate' \in [Id -> Fates]
  <2>1. \A i \in Id : fates[i] \in Fates
    BY <1>2, <1>3, <1>5 DEF FatesAfterPush, Fates
  <2> QED
    BY <1>3, <1>6, <1>7, <2>1, PurgeAllProperties DEF FatesAfterPurge, Fates
<1>10. /\ ArmedForMostUrgent' /\ NoDeletedMsg' /\ selfMsg' \in Msg \cup {NoMsg}
       /\ scheduledPacket' \subseteq Packet /\ Cardinality(scheduledPacket') <= 1
  <2>1. CASE txIdleCounter = 1
    <3>1. DynamicDispatch(queues, fates, TRUE) /\ txIdleCounter' = 1
      BY <1>4, <2>1
    <3>2. ~ScheduledExpired(queues)
      <4>1. CASE selfMsg.state = "scheduled"
        BY <1>2, <1>4, <1>5, <4>1, ArmedPacketSurvives
      <4>2. CASE selfMsg.state # "scheduled"
        BY <4>2 DEF ScheduledExpired
      <4> QED
        BY <4>1, <4>2
    <3>3. selfMsg.state = "scheduled" => ReadyToSend(PurgeAll(queues)) # {}
      BY <1>2, <1>4, <1>5, ArmedPacketSurvives
    <3> QED
      BY <1>4, <1>6, <3>1, <3>2, <3>3, DynamicDispatchIdle
  <2>2. CASE txIdleCounter # 1
    <3>1. selfMsg.state # "scheduled"
      BY <2>2 DEF DynamicIInv, ArmedForMostUrgent
    <3>2. DynamicDispatch(queues, fates, FALSE)
      BY <1>4, <2>2
    <3>3. fault' = "none" /\ selfMsg' = selfMsg /\ scheduledPacket' = scheduledPacket
      BY <3>1, <3>2, DynamicDispatchBusy
    <3> QED
      BY <3>1, <3>3 DEF DynamicIInv, DynamicTypeOK, NoDeletedMsg, ArmedForMostUrgent
  <2> QED
    BY <2>1, <2>2
<1>11. DynamicTypeOK'
  BY <1>4, <1>9, <1>10
     DEF DynamicIInv, DynamicTypeOK, QueuesType, NoDeletedMsg, DynamicFaults, Faults
<1> QED
  BY <1>4, <1>8, <1>10, <1>11 DEF DynamicIInv, CounterFollowsMac, SentInWindow

LEMMA DynamicHandleSelfMsgIInv ==
  ASSUME DynamicIInv, DynamicHandleSelfMsg PROVE DynamicIInv'
<1>1. /\ now \in Nat /\ collections \in QueuesType /\ fate \in [Id -> Fates] /\ WellKept
  BY DynamicTypes DEF DynamicIInv
<1>2. PICK delta \in Delta : \E packet \in ToSet(collections[delta]) :
      \E rest \in Seq(Packet) :
        /\ packet \in Packet
        /\ IsPacketReadyToSend(packet, now) /\ ~IsExpired(packet, now)
        /\ Distinct(rest) /\ ToSet(rest) = ToSet(collections[delta]) \ {packet}
        /\ QueueInOrder(rest, now)
        /\ collections' = [collections EXCEPT ![delta] = rest]
        /\ fate' = [fate EXCEPT ![packet.id] = "sent"]
        /\ mac' = "transmitting" /\ onWire' = {FrameOf(packet)} /\ txIdleCounter' = 0
        /\ fault' = "none" /\ selfMsg' = NoMsg /\ scheduledPacket' = {} /\ now' = now
  BY DynamicSends, Zenon
<1>3. PICK packet \in ToSet(collections[delta]) : \E rest \in Seq(Packet) :
        /\ packet \in Packet
        /\ IsPacketReadyToSend(packet, now) /\ ~IsExpired(packet, now)
        /\ Distinct(rest) /\ ToSet(rest) = ToSet(collections[delta]) \ {packet}
        /\ QueueInOrder(rest, now)
        /\ collections' = [collections EXCEPT ![delta] = rest]
        /\ fate' = [fate EXCEPT ![packet.id] = "sent"]
        /\ mac' = "transmitting" /\ onWire' = {FrameOf(packet)} /\ txIdleCounter' = 0
        /\ fault' = "none" /\ selfMsg' = NoMsg /\ scheduledPacket' = {} /\ now' = now
  BY <1>2
<1>4. PICK rest \in Seq(Packet) :
        /\ Distinct(rest) /\ ToSet(rest) = ToSet(collections[delta]) \ {packet}
        /\ QueueInOrder(rest, now)
        /\ collections' = [collections EXCEPT ![delta] = rest]
  BY <1>3
<1>5. WellKept'
  BY <1>1, <1>3, <1>4, SendWellKept
<1>6. SentInWindow' /\ FrameOf(packet) \in Frame
  BY <1>1, <1>3, FrameInWindow
<1>7. DynamicTypeOK'
  <2>1. Cardinality({}) = 0
    BY FS_EmptySet
  <2> QED
    BY <1>1, <1>3, <1>4, <1>6, <2>1, PacketTypes
       DEF DynamicTypeOK, QueuesType, Fates, DynamicFaults, Faults
<1> QED
  BY <1>3, <1>5, <1>6, <1>7
     DEF DynamicIInv, NoDeletedMsg, CounterFollowsMac, ArmedForMostUrgent, NoMsg

LEMMA DynamicReceiveSignalIInv ==
  ASSUME DynamicIInv, DynamicReceiveSignal PROVE DynamicIInv'
<1>1. /\ now \in Nat /\ collections \in QueuesType /\ fate \in [Id -> Fates]
      /\ KeptApart(collections, fate) /\ InOrderByClass(collections, now)
  BY DynamicTypes DEF DynamicIInv, WellKept
<1>2. txIdleCounter = 0 /\ selfMsg.state # "scheduled"
  BY DEF DynamicReceiveSignal, DynamicIInv, CounterFollowsMac, ArmedForMostUrgent
<1>3. /\ now' = now /\ mac' = "idle" /\ onWire' = {} /\ txIdleCounter' = 1
      /\ DynamicDispatch(collections, fate, TRUE)
  <2>1. DynamicDispatch(collections, fate, TRUE)
    BY <1>2, Zenon DEF DynamicReceiveSignal
  <2>2. /\ now' = now /\ mac' = "idle" /\ onWire' = {} /\ txIdleCounter' = txIdleCounter + 1
    BY DEF DynamicReceiveSignal
  <2>3. txIdleCounter' = 1
    BY <1>2, <2>2
  <2> QED
    BY <2>1, <2>2, <2>3, Zenon
<1>4. collections' = PurgeAll(collections) /\ fate' = FatesAfterPurge(collections, fate)
  BY <1>3 DEF DynamicDispatch, FatesAfterPurge
<1>5. WellKept'
  BY <1>1, <1>3, <1>4, PurgeWellKept
<1>6. collections' \in QueuesType /\ fate' \in [Id -> Fates]
  BY <1>1, <1>4, PurgeAllProperties DEF FatesAfterPurge, Fates
<1>7. /\ ArmedForMostUrgent' /\ NoDeletedMsg' /\ selfMsg' \in Msg \cup {NoMsg}
      /\ scheduledPacket' \subseteq Packet /\ Cardinality(scheduledPacket') <= 1
  <2>1. ~ScheduledExpired(collections)
    BY <1>2 DEF ScheduledExpired
  <2> QED
    BY <1>1, <1>2, <1>3, <2>1, DynamicDispatchIdle
<1>8. DynamicTypeOK'
  BY <1>1, <1>3, <1>6, <1>7
     DEF DynamicTypeOK, QueuesType, NoDeletedMsg, DynamicFaults, Faults
<1> QED
  BY <1>3, <1>5, <1>7, <1>8 DEF DynamicIInv, CounterFollowsMac, SentInWindow

LEMMA DynamicTickIInv == ASSUME DynamicIInv, DynamicTick PROVE DynamicIInv'
<1>1. /\ now \in Nat /\ collections \in QueuesType
      /\ ~MessageDue /\ now' = now + 1
      /\ UNCHANGED <<collections, txIdleCounter, selfMsg, mac, onWire, fate, fault,
                     scheduledPacket>>
  BY DynamicTypes DEF DynamicTick, Tick
<1>2. selfMsg.state # "scheduled"
  BY <1>1 DEF MessageDue, DynamicIInv, ArmedForMostUrgent
<1>3. WellKept'
  <2>1. now' \in Nat /\ now <= now'
    BY <1>1
  <2> QED
    BY <1>1, <2>1, WellKeptInTime DEF DynamicIInv
<1> QED
  BY <1>1, <1>2, <1>3
     DEF DynamicIInv, DynamicTypeOK, NoDeletedMsg, CounterFollowsMac,
         ArmedForMostUrgent, SentInWindow

LEMMA DynamicStutterIInv == ASSUME DynamicIInv, UNCHANGED dynamicVars PROVE DynamicIInv'
<1>1. UNCHANGED vars /\ scheduledPacket' = scheduledPacket
  BY DEF dynamicVars
<1>2. ArmedForMostUrgent'
  <2>1. \A other \in Delta : HasReady(collections, other)' <=> HasReady(collections, other)
    BY <1>1 DEF vars, HasReady
  <2>2. \A p, q \in Packet : Outranks(p, q)' <=> Outranks(p, q)
    BY <1>1, SameInstant DEF vars
  <2>3. ASSUME selfMsg.state = "scheduled"
        PROVE  ToSet(collections[selfMsg.collectionIdx]) \subseteq Packet
    BY <2>3, DynamicTypes, WaitingPackets
  <2> QED
    BY <1>1, <2>1, <2>2, <2>3 DEF vars, DynamicIInv, ArmedForMostUrgent
<1> QED
  BY <1>1, <1>2
     DEF vars, DynamicIInv, DynamicTypeOK, NoDeletedMsg, CounterFollowsMac, WellKept,
         SentInWindow

(* Pointer, message, queues, counter and MAC belong together between the   *)
(* handlers of the dynamic scheduler.                                      *)
THEOREM DynamicInductiveInvariant == DynamicSpec => []DynamicIInv
<1>1. DynamicIInv /\ [DynamicNext]_dynamicVars => DynamicIInv'
  BY DynamicHandleMessageIInv, DynamicHandleSelfMsgIInv, DynamicReceiveSignalIInv,
     DynamicTickIInv, DynamicStutterIInv DEF DynamicNext
<1> QED
  BY DynamicInitIInv, <1>1, PTL DEF DynamicSpec

-----------------------------------------------------------------------------
(* The variables of the dynamic scheduler have their types.                *)
THEOREM DynamicTypeCorrect == DynamicSpec => []DynamicTypeOK
<1>1. DynamicIInv => DynamicTypeOK
  BY DEF DynamicIInv
<1> QED
  BY <1>1, DynamicInductiveInvariant, PTL

(* Every DBF packet leaves within its local queueing budget, whichever of  *)
(* the ready packets the dynamic priority picks.                           *)
THEOREM DynamicBudgetsKept == DynamicSpec => []SentInWindow
<1>1. DynamicIInv => SentInWindow
  BY DEF DynamicIInv
<1> QED
  BY <1>1, DynamicInductiveInvariant, PTL

(* The remembered pointer is good whenever the message it was remembered   *)
(* for arrives, whatever the dropper and the purge deleted meanwhile.      *)
THEOREM PointerStaysGood == DynamicSpec => []ScheduledPacketSendable
<1>1. DynamicIInv => ScheduledPacketSendable
  <2> SUFFICES ASSUME DynamicIInv, selfMsg.state = "scheduled"
               PROVE  ScheduledPacketSendable
    BY DEF ScheduledPacketSendable
  <2>1. PICK queue : queue = collections[selfMsg.collectionIdx]
    OBVIOUS
  <2>2. queue \in Seq(Packet)
    BY <2>1, DynamicTypes DEF QueuesType
  <2>3. PICK packet \in ToSet(queue) :
          /\ scheduledPacket = {packet}
          /\ IsPacketReadyToSend(packet, now) /\ ~IsExpired(packet, now)
    BY <2>1 DEF DynamicIInv, ArmedForMostUrgent
  <2>4. \E i \in 1 .. Len(queue) : queue[i] = packet
    BY <2>2, SetOfSeq
  <2>5. Cardinality(scheduledPacket) = 1
    BY <2>3, FS_Singleton
  <2> QED
    BY <2>1, <2>3, <2>4, <2>5
       DEF DynamicIInv, ArmedForMostUrgent, ScheduledPacketSendable
<1> QED
  BY <1>1, DynamicInductiveInvariant, PTL

(* Every packet is in exactly one place, here too. *)
THEOREM DynamicPacketsAccounted == DynamicSpec => []PacketsAccounted
<1>1. DynamicIInv => PacketsAccounted
  BY DynamicTypes, PlacesOfPacket DEF DynamicIInv, WellKept, PacketsAccounted
<1> QED
  BY <1>1, DynamicInductiveInvariant, PTL

(* No handler meets an error case, with any lag: no deleted message and no *)
(* message scheduled twice, no packet that is gone, no wrong counter.      *)
THEOREM DynamicNoRuntimeError == DynamicSpec => []NoRuntimeError
<1>1. DynamicIInv => NoRuntimeError
  BY DEF DynamicIInv, NoDeletedMsg, NoRuntimeError
<1> QED
  BY <1>1, DynamicInductiveInvariant, PTL

-----------------------------------------------------------------------------
(***************************************************************************)
(* What a step that puts a frame on the wire chose.  No other step does.   *)
(***************************************************************************)
LEMMA OnlySelfMsgSends ==
  ASSUME [DynamicNext]_dynamicVars, ~DynamicHandleSelfMsg
  PROVE  onWire' \ onWire = {}
  BY DEF DynamicNext, DynamicHandleMessage, DynamicReceiveSignal, DynamicTick, Tick,
         dynamicVars, vars

LEMMA SendsTheRightPacket ==
  ASSUME DynamicIInv, DynamicHandleSelfMsg
  PROVE  SendsHighestReady /\ SendsMostUrgent
<1>1. PICK delta \in Delta : \E packet \in ToSet(collections[delta]) :
        /\ packet.slo.delta = delta
        /\ \A other \in Delta : HasReady(collections, other) => delta <= other
        /\ \A other \in ToSet(collections[delta]) :
             IsPacketReadyToSend(other, now) => ~Outranks(other, packet)
        /\ onWire' = {FrameOf(packet)}
  BY DynamicSends, Zenon
<1>2. PICK packet \in ToSet(collections[delta]) :
        /\ packet.slo.delta = delta
        /\ \A other \in Delta : HasReady(collections, other) => delta <= other
        /\ \A other \in ToSet(collections[delta]) :
             IsPacketReadyToSend(other, now) => ~Outranks(other, packet)
        /\ onWire' = {FrameOf(packet)}
  BY <1>1
<1>3. \A frame \in onWire' : frame.packet = packet
  BY <1>2 DEF FrameOf
<1> QED
  BY <1>2, <1>3 DEF SendsHighestReady, SendsMostUrgent

(* A frame is sent only if no class of higher priority has a packet that   *)
(* may be sent: what the base class is said to do, and does not.           *)
THEOREM DynamicHighestPriorityFirst == DynamicSpec => HighestPriorityReadyFirst
<1>1. DynamicIInv /\ [DynamicNext]_dynamicVars => [SendsHighestReady]_vars
  BY SendsTheRightPacket, OnlySelfMsgSends DEF SendsHighestReady
<1> QED
  BY <1>1, DynamicInductiveInvariant, PTL DEF DynamicSpec, HighestPriorityReadyFirst

(* Within its class, the packet sent is one that none outranks.            *)
THEOREM MostUrgentFirst == DynamicSpec => MostUrgentSent
<1>1. DynamicIInv /\ [DynamicNext]_dynamicVars => [SendsMostUrgent]_dynamicVars
  BY SendsTheRightPacket, OnlySelfMsgSends DEF SendsMostUrgent
<1> QED
  BY <1>1, DynamicInductiveInvariant, PTL DEF DynamicSpec, MostUrgentSent

-----------------------------------------------------------------------------
(* Each handler is a step of TimedEgress, where time may pass at will.     *)
LEMMA DynamicNextRefined ==
  ASSUME DynamicIInv, [DynamicNext]_dynamicVars
  PROVE  [Egress!Next \/ Egress!Idle]_Egress!vars
<1>1. /\ now \in Nat /\ collections \in QueuesType /\ fate \in [Id -> Fates]
      /\ KeptApart(collections, fate)
  BY DynamicTypes DEF DynamicIInv, WellKept
<1>2. ASSUME NEW id \in Id, NEW slo \in Profile, NEW lag \in 0 .. MaxLag,
             DynamicHandleMessage(id, slo, lag)
      PROVE  Egress!Next
  <2>1. PICK packet : packet = [id |-> id, slo |-> slo, tRcv |-> now - lag]
    OBVIOUS
  <2>2. packet.id = id
    BY <2>1
  <2>3. /\ fate[id] = "new" /\ lag <= now
        /\ now' = now /\ mac' = mac /\ onWire' = onWire
        /\ collections' = PurgeAll(Pushed(packet))
        /\ fate' = FatesAfterPurge(Pushed(packet), FatesAfterPush(packet))
    BY <1>2, <2>1, <2>2
       DEF DynamicHandleMessage, DynamicDispatch, FatesAfterPurge, FatesAfterPush
  <2>4. Egress!Accept(id, slo, lag)
    BY <1>1, <2>1, <2>3, AcceptRefined
  <2> QED
    BY <2>4 DEF Egress!Next
<1>3. ASSUME DynamicHandleSelfMsg PROVE Egress!Next
  <2>1. PICK delta \in Delta : \E packet \in ToSet(collections[delta]) :
        \E rest \in Seq(Packet) :
          /\ IsPacketReadyToSend(packet, now) /\ ~IsExpired(packet, now)
          /\ Distinct(rest) /\ ToSet(rest) = ToSet(collections[delta]) \ {packet}
          /\ collections' = [collections EXCEPT ![delta] = rest]
          /\ fate' = [fate EXCEPT ![packet.id] = "sent"]
          /\ mac = "idle" /\ mac' = "transmitting" /\ onWire' = {FrameOf(packet)}
          /\ now' = now
    BY <1>3, DynamicSends, Zenon
  <2>2. PICK packet \in ToSet(collections[delta]) : \E rest \in Seq(Packet) :
          /\ IsPacketReadyToSend(packet, now) /\ ~IsExpired(packet, now)
          /\ Distinct(rest) /\ ToSet(rest) = ToSet(collections[delta]) \ {packet}
          /\ collections' = [collections EXCEPT ![delta] = rest]
          /\ fate' = [fate EXCEPT ![packet.id] = "sent"]
          /\ mac = "idle" /\ mac' = "transmitting" /\ onWire' = {FrameOf(packet)}
          /\ now' = now
    BY <2>1
  <2>3. PICK rest \in Seq(Packet) :
          /\ Distinct(rest) /\ ToSet(rest) = ToSet(collections[delta]) \ {packet}
          /\ collections' = [collections EXCEPT ![delta] = rest]
    BY <2>2
  <2>4. packet \in Waiting /\ Egress!Transmit(packet)
    BY <1>1, <2>2, <2>3, TransmitRefined
  <2> QED
    BY <2>4 DEF Egress!Next
<1>4. ASSUME DynamicReceiveSignal PROVE Egress!Next
  <2>1. txIdleCounter = 0
    BY <1>4 DEF DynamicReceiveSignal, DynamicIInv, CounterFollowsMac
  <2>2. DynamicDispatch(collections, fate, TRUE)
    BY <1>4, <2>1, Zenon DEF DynamicReceiveSignal
  <2>3. now' = now /\ mac # "idle" /\ mac' = "idle" /\ onWire' = {}
    BY <1>4 DEF DynamicReceiveSignal
  <2>4. collections' = PurgeAll(collections) /\ fate' = FatesAfterPurge(collections, fate)
    BY <2>2 DEF DynamicDispatch, FatesAfterPurge
  <2>5. Egress!LinkFree
    BY <1>1, <2>3, <2>4, LinkFreeRefined
  <2> QED
    BY <2>5 DEF Egress!Next
<1>5. ASSUME DynamicTick PROVE Egress!Idle
  BY <1>5 DEF DynamicTick, Tick, Egress!Idle, Waiting
<1>6. ASSUME UNCHANGED dynamicVars PROVE UNCHANGED Egress!vars
  BY <1>6 DEF dynamicVars, vars, Egress!vars, Waiting
<1> QED
  BY <1>2, <1>3, <1>4, <1>5, <1>6 DEF DynamicNext

(***************************************************************************)
(* The dynamic scheduler keeps what TimedEgress says of the packets.       *)
(***************************************************************************)
THEOREM RefinesTimedSafety == DynamicSpec => ImplementsTimedSafety
<1>1. DynamicInit => Egress!Init
  BY InitRefined DEF DynamicInit
<1>2. DynamicIInv /\ [DynamicNext]_dynamicVars => [Egress!Next \/ Egress!Idle]_Egress!vars
  BY DynamicNextRefined
<1> QED
  BY <1>1, <1>2, DynamicInductiveInvariant, PTL
     DEF DynamicSpec, Egress!SafeSpec, ImplementsTimedSafety
=============================================================================
