----------------------- MODULE DBFPriorityQueueProofs -----------------------
(***************************************************************************)
(* A DBFPriorityQueue, for any widths of classes, profiles, capacity and   *)
(* number of packets: every queue belongs to one class, no class with a    *)
(* deadline comes after that of the BE packets, the loop over the map      *)
(* finds the class it should, and seen by class this is a                  *)
(* DBFPriorityScheduler.                                                   *)
(***************************************************************************)
EXTENDS DBFPriorityQueue, DBFQueueOpsProofs

-----------------------------------------------------------------------------
(* The class of a packet.                                                  *)

(* Rounds of the while loop that leave it, and the first of them.          *)
Enough(lqbudget) == {n \in 1 .. lqbudget + 1 : DeltaSteps * n >= lqbudget}

IsRounding(best, lqbudget) ==
  best = [n \in 1 .. lqbudget + 1 |->
            IF lqbudget > DeltaSteps * n THEN best[n + 1] ELSE DeltaSteps * n]

LEMMA FirstEnough ==
  ASSUME NEW lqbudget \in Nat
  PROVE  \E c \in Enough(lqbudget) :
           /\ \A n \in Enough(lqbudget) : c <= n
           /\ SmallestMultiple(lqbudget) = DeltaSteps * c
<1> DEFINE s == DeltaSteps
           E == Enough(lqbudget)
           M == {delta \in {s * n : n \in 1 .. lqbudget + 1} : delta >= lqbudget}
<1>1. s \in Nat \ {0}
  BY ClassifierAssumption
<1>2. \A n \in 1 .. lqbudget + 1 : s * n \in Nat
  BY <1>1
<1>3. lqbudget + 1 \in E
  <2>1. s * (lqbudget + 1) >= 1 * (lqbudget + 1)
    BY <1>1
  <2> QED
    BY <1>2, <2>1 DEF Enough, s
<1>4. E \in SUBSET Nat
  BY DEF Enough
<1>5. PICK c \in E : \A n \in E : c <= n
  <2> HIDE DEF E
  <2> QED
    BY <1>3, <1>4, MinOfNaturals
<1>6. c \in 1 .. lqbudget + 1 /\ s * c >= lqbudget
  BY <1>5 DEF Enough
<1> HIDE DEF s
<1>7. s * c \in M /\ M \in SUBSET Nat
  BY <1>2, <1>6
<1>8. Min(M) \in M /\ \A delta \in M : Min(M) <= delta
  <2> HIDE DEF M
  <2> QED
    BY <1>7, MinOfNaturals
<1>9. PICK n \in 1 .. lqbudget + 1 : Min(M) = s * n /\ s * n >= lqbudget
  BY <1>8
<1>10. c <= n
  BY <1>5, <1>9 DEF Enough, s
<1>11. s * c <= s * n
  BY <1>1, <1>6, <1>9, <1>10
<1>12. Min(M) = s * c
  <2> HIDE DEF M
  <2>1. Min(M) <= s * c /\ s * c \in Nat /\ Min(M) \in Nat
    BY <1>2, <1>6, <1>7, <1>8, <1>9
  <2> QED
    BY <1>9, <1>11, <2>1
<1> QED
  BY <1>5, <1>12 DEF SmallestMultiple, s

(***************************************************************************)
(* The while loop of classifyPacket ends, and it finds the smallest class  *)
(* that fits, for every width of the classes and every budget.             *)
(***************************************************************************)
THEOREM LoopFindsSmallest ==
  ASSUME NEW lqbudget \in Nat
  PROVE  BestDelta(lqbudget) = SmallestMultiple(lqbudget)
<1> DEFINE s == DeltaSteps
<1>1. s \in Nat \ {0}
  BY ClassifierAssumption
<1>2. PICK c \in Enough(lqbudget) :
           /\ \A n \in Enough(lqbudget) : c <= n
           /\ SmallestMultiple(lqbudget) = s * c
  BY FirstEnough
<1>3. c \in 1 .. lqbudget + 1 /\ ~(lqbudget > s * c)
  BY <1>1, <1>2 DEF Enough
<1>4. \A n \in 1 .. lqbudget + 1 : s * n \in Nat
  BY <1>1
<1>5. ASSUME NEW n \in 1 .. lqbudget + 1
      PROVE  lqbudget > s * n <=> n < c
  <2>1. lqbudget > s * n <=> n \notin Enough(lqbudget)
    BY <1>4 DEF Enough
  <2>2. c <= n => s * c <= s * n
    BY <1>1, <1>3
  <2>3. c <= n => ~(lqbudget > s * n)
    BY <1>3, <1>4, <2>2
  <2> QED
    BY <1>2, <1>3, <2>1, <2>3
<1> HIDE DEF s
<1>6. \E best : IsRounding(best, lqbudget)
  <2> DEFINE best == [n \in 1 .. lqbudget + 1 |-> IF n < c THEN s * c ELSE s * n]
  <2>1. ASSUME NEW n \in 1 .. lqbudget + 1
        PROVE  best[n] = IF lqbudget > s * n THEN best[n + 1] ELSE s * n
    <3>1. CASE n < c
      <4>1. n + 1 \in 1 .. lqbudget + 1 /\ (n + 1 < c \/ n + 1 = c)
        BY <1>3, <3>1
      <4>2. best[n] = s * c /\ best[n + 1] = s * c
        BY <3>1, <4>1
      <4> QED
        BY <1>5, <3>1, <4>2
    <3>2. CASE ~(n < c)
      BY <1>5, <3>2
    <3> QED
      BY <3>1, <3>2
  <2>2. best = [n \in 1 .. lqbudget + 1 |-> best[n]]
    OBVIOUS
  <2> HIDE DEF best
  <2>3. IsRounding(best, lqbudget)
    BY <2>1, <2>2 DEF IsRounding, s
  <2> QED
    BY <2>3
<1> DEFINE loop == CHOOSE best : IsRounding(best, lqbudget)
<1>7. IsRounding(loop, lqbudget)
  BY <1>6
<1>8. BestDelta(lqbudget) = loop[1]
  BY DEF BestDelta, IsRounding
<1> HIDE DEF loop
<1>9. \A n \in 1 .. lqbudget + 1 :
        loop[n] = IF n < c THEN loop[n + 1] ELSE s * n
  BY <1>5, <1>7 DEF IsRounding, s
<1>10. \A k \in 0 .. c - 1 : loop[c - k] = s * c
  <2> DEFINE Bad == {k \in 0 .. c - 1 : loop[c - k] # s * c}
  <2>1. SUFFICES ASSUME Bad # {} PROVE FALSE
    OBVIOUS
  <2>2. PICK k \in Bad : \A j \in Bad : k <= j
    <3>1. Bad \in SUBSET Nat
      BY <1>3
    <3> HIDE DEF Bad
    <3> QED
      BY <2>1, <3>1, MinOfNaturals
  <2>3. k \in 0 .. c - 1 /\ loop[c - k] # s * c
    OBVIOUS
  <2>4. k # 0
    BY <1>3, <1>9, <2>3
  <2>5. k - 1 \in 0 .. c - 1 /\ k - 1 \notin Bad
    BY <1>3, <2>2, <2>3, <2>4
  <2>6. loop[c - (k - 1)] = s * c
    BY <2>5
  <2>7. /\ c - k \in 1 .. lqbudget + 1 /\ c - k < c
        /\ (c - k) + 1 = c - (k - 1)
    BY <1>3, <2>3, <2>4
  <2>8. loop[c - k] = loop[(c - k) + 1]
    BY <1>9, <2>7
  <2> QED
    BY <2>3, <2>6, <2>7, <2>8
<1>11. c - 1 \in 0 .. c - 1 /\ c - (c - 1) = 1
  BY <1>3
<1>12. loop[1] = s * c
  BY <1>10, <1>11
<1> QED
  BY <1>2, <1>8, <1>12

(* A budget is not above a multiple of the step: neither is its class.     *)
LEMMA BestDeltaBounded ==
  ASSUME NEW lqbudget \in Nat, NEW k \in Nat \ {0}, lqbudget < DeltaSteps * k
  PROVE  BestDelta(lqbudget) <= DeltaSteps * k
<1> DEFINE s == DeltaSteps
<1>1. s \in Nat \ {0} /\ s * k \in Nat /\ lqbudget < s * k
  BY ClassifierAssumption
<1>2. PICK c \in Enough(lqbudget) :
           /\ \A n \in Enough(lqbudget) : c <= n
           /\ SmallestMultiple(lqbudget) = s * c
  BY FirstEnough
<1>3. c \in 1 .. lqbudget + 1
  BY DEF Enough
<1>4. c <= k
  <2>1. CASE k <= lqbudget + 1
    <3>1. k \in Enough(lqbudget)
      BY <1>1, <2>1 DEF Enough
    <3> QED
      BY <1>2, <3>1
  <2>2. CASE k > lqbudget + 1
    BY <1>3, <2>2
  <2> QED
    BY <2>1, <2>2
<1>5. s * c <= s * k
  BY <1>1, <1>3, <1>4
<1> QED
  BY <1>2, <1>5, LoopFindsSmallest

LEMMA ClassNotBelowBestEffort ==
  ASSUME NEW slo \in Profile, MaximumDelta % DeltaSteps = 0
  PROVE  ClassifyPacket(slo) <= MaximumDelta
<1>1. slo.lqMin \in Int /\ slo.lqMax \in Int /\ LqBudget(slo) \in Nat
  BY ProfileAssumption DEF ProfileType, LqBudget
<1>2. DeltaSteps \in Nat \ {0} /\ MaximumDelta \in Nat
  BY ClassifierAssumption
<1>3. CASE slo.dbf /\ slo.finite /\ LqBudget(slo) < MaximumDelta
  <2> DEFINE k == MaximumDelta \div DeltaSteps
  <2>1. MaximumDelta = DeltaSteps * k /\ k \in Nat
    BY <1>2
  <2> HIDE DEF k
  <2>2. k # 0
    BY <1>1, <1>2, <1>3, <2>1
  <2>3. BestDelta(LqBudget(slo)) <= MaximumDelta
    BY <1>1, <1>3, <2>1, <2>2, BestDeltaBounded
  <2> QED
    BY <1>3, <2>3 DEF ClassifyPacket
<1>4. CASE ~(slo.dbf /\ slo.finite /\ LqBudget(slo) < MaximumDelta)
  BY <1>2, <1>4 DEF ClassifyPacket
<1> QED
  BY <1>3, <1>4

-----------------------------------------------------------------------------
(* What happens to a queue of one class.                                   *)

LEMMA PushKeepsClass ==
  ASSUME NEW queue \in Seq(Packet), NEW packet \in Packet, now \in Int,
         NEW delta, OfClass(queue, delta), ClassifyPacket(packet.slo) = delta
  PROVE  OfClass(PushPacket(queue, packet, now), delta)
<1> DEFINE inserted == Insert(queue, packet, now)
           result == PushPacket(queue, packet, now)
<1>1. inserted \in Seq(Packet) /\ OfClass(inserted, delta)
  <2>1. PICK place \in 1 .. Len(queue) + 1 :
          /\ inserted \in Seq(Packet)
          /\ Len(inserted) = Len(queue) + 1
          /\ \A k \in 1 .. Len(queue) + 1 :
               inserted[k] = IF k < place THEN queue[k]
                             ELSE IF k = place THEN packet ELSE queue[k - 1]
    BY InsertProperties
  <2> HIDE DEF inserted
  <2> SUFFICES ASSUME NEW k \in 1 .. Len(queue) + 1
               PROVE  ClassifyPacket(inserted[k].slo) = delta
    BY <2>1 DEF OfClass
  <2>2. CASE k < place
    <3>1. k \in 1 .. Len(queue)
      BY <2>2
    <3> QED
      BY <2>1, <2>2, <3>1 DEF OfClass
  <2>3. CASE k = place
    BY <2>1, <2>3
  <2>4. CASE k > place
    <3>1. k - 1 \in 1 .. Len(queue) /\ inserted[k] = queue[k - 1]
      BY <2>1, <2>4
    <3> QED
      BY <3>1 DEF OfClass
  <2> QED
    BY <2>2, <2>3, <2>4
<1>2. CASE ~IsOverloaded(inserted)
  BY <1>1, <1>2, PushPacketProperties
<1>3. CASE IsOverloaded(inserted)
  <2>1. PICK victim \in 1 .. Len(inserted) :
          /\ Len(result) = Len(inserted) - 1
          /\ \A k \in 1 .. Len(inserted) - 1 :
               result[k] = IF k < victim THEN inserted[k] ELSE inserted[k + 1]
    BY <1>3, PushPacketProperties
  <2> HIDE DEF inserted, result
  <2> QED
    BY <1>1, <2>1 DEF OfClass, result
<1> QED
  BY <1>2, <1>3

LEMMA PurgeKeepsClass ==
  ASSUME NEW queue \in Seq(Packet), now \in Int, NEW delta, OfClass(queue, delta)
  PROVE  OfClass(Purge(queue, now), delta)
<1> DEFINE result == Purge(queue, now)
<1>1. result \in Seq(Packet)
  BY PurgeProperties
<1>2. PICK f \in [1 .. Len(result) -> 1 .. Len(queue)] :
        \A i \in 1 .. Len(result) : result[i] = queue[f[i]]
  BY PurgeProperties
<1> HIDE DEF result
<1> QED
  BY <1>1, <1>2 DEF OfClass, result

-----------------------------------------------------------------------------
(***************************************************************************)
(* The inductive invariant.  What the message and the MAC do is of no      *)
(* importance to the classes.                                              *)
(***************************************************************************)
Indexed(map, queues) ==
  /\ \A delta \in DOMAIN map : map[delta] \in DOMAIN queues
  /\ \A idx \in DOMAIN queues : \E delta \in DOMAIN map : map[delta] = idx
  /\ \A delta1, delta2 \in DOMAIN map : map[delta1] = map[delta2] => delta1 = delta2

Sorted(map, queues) == \A delta \in DOMAIN map : OfClass(queues[map[delta]], delta)

ClassInv ==
  /\ now \in Nat
  /\ collections \in Seq(Seq(Packet))
  /\ Indexed(deltaQueueMap, collections)
  /\ Sorted(deltaQueueMap, collections)
  /\ DeadlinesAboveBestEffort

LEMMA InitClassInv == Init => ClassInv
<1> SUFFICES ASSUME Init PROVE ClassInv
  OBVIOUS
<1>1. now = 0 /\ collections = <<>> /\ deltaQueueMap = <<>>
  BY DEF Init
<1>2. DOMAIN deltaQueueMap = {} /\ DOMAIN collections = {}
  BY <1>1
<1>3. collections \in Seq(Seq(Packet))
  BY <1>1
<1> QED
  BY <1>1, <1>2, <1>3
     DEF ClassInv, Indexed, Sorted, DeadlinesAboveBestEffort

(* The purge leaves the queues in their places, and in their classes.      *)
LEMMA DispatchKeepsClasses ==
  ASSUME now \in Nat, now' = now, NEW queues \in Seq(Seq(Packet)), NEW map,
         NEW fates, NEW idle, Dispatch(queues, map, fates, idle),
         Indexed(map, queues), Sorted(map, queues)
  PROVE  /\ deltaQueueMap' = map /\ collections' \in Seq(Seq(Packet))
         /\ Indexed(deltaQueueMap, collections)'
         /\ Sorted(deltaQueueMap, collections)'
<1> DEFINE left == [idx \in DOMAIN queues |-> Purge(queues[idx], now)]
<1>1. deltaQueueMap' = map /\ collections' = left
  BY DEF Dispatch
<1>2. DOMAIN queues = 1 .. Len(queues) /\ Len(queues) \in Nat
  OBVIOUS
<1>3. \A idx \in DOMAIN queues : Purge(queues[idx], now) \in Seq(Packet)
  BY PurgeProperties
<1>4. left \in Seq(Seq(Packet)) /\ DOMAIN left = DOMAIN queues
  BY <1>2, <1>3
<1>5. Indexed(map, left)
  BY <1>4 DEF Indexed
<1>6. Sorted(map, left)
  <2> SUFFICES ASSUME NEW delta \in DOMAIN map PROVE OfClass(left[map[delta]], delta)
    BY DEF Sorted
  <2>1. map[delta] \in DOMAIN queues
    BY DEF Indexed
  <2>2. queues[map[delta]] \in Seq(Packet) /\ OfClass(queues[map[delta]], delta)
    BY <2>1 DEF Sorted
  <2>3. OfClass(Purge(queues[map[delta]], now), delta)
    BY <2>2, PurgeKeepsClass
  <2> QED
    BY <2>1, <2>3
<1> HIDE DEF left
<1>7. Indexed(deltaQueueMap, collections)' <=> Indexed(map, left)
  BY <1>1 DEF Indexed
<1>8. Sorted(deltaQueueMap, collections)' <=> Sorted(map, left)
  BY <1>1 DEF Sorted, OfClass
<1> QED
  BY <1>1, <1>4, <1>5, <1>6, <1>7, <1>8

(* The queue of a class, which is created when it is needed.               *)
LEMMA QueueForClass ==
  ASSUME ClassInv, NEW delta
  PROVE  LET idx == GetIndexOfQueueForDelta(delta)
             before == WithQueue(idx)
             map == WithIndex(delta)
         IN  /\ DOMAIN map = DOMAIN deltaQueueMap \cup {delta}
             /\ map[delta] = idx
             /\ \A d \in DOMAIN deltaQueueMap : map[d] = deltaQueueMap[d]
             /\ before \in Seq(Seq(Packet)) /\ idx \in DOMAIN before
             /\ \A k \in DOMAIN before : \/ k \in DOMAIN collections /\ before[k] = collections[k]
                                         \/ before[k] = <<>> /\ k = idx
             /\ \A k \in DOMAIN collections : k \in DOMAIN before /\ before[k] = collections[k]
             /\ before[idx] = QueueOf(delta)
             /\ Indexed(map, before) /\ Sorted(map, before)
<1> DEFINE idx == GetIndexOfQueueForDelta(delta)
           before == WithQueue(idx)
           map == WithIndex(delta)
<1>1. /\ now \in Int /\ collections \in Seq(Seq(Packet))
      /\ Indexed(deltaQueueMap, collections) /\ Sorted(deltaQueueMap, collections)
  BY DEF ClassInv
<1>2. /\ DOMAIN map = DOMAIN deltaQueueMap \cup {delta}
      /\ map[delta] = idx
      /\ \A d \in DOMAIN deltaQueueMap : map[d] = deltaQueueMap[d]
  BY DEF WithIndex, GetIndexOfQueueForDelta
<1>3. CASE delta \in DOMAIN deltaQueueMap
  <2>1. idx = deltaQueueMap[delta] /\ idx \in DOMAIN collections
    BY <1>1, <1>3 DEF GetIndexOfQueueForDelta, Indexed
  <2>2. before = collections
    BY <1>1, <2>1 DEF WithQueue
  <2>3. before[idx] = QueueOf(delta)
    BY <1>3, <2>1, <2>2 DEF QueueOf
  <2> HIDE DEF idx, before, map
  <2>4. Indexed(map, before) /\ Sorted(map, before)
    BY <1>1, <1>2, <1>3, <2>1, <2>2 DEF Indexed, Sorted
  <2> QED
    BY <1>1, <1>2, <2>1, <2>2, <2>3, <2>4 DEF idx, before, map
<1>4. CASE delta \notin DOMAIN deltaQueueMap
  <2>1. idx = Len(collections) + 1 /\ before = Append(collections, <<>>)
    BY <1>1, <1>4 DEF GetIndexOfQueueForDelta, WithQueue
  <2>2. QueueOf(delta) = <<>>
    BY <1>4 DEF QueueOf
  <2> HIDE DEF idx, before, map
  <2>3. <<>> \in Seq(Packet) /\ Len(collections) \in Nat
    BY <1>1
  <2>4. /\ before \in Seq(Seq(Packet)) /\ DOMAIN before = 1 .. Len(collections) + 1
        /\ DOMAIN collections = 1 .. Len(collections)
        /\ before[idx] = <<>> /\ idx \in DOMAIN before
        /\ \A k \in 1 .. Len(collections) : before[k] = collections[k]
    BY <1>1, <2>1, <2>3
  <2>5. \A k \in DOMAIN before : k \in DOMAIN collections \/ k = idx
    BY <2>1, <2>3, <2>4
  <2>6. Indexed(map, before)
    BY <1>1, <1>2, <1>4, <2>1, <2>3, <2>4 DEF Indexed
  <2>7. Sorted(map, before)
    <3>1. OfClass(before[idx], delta)
      BY <2>4 DEF OfClass
    <3> QED
      BY <1>1, <1>2, <2>4, <3>1 DEF Sorted, Indexed
  <2>8. \A k \in DOMAIN collections : k \in DOMAIN before /\ before[k] = collections[k]
    BY <2>3, <2>4
  <2> QED
    BY <1>2, <2>2, <2>4, <2>5, <2>6, <2>7, <2>8 DEF idx, before, map
<1> QED
  BY <1>3, <1>4

(* The queues with the new packet in the one of its class, which may have  *)
(* been created for it.                                                    *)
LEMMA PushClasses ==
  ASSUME ClassInv, NEW packet \in Packet, NEW delta, delta = ClassifyPacket(packet.slo)
  PROVE  LET idx == GetIndexOfQueueForDelta(delta)
             before == WithQueue(idx)
             after == [before EXCEPT ![idx] = PushPacket(@, packet, now)]
             map == WithIndex(delta)
         IN  /\ after \in Seq(Seq(Packet))
             /\ DOMAIN map = DOMAIN deltaQueueMap \cup {delta}
             /\ Indexed(map, after) /\ Sorted(map, after)
<1> DEFINE idx == GetIndexOfQueueForDelta(delta)
           before == WithQueue(idx)
           pushed == PushPacket(before[idx], packet, now)
           after == [before EXCEPT ![idx] = pushed]
           map == WithIndex(delta)
<1>1. now \in Int
  BY DEF ClassInv
<1>2. /\ DOMAIN map = DOMAIN deltaQueueMap \cup {delta} /\ map[delta] = idx
  BY QueueForClass
<1>3. /\ before \in Seq(Seq(Packet)) /\ idx \in DOMAIN before
      /\ Indexed(map, before) /\ Sorted(map, before)
  BY QueueForClass
<1> HIDE DEF idx, before, map
<1>4. before[idx] \in Seq(Packet) /\ OfClass(before[idx], delta)
  BY <1>2, <1>3 DEF Sorted
<1>5. pushed \in Seq(Packet) /\ OfClass(pushed, delta)
  BY <1>1, <1>4, PushPacketProperties, PushKeepsClass
<1> HIDE DEF pushed
<1>6. /\ after \in Seq(Seq(Packet)) /\ DOMAIN after = DOMAIN before
      /\ after[idx] = pushed
      /\ \A k \in DOMAIN before : k # idx => after[k] = before[k]
  BY <1>3, <1>5
<1> HIDE DEF after
<1>7. Indexed(map, after) /\ Sorted(map, after)
  BY <1>2, <1>3, <1>5, <1>6 DEF Indexed, Sorted
<1> QED
  BY <1>2, <1>6, <1>7 DEF after, pushed, before, idx, map

LEMMA HandleMessageClassInv ==
  ASSUME ClassInv, NEW id \in Id, NEW slo \in Profile, NEW lag \in 0 .. MaxLag,
         HandleMessage(id, slo, lag)
  PROVE  ClassInv'
<1> DEFINE packet == [id |-> id, slo |-> slo, tRcv |-> now - lag]
           delta == ClassifyPacket(slo)
           idx == GetIndexOfQueueForDelta(delta)
           before == WithQueue(idx)
           after == [before EXCEPT ![idx] = PushPacket(@, packet, now)]
           map == WithIndex(delta)
<1>1. PICK fates, idle : Dispatch(after, map, fates, idle)
  BY DEF HandleMessage
<1>2. now' = now /\ lag <= now /\ now \in Nat
  BY DEF HandleMessage, ClassInv
<1>3. packet \in Packet /\ packet.slo = slo
  BY <1>2, TimeAssumption DEF Packet
<1>4. /\ after \in Seq(Seq(Packet)) /\ DOMAIN map = DOMAIN deltaQueueMap \cup {delta}
      /\ Indexed(map, after) /\ Sorted(map, after)
  <2> HIDE DEF packet
  <2> QED
    BY <1>3, PushClasses
<1>5. DeadlinesAboveBestEffort /\ (MaximumDelta % DeltaSteps = 0 => delta <= MaximumDelta)
  BY ClassNotBelowBestEffort DEF ClassInv
<1> HIDE DEF map, after, delta
<1>6. /\ deltaQueueMap' = map /\ collections' \in Seq(Seq(Packet))
      /\ Indexed(deltaQueueMap, collections)' /\ Sorted(deltaQueueMap, collections)'
  BY <1>1, <1>2, <1>4, DispatchKeepsClasses
<1>7. DeadlinesAboveBestEffort'
  BY <1>4, <1>5, <1>6 DEF DeadlinesAboveBestEffort
<1> QED
  BY <1>2, <1>6, <1>7 DEF ClassInv

LEMMA HandleSelfMsgClassInv == ASSUME ClassInv, HandleSelfMsg PROVE ClassInv'
<1> DEFINE armed == selfMsg.collectionIdx
<1>1. /\ now' = now /\ deltaQueueMap' = deltaQueueMap
      /\ \/ collections' = collections
         \/ /\ SendFault = "none"
            /\ collections' = [collections EXCEPT ![armed] = Tail(collections[armed])]
  BY DEF HandleSelfMsg
<1>2. /\ collections \in Seq(Seq(Packet))
      /\ Indexed(deltaQueueMap, collections) /\ Sorted(deltaQueueMap, collections)
  BY DEF ClassInv
<1> HIDE DEF armed
<1>3. CASE collections' = collections
  BY <1>1, <1>3 DEF ClassInv, Indexed, Sorted, OfClass, DeadlinesAboveBestEffort
<1>4. CASE /\ SendFault = "none"
           /\ collections' = [collections EXCEPT ![armed] = Tail(collections[armed])]
  <2>1. collections[armed] # <<>>
    BY <1>4 DEF SendFault, armed
  <2>2. \A k \in DOMAIN collections : collections[k] \in Seq(Packet)
    BY <1>2
  <2>3. armed \in DOMAIN collections =>
          /\ Tail(collections[armed]) \in Seq(Packet)
          /\ \A i \in 1 .. Len(Tail(collections[armed])) :
               /\ i + 1 \in 1 .. Len(collections[armed])
               /\ Tail(collections[armed])[i] = collections[armed][i + 1]
    BY <2>1, <2>2
  <2>4. /\ collections' \in Seq(Seq(Packet)) /\ DOMAIN collections' = DOMAIN collections
        /\ \A k \in DOMAIN collections :
             collections'[k] = IF k = armed THEN Tail(collections[armed])
                                            ELSE collections[k]
    <3> DEFINE tail == Tail(collections[armed])
    <3>1. armed \in DOMAIN collections => tail \in Seq(Packet)
      BY <2>3
    <3>2. collections' = [collections EXCEPT ![armed] = tail]
      BY <1>4
    <3> HIDE DEF tail
    <3>3. /\ DOMAIN collections' = DOMAIN collections
          /\ \A k \in DOMAIN collections :
               collections'[k] = IF k = armed THEN tail ELSE collections[k]
      BY <3>2
    <3>4. DOMAIN collections = 1 .. Len(collections) /\ Len(collections) \in Nat
      BY <1>2
    <3>5. collections' = [k \in 1 .. Len(collections) |-> collections'[k]]
      BY <3>2, <3>4
    <3>6. \A k \in 1 .. Len(collections) : collections'[k] \in Seq(Packet)
      BY <2>2, <3>1, <3>3, <3>4
    <3>7. collections' \in Seq(Seq(Packet))
      BY <3>4, <3>5, <3>6
    <3> QED
      BY <3>3, <3>7 DEF tail
  <2>5. Indexed(deltaQueueMap, collections)'
    BY <1>1, <1>2, <2>4 DEF Indexed
  <2>6. Sorted(deltaQueueMap, collections)'
    <3> SUFFICES ASSUME NEW delta \in DOMAIN deltaQueueMap
                 PROVE  OfClass(collections'[deltaQueueMap[delta]], delta)
      BY <1>1 DEF Sorted, OfClass
    <3>1. /\ deltaQueueMap[delta] \in DOMAIN collections
          /\ OfClass(collections[deltaQueueMap[delta]], delta)
      BY <1>2 DEF Indexed, Sorted
    <3>2. CASE deltaQueueMap[delta] = armed
      <4> DEFINE tail == Tail(collections[armed])
      <4>1. collections'[deltaQueueMap[delta]] = tail /\ armed \in DOMAIN collections
        BY <2>4, <3>1, <3>2
      <4>2. \A i \in 1 .. Len(tail) :
              i + 1 \in 1 .. Len(collections[armed]) /\ tail[i] = collections[armed][i + 1]
        BY <2>3, <4>1
      <4> HIDE DEF tail
      <4> QED
        BY <3>1, <3>2, <4>1, <4>2 DEF OfClass
    <3>3. CASE deltaQueueMap[delta] # armed
      BY <2>4, <3>1, <3>3
    <3> QED
      BY <3>2, <3>3
  <2> QED
    BY <1>1, <2>4, <2>5, <2>6 DEF ClassInv, DeadlinesAboveBestEffort
<1> QED
  BY <1>1, <1>3, <1>4

LEMMA ReceiveSignalClassInv == ASSUME ClassInv, ReceiveSignal PROVE ClassInv'
<1>1. /\ now' = now
      /\ \/ Dispatch(collections, deltaQueueMap, fate, TRUE)
         \/ UNCHANGED <<deltaQueueMap, collections>>
  BY DEF ReceiveSignal
<1>2. CASE Dispatch(collections, deltaQueueMap, fate, TRUE)
  BY <1>1, <1>2, DispatchKeepsClasses DEF ClassInv, DeadlinesAboveBestEffort
<1>3. CASE UNCHANGED <<deltaQueueMap, collections>>
  BY <1>1, <1>3 DEF ClassInv, Indexed, Sorted, OfClass, DeadlinesAboveBestEffort
<1> QED
  BY <1>1, <1>2, <1>3

LEMMA OtherClassInv == ASSUME ClassInv, Tick \/ UNCHANGED vars PROVE ClassInv'
<1>1. now' \in Nat /\ UNCHANGED <<deltaQueueMap, collections>>
  BY DEF Tick, vars, ClassInv
<1> QED
  BY <1>1 DEF ClassInv, Indexed, Sorted, OfClass, DeadlinesAboveBestEffort

(* The invariant holds in every state of every behaviour.                  *)
THEOREM ClassInvariant == Spec => []ClassInv
<1>1. ClassInv /\ [Next]_vars => ClassInv'
  BY HandleMessageClassInv, HandleSelfMsgClassInv, ReceiveSignalClassInv,
     OtherClassInv DEF Next
<1> QED
  BY <1>1, InitClassInv, PTL DEF Spec

(* Every queue belongs to one class, and holds packets of that class only: *)
(* the indices that createDBFQueue hands out keep their meaning.           *)
THEOREM QueuesKeepClass == Spec => []OneQueuePerClass
<1>1. ClassInv => OneQueuePerClass
  <2> SUFFICES ASSUME ClassInv PROVE OneQueuePerClass
    OBVIOUS
  <2>1. Indexed(deltaQueueMap, collections) /\ Sorted(deltaQueueMap, collections)
    BY DEF ClassInv
  <2>2. ASSUME NEW idx \in DOMAIN collections
        PROVE  Cardinality({delta \in DOMAIN deltaQueueMap : deltaQueueMap[delta] = idx}) = 1
    <3>1. PICK delta \in DOMAIN deltaQueueMap : deltaQueueMap[delta] = idx
      BY <2>1 DEF Indexed
    <3>2. {other \in DOMAIN deltaQueueMap : deltaQueueMap[other] = idx} = {delta}
      BY <2>1, <3>1 DEF Indexed
    <3> QED
      BY <3>2, FS_Singleton
  <2> QED
    BY <2>1, <2>2 DEF OneQueuePerClass, Sorted
<1> QED
  BY <1>1, ClassInvariant, PTL

(* No packet with a deadline is ever in a class that determineCollection   *)
(* visits after that of the BE packets, if maximumDelta is a multiple of   *)
(* deltaSteps.                                                             *)
THEOREM DeadlinesFirst == Spec => []DeadlinesAboveBestEffort
<1>1. ClassInv => DeadlinesAboveBestEffort
  BY DEF ClassInv
<1> QED
  BY <1>1, ClassInvariant, PTL
-----------------------------------------------------------------------------
(* The index determineCollection returns.                                  *)

(***************************************************************************)
(* What the loop of determineCollection remembers after k rounds.          *)
(***************************************************************************)
AreRounds(best, queues, order, n) ==
  best = [k \in 0 .. n |->
            IF k = 0 THEN [idx |-> 0, found |-> FALSE]
                     ELSE Round(queues, best[k - 1], order[k])]

(* The recursive function is well defined.  (As a least counterexample.)   *)
LEMMA RoundsExist ==
  ASSUME NEW queues, NEW order, NEW n \in Nat
  PROVE  \E best : AreRounds(best, queues, order, n)
<1> DEFINE Bad == {m \in Nat : ~ \E best : AreRounds(best, queues, order, m)}
<1>1. SUFFICES ASSUME Bad # {} PROVE FALSE
  OBVIOUS
<1>2. PICK m \in Bad : \A k \in Bad : m <= k
  <2>1. Bad \in SUBSET Nat
    OBVIOUS
  <2> HIDE DEF Bad
  <2> QED
    BY <1>1, <2>1, MinOfNaturals
<1>3. m \in Nat /\ ~ \E best : AreRounds(best, queues, order, m)
  OBVIOUS
<1>4. m # 0
  <2> DEFINE best == [k \in 0 .. 0 |-> [idx |-> 0, found |-> FALSE]]
  <2>1. \A k \in 0 .. 0 : k = 0
    OBVIOUS
  <2>2. AreRounds(best, queues, order, 0)
    BY <2>1 DEF AreRounds
  <2> QED
    BY <1>3, <2>2
<1>5. m - 1 \in Nat /\ m - 1 \notin Bad
  BY <1>2, <1>3, <1>4
<1>6. PICK best : AreRounds(best, queues, order, m - 1)
  BY <1>5
<1> DEFINE last == Round(queues, best[m - 1], order[m])
           next == [k \in 0 .. m |-> IF k = m THEN last ELSE best[k]]
<1>7. ASSUME NEW k \in 0 .. m
      PROVE  next[k] = IF k = 0 THEN [idx |-> 0, found |-> FALSE]
                                ELSE Round(queues, next[k - 1], order[k])
  <2>1. CASE k = m
    <3>1. next[k] = last /\ next[k - 1] = best[m - 1]
      BY <1>3, <1>4, <2>1
    <3> QED
      BY <1>4, <2>1, <3>1
  <2>2. CASE k # m
    <3>1. k \in 0 .. m - 1 /\ next[k] = best[k]
      BY <1>3, <2>2
    <3>2. k # 0 => next[k - 1] = best[k - 1]
      BY <1>3, <3>1
    <3>3. best[k] = IF k = 0 THEN [idx |-> 0, found |-> FALSE]
                             ELSE Round(queues, best[k - 1], order[k])
      BY <1>6, <3>1 DEF AreRounds
    <3> QED
      BY <3>1, <3>2, <3>3
  <2> QED
    BY <2>1, <2>2
<1> HIDE DEF last
<1>8. next = [k \in 0 .. m |-> next[k]]
  OBVIOUS
<1> HIDE DEF next
<1>9. AreRounds(next, queues, order, m)
  BY <1>7, <1>8 DEF AreRounds
<1> QED
  BY <1>3, <1>9

LEMMA LoopIsLastRound ==
  ASSUME NEW queues, NEW order, Len(order) \in Nat
  PROVE  \E best : /\ AreRounds(best, queues, order, Len(order))
                   /\ Loop(queues, order) = best[Len(order)].idx
<1> DEFINE n == Len(order)
           loop == CHOOSE best : AreRounds(best, queues, order, n)
<1>1. AreRounds(loop, queues, order, n)
  BY RoundsExist
<1>2. Loop(queues, order) = loop[n].idx
  BY DEF Loop, AreRounds
<1> QED
  BY <1>1, <1>2

(***************************************************************************)
(* The loop returns the first index whose front is ready; without one, the *)
(* last index with a packet, and without a packet 0.                       *)
(***************************************************************************)
Ready(queue) == IsPacketReadyToSend(Head(queue), now)

FirstReady(queues, order, k) ==
  /\ queues[order[k]] # <<>> /\ Ready(queues[order[k]])
  /\ \A j \in 1 .. k - 1 : queues[order[j]] = <<>> \/ ~Ready(queues[order[j]])

LastUnready(queues, order, n, k) ==
  /\ queues[order[k]] # <<>>
  /\ \A j \in 1 .. n : queues[order[j]] = <<>> \/ ~Ready(queues[order[j]])
  /\ \A j \in k + 1 .. n : queues[order[j]] = <<>>

AfterRounds(best, queues, order, n) ==
  \/ best.found = TRUE
     /\ \E k \in 1 .. n : best.idx = order[k] /\ FirstReady(queues, order, k)
  \/ best.found = FALSE
     /\ \E k \in 1 .. n : best.idx = order[k] /\ LastUnready(queues, order, n, k)
  \/ best.found = FALSE
     /\ best.idx = 0 /\ \A j \in 1 .. n : queues[order[j]] = <<>>

LEMMA RoundResult ==
  ASSUME NEW queues, NEW order, NEW best, NEW n \in Nat,
         AfterRounds(best, queues, order, n)
  PROVE  AfterRounds(Round(queues, best, order[n + 1]), queues, order, n + 1)
<1> DEFINE idx == order[n + 1]
           next == Round(queues, best, idx)
<1>1. Ready(queues[idx]) \in BOOLEAN
  BY DEF Ready, IsPacketReadyToSend
<1>2. \A k \in 1 .. n + 1 : k \in 1 .. n \/ k = n + 1
  OBVIOUS
<1>3. CASE best.found
  <2>1. next = best
    BY <1>3 DEF Round
  <2>2. PICK k \in 1 .. n : best.idx = order[k] /\ FirstReady(queues, order, k)
    BY <1>3 DEF AfterRounds
  <2>3. k \in 1 .. n + 1
    OBVIOUS
  <2> QED
    BY <1>3, <2>1, <2>2, <2>3 DEF AfterRounds
<1>4. CASE ~best.found /\ queues[idx] = <<>>
  <2>1. next = best
    BY <1>4 DEF Round
  <2>2. CASE best.idx = 0 /\ \A j \in 1 .. n : queues[order[j]] = <<>>
    BY <1>2, <1>4, <2>1, <2>2 DEF AfterRounds
  <2>3. CASE \E k \in 1 .. n : best.idx = order[k] /\ LastUnready(queues, order, n, k)
    <3>1. PICK k \in 1 .. n : best.idx = order[k] /\ LastUnready(queues, order, n, k)
      BY <2>3
    <3>2. k \in 1 .. n + 1 /\ \A j \in k + 1 .. n + 1 : j \in k + 1 .. n \/ j = n + 1
      OBVIOUS
    <3>3. LastUnready(queues, order, n + 1, k)
      BY <1>2, <1>4, <3>1, <3>2 DEF LastUnready
    <3> QED
      BY <1>4, <2>1, <3>1, <3>2, <3>3 DEF AfterRounds
  <2> QED
    BY <1>4, <2>2, <2>3 DEF AfterRounds
<1>5. CASE ~best.found /\ queues[idx] # <<>>
  <2>1. next.idx = idx /\ next.found = Ready(queues[idx])
    BY <1>5 DEF Round, Ready
  <2>2. n + 1 \in 1 .. n + 1 /\ (n + 1) - 1 = n /\ n + 2 .. n + 1 = {}
    OBVIOUS
  <2>3. \A j \in 1 .. n : queues[order[j]] = <<>> \/ ~Ready(queues[order[j]])
    BY <1>5 DEF AfterRounds, LastUnready
  <2>4. CASE Ready(queues[idx])
    <3>1. FirstReady(queues, order, n + 1)
      BY <1>5, <2>2, <2>3, <2>4 DEF FirstReady
    <3> QED
      BY <1>1, <2>1, <2>2, <2>4, <3>1 DEF AfterRounds
  <2>5. CASE ~Ready(queues[idx])
    <3>1. LastUnready(queues, order, n + 1, n + 1)
      BY <1>2, <1>5, <2>2, <2>3, <2>5 DEF LastUnready
    <3> QED
      BY <1>1, <2>1, <2>2, <2>5, <3>1 DEF AfterRounds
  <2> QED
    BY <2>4, <2>5
<1> QED
  BY <1>3, <1>4, <1>5 DEF AfterRounds

LEMMA LoopResult ==
  ASSUME NEW queues, NEW order, Len(order) \in Nat
  PROVE  LET n == Len(order)
             chosen == Loop(queues, order)
         IN  \/ \E k \in 1 .. n : chosen = order[k] /\ FirstReady(queues, order, k)
             \/ \E k \in 1 .. n : chosen = order[k] /\ LastUnready(queues, order, n, k)
             \/ chosen = 0 /\ \A j \in 1 .. n : queues[order[j]] = <<>>
<1> DEFINE n == Len(order)
<1>1. PICK best : /\ AreRounds(best, queues, order, n)
                  /\ Loop(queues, order) = best[n].idx
  BY LoopIsLastRound
<1>2. /\ best[0] = [idx |-> 0, found |-> FALSE]
      /\ \A k \in 1 .. n : best[k] = Round(queues, best[k - 1], order[k])
  <2>1. 0 \in 0 .. n /\ \A k \in 1 .. n : k \in 0 .. n /\ k # 0
    OBVIOUS
  <2> HIDE DEF n
  <2> QED
    BY <1>1, <2>1 DEF AreRounds
<1> DEFINE Bad == {m \in 0 .. n : ~AfterRounds(best[m], queues, order, m)}
<1>3. Bad = {}
  <2>1. SUFFICES ASSUME Bad # {} PROVE FALSE
    OBVIOUS
  <2>2. PICK m \in Bad : \A k \in Bad : m <= k
    <3>1. Bad \in SUBSET Nat
      OBVIOUS
    <3> HIDE DEF Bad
    <3> QED
      BY <2>1, <3>1, MinOfNaturals
  <2>3. m \in 0 .. n /\ ~AfterRounds(best[m], queues, order, m)
    OBVIOUS
  <2>4. m # 0
    <3>1. 1 .. 0 = {}
      OBVIOUS
    <3>2. AfterRounds(best[0], queues, order, 0)
      BY <1>2, <3>1 DEF AfterRounds
    <3> QED
      BY <2>3, <3>2
  <2>5. m - 1 \in 0 .. n /\ m - 1 \notin Bad /\ m \in 1 .. n /\ m - 1 \in Nat /\ (m - 1) + 1 = m
    BY <2>2, <2>3, <2>4
  <2>6. AfterRounds(best[m - 1], queues, order, m - 1)
    BY <2>5
  <2>7. AfterRounds(best[m], queues, order, m)
    BY <1>2, <2>5, <2>6, RoundResult
  <2> QED
    BY <2>3, <2>7
<1>4. AfterRounds(best[n], queues, order, n)
  <2>1. n \in 0 .. n
    OBVIOUS
  <2> HIDE DEF n
  <2> QED
    BY <1>3, <2>1
<1> QED
  BY <1>1, <1>4 DEF AfterRounds

-----------------------------------------------------------------------------
(* The operators the scheduler has in common with this module.            *)

(* The operators on packets mean the same in the scheduler.                *)
LEMMA SamePackets ==
  /\ \A packet : Scheduler!IsDBFPacket(packet) = IsDBFPacket(packet)
  /\ \A packet : Scheduler!TMin(packet) = TMin(packet)
  /\ \A packet, time : Scheduler!IsExpired(packet, time) = IsExpired(packet, time)
  /\ \A packet, time :
       Scheduler!IsPacketReadyToSend(packet, time) = IsPacketReadyToSend(packet, time)
  BY DEF Scheduler!IsDBFPacket, Scheduler!TMin, Scheduler!TMax, Scheduler!HasInfiniteDmax,
         Scheduler!IsExpired, Scheduler!IsPacketReadyToSend,
         IsDBFPacket, TMin, TMax, HasInfiniteDmax, IsExpired, IsPacketReadyToSend

LEMMA SameExtremes ==
  ASSUME NEW S
  PROVE  Scheduler!Min(S) = Min(S) /\ Scheduler!Max(S) = Max(S)
  BY DEF Scheduler!Min, Min, Scheduler!Max, Max

LEMMA SameInsertPosition ==
  ASSUME NEW queue, NEW packet, NEW time
  PROVE  Scheduler!InsertPosition(queue, packet, time) = InsertPosition(queue, packet, time)
<1> DEFINE I == {i \in 1 .. Len(queue) : ~Precedes(packet, queue[i], time)}
           J == {i \in 1 .. Len(queue) : ~Scheduler!Precedes(packet, queue[i], time)}
<1>1. I = J
  BY SamePackets DEF Scheduler!Precedes, Precedes
<1>2. InsertPosition(queue, packet, time) = 1 + (IF I # {} THEN Max(I) ELSE 0)
  BY DEF InsertPosition, SelectLastInSeq
<1>3. Scheduler!InsertPosition(queue, packet, time)
        = 1 + (IF J # {} THEN Scheduler!Max(J) ELSE 0)
  BY DEF Scheduler!InsertPosition, Scheduler!SelectLastInSeq
<1> HIDE DEF I, J
<1> QED
  BY <1>1, <1>2, <1>3, SameExtremes

LEMMA SameSelection ==
  ASSUME NEW queue, NEW time
  PROVE  Scheduler!SelectPacket(queue, time) = SelectPacket(queue, time)
<1> DEFINE I == {i \in 1 .. Len(queue) : IsExpired(queue[i], time)}
           J == {i \in 1 .. Len(queue) : Scheduler!IsExpired(queue[i], time)}
           first == IF I # {} THEN Min(I) ELSE 0
           theirs == IF J # {} THEN Scheduler!Min(J) ELSE 0
<1>1. I = J
  BY SamePackets
<1>2. SelectPacket(queue, time) = IF first # 0 THEN first ELSE Len(queue)
  BY DEF SelectPacket, SelectInSeq
<1>3. Scheduler!SelectPacket(queue, time) = IF theirs # 0 THEN theirs ELSE Len(queue)
  BY DEF Scheduler!SelectPacket, Scheduler!SelectInSeq
<1>4. first = theirs
  <2> HIDE DEF I, J
  <2> QED
    BY <1>1, SameExtremes
<1> HIDE DEF first, theirs
<1> QED
  BY <1>2, <1>3, <1>4

LEMMA SamePush ==
  ASSUME NEW queue, NEW packet, NEW time
  PROVE  Scheduler!PushPacket(queue, packet, time) = PushPacket(queue, packet, time)
<1>1. Scheduler!Insert(queue, packet, time) = Insert(queue, packet, time)
  BY SameInsertPosition DEF Scheduler!Insert, Insert, Scheduler!InsertAt, InsertAt
<1>2. \A s : Scheduler!IsOverloaded(s) = IsOverloaded(s)
  BY DEF Scheduler!IsOverloaded, IsOverloaded
<1>3. \A s, i : Scheduler!RemoveAt(s, i) = RemoveAt(s, i)
  BY DEF Scheduler!RemoveAt, RemoveAt
<1> QED
  BY <1>1, <1>2, <1>3, SameSelection DEF Scheduler!PushPacket, PushPacket

LEMMA SamePurge ==
  ASSUME NEW queue, NEW time
  PROVE  Scheduler!Purge(queue, time) = Purge(queue, time)
<1>1. Scheduler!Unexpired(queue, time) = Unexpired(queue, time)
  BY SamePackets DEF Scheduler!Unexpired, Unexpired
<1>2. \A S : Scheduler!Cardinality(S) = Cardinality(S)
  BY DEF Scheduler!Cardinality, Cardinality
<1>3. \A S : Scheduler!Enumeration(S) = Enumeration(S)
  BY <1>2 DEF Scheduler!Enumeration, Enumeration
<1> QED
  BY <1>1, <1>2, <1>3 DEF Scheduler!Purge, Purge

LEMMA SameScheduleTime ==
  ASSUME NEW packet
  PROVE  Scheduler!ScheduleTime(packet) = ScheduleTime(packet)
  BY SamePackets DEF Scheduler!ScheduleTime, ScheduleTime

(* The queues by class.                                                    *)
ByClass(queues, map) ==
  [delta \in Delta |-> IF delta \in DOMAIN map THEN queues[map[delta]] ELSE <<>>]

LEMMA ChosenClass ==
  ASSUME NEW map, NEW queues, Len(queues) \in Nat, DOMAIN queues = 1 .. Len(queues),
         Indexed(map, queues), DOMAIN map \subseteq Delta
  PROVE  LET chosen == DetermineCollection(queues, map)
             classes == ByClass(queues, map)
             delta == Scheduler!DetermineCollection(classes)
         IN  /\ chosen = 0 <=> Scheduler!Backlogged(classes) = {}
             /\ chosen # 0 => delta \in DOMAIN map /\ chosen = map[delta]
                              /\ queues[chosen] # <<>>
<1> DEFINE chosen == DetermineCollection(queues, map)
           classes == ByClass(queues, map)
           K == DOMAIN map
           n == Cardinality(K)
           e == Enumeration(K)
           order == [k \in 1 .. n |-> map[e[k]]]
           Backlog == Scheduler!Backlogged(classes)
           R == Scheduler!ReadyToSend(classes)
<1>1. K \in SUBSET Nat /\ IsFiniteSet(K)
  BY DeltaAssumption, FS_Subset
<1>2. /\ n \in Nat /\ e \in [1 .. n -> K]
      /\ \A i, j \in 1 .. n : i < j => e[i] < e[j]
      /\ \A d \in K : \E i \in 1 .. n : e[i] = d
  <2> HIDE DEF K
  <2> QED
    BY <1>1, EnumerationProperties
<1>3. /\ Len(order) = n
      /\ \A k \in 1 .. n : order[k] = map[e[k]]
  BY <1>2
<1>4. chosen = Loop(queues, order)
  BY DEF DetermineCollection
<1>5. \A d \in K : map[d] # 0 /\ classes[d] = queues[map[d]]
  BY DEF Indexed, ByClass
<1>6. /\ Backlog \in SUBSET K /\ R \in SUBSET K
      /\ \A d \in K : d \in Backlog <=> queues[map[d]] # <<>>
      /\ \A d \in K : d \in R <=> queues[map[d]] # <<>> /\ Ready(queues[map[d]])
  BY SamePackets, <1>5 DEF Scheduler!Backlogged, Scheduler!ReadyToSend, ByClass, Ready
<1>7. /\ Scheduler!DetermineCollection(classes) = IF R # {} THEN Min(R) ELSE Max(Backlog)
  BY DEF Scheduler!DetermineCollection, Scheduler!Min, Scheduler!Max, Min, Max
<1> HIDE DEF order, e, n, K, Backlog, R, classes, chosen
<1>8. \/ \E k \in 1 .. n : chosen = order[k] /\ FirstReady(queues, order, k)
      \/ \E k \in 1 .. n : chosen = order[k] /\ LastUnready(queues, order, n, k)
      \/ chosen = 0 /\ \A j \in 1 .. n : queues[order[j]] = <<>>
  BY <1>2, <1>3, <1>4, LoopResult
<1>9. ASSUME NEW k \in 1 .. n, chosen = order[k], FirstReady(queues, order, k)
      PROVE  /\ Backlog # {} /\ Min(R) \in K /\ R # {} /\ chosen = map[Min(R)]
             /\ queues[chosen] # <<>>
  <2>1. e[k] \in R /\ e[k] \in Backlog /\ e[k] \in K
    BY <1>2, <1>3, <1>6, <1>9 DEF FirstReady
  <2>2. ASSUME NEW d \in R PROVE e[k] <= d
    <3>1. PICK j \in 1 .. n : e[j] = d
      BY <1>2, <1>6, <2>2
    <3>2. ~(j < k)
      BY <1>3, <1>6, <1>9, <2>2, <3>1 DEF FirstReady
    <3>3. e[k] \in Nat /\ e[j] \in Nat
      BY <1>1, <1>2
    <3> QED
      BY <1>2, <3>1, <3>2, <3>3
  <2>3. Min(R) \in R /\ Min(R) <= e[k]
    BY <1>1, <1>6, <2>1, MinOfNaturals
  <2>4. Min(R) = e[k]
    <3>1. e[k] <= Min(R) /\ e[k] \in Nat /\ Min(R) \in Nat
      BY <1>1, <1>6, <2>1, <2>2, <2>3
    <3> QED
      BY <2>3, <3>1
  <2> QED
    BY <1>3, <1>9, <2>1, <2>4 DEF FirstReady
<1>10. ASSUME NEW k \in 1 .. n, chosen = order[k], LastUnready(queues, order, n, k)
       PROVE  /\ Backlog # {} /\ Max(Backlog) \in K /\ R = {} /\ chosen = map[Max(Backlog)]
              /\ queues[chosen] # <<>>
  <2>1. e[k] \in Backlog /\ e[k] \in K
    BY <1>2, <1>3, <1>6, <1>10 DEF LastUnready
  <2>2. ASSUME NEW d \in Backlog PROVE d <= e[k]
    <3>1. PICK j \in 1 .. n : e[j] = d
      BY <1>2, <1>6, <2>2
    <3>2. ~(k < j)
      BY <1>2, <1>3, <1>6, <1>10, <2>2, <3>1 DEF LastUnready
    <3>3. e[k] \in Nat /\ e[j] \in Nat
      BY <1>1, <1>2
    <3> QED
      BY <1>2, <3>1, <3>2, <3>3
  <2>3. e[k] \in Nat /\ Backlog \in SUBSET Nat
    BY <1>1, <1>6, <2>1
  <2>4. Max(Backlog) \in Backlog /\ e[k] <= Max(Backlog)
    BY <2>1, <2>2, <2>3, MaxOfNaturals
  <2>5. Max(Backlog) = e[k]
    <3>1. Max(Backlog) <= e[k] /\ Max(Backlog) \in Nat
      BY <2>2, <2>3, <2>4
    <3> QED
      BY <2>3, <2>4, <3>1
  <2>6. R = {}
    <3> SUFFICES ASSUME NEW d \in R PROVE FALSE
      OBVIOUS
    <3>1. PICK j \in 1 .. n : e[j] = d
      BY <1>2, <1>6
    <3> QED
      BY <1>3, <1>6, <1>10, <3>1 DEF LastUnready
  <2> QED
    BY <1>3, <1>10, <2>1, <2>5, <2>6 DEF LastUnready
<1>11. ASSUME \A j \in 1 .. n : queues[order[j]] = <<>>
       PROVE  Backlog = {}
  <2> SUFFICES ASSUME NEW d \in Backlog PROVE FALSE
    OBVIOUS
  <2>1. PICK j \in 1 .. n : e[j] = d
    BY <1>2, <1>6
  <2> QED
    BY <1>3, <1>6, <1>11, <2>1
<1>12. \A k \in 1 .. n : order[k] # 0
  BY <1>2, <1>3, <1>5
<1> QED
  BY <1>7, <1>8, <1>9, <1>10, <1>11, <1>12 DEF chosen, classes, K, Backlog, R

-----------------------------------------------------------------------------
(***************************************************************************)
(* Where the packets are: in one place, and only while their fate is       *)
(* "queued".  The lemmas speak of queues in the middle of a handler too.   *)
(***************************************************************************)
Fates == {"new", "queued", "sent", "expired", "overflow"}

Waiting(queues) == UNION {ToSet(queues[idx]) : idx \in DOMAIN queues}

KeptApart(queues, fates) ==
  /\ \A idx \in DOMAIN queues : Distinct(queues[idx])
  /\ \A p, q \in Waiting(queues) : p.id = q.id => p = q
  /\ \A p \in Waiting(queues) : fates[p.id] = "queued"

LEMMA WaitingPackets ==
  ASSUME NEW queues \in Seq(Seq(Packet))
  PROVE  /\ Waiting(queues) \subseteq Packet
         /\ \A idx \in DOMAIN queues :
              /\ queues[idx] \in Seq(Packet) /\ ToSet(queues[idx]) \subseteq Waiting(queues)
              /\ ToSet(queues[idx]) = {queues[idx][i] : i \in 1 .. Len(queues[idx])}
         /\ \A p \in Waiting(queues) : \E idx \in DOMAIN queues : p \in ToSet(queues[idx])
<1>1. \A idx \in DOMAIN queues : queues[idx] \in Seq(Packet)
  OBVIOUS
<1> QED
  BY <1>1, SetOfSeq DEF Waiting

(* A packet waits in the queue of its class only.                          *)
LEMMA OneQueue ==
  ASSUME NEW queues \in Seq(Seq(Packet)), NEW map, Indexed(map, queues), Sorted(map, queues),
         NEW i \in DOMAIN queues, NEW j \in DOMAIN queues, NEW p,
         p \in ToSet(queues[i]), p \in ToSet(queues[j])
  PROVE  i = j
<1>1. PICK c \in DOMAIN map, d \in DOMAIN map : map[c] = i /\ map[d] = j
  BY DEF Indexed
<1>2. OfClass(queues[i], c) /\ OfClass(queues[j], d)
  BY <1>1 DEF Sorted
<1>3. ClassifyPacket(p.slo) = c /\ ClassifyPacket(p.slo) = d
  BY <1>2, WaitingPackets DEF OfClass
<1> QED
  BY <1>1, <1>3

(* The places of expired packets, and their identities.                    *)
LEMMA ExpiredPlace ==
  ASSUME NEW queues
  PROVE  /\ \A place \in ExpiredPlaces(queues) :
              /\ place[1] \in DOMAIN queues /\ place[2] \in 1 .. Len(queues[place[1]])
              /\ IsExpired(queues[place[1]][place[2]], now)
              /\ place = <<place[1], place[2]>>
         /\ \A idx \in DOMAIN queues : \A i \in 1 .. Len(queues[idx]) :
              IsExpired(queues[idx][i], now) => <<idx, i>> \in ExpiredPlaces(queues)
  BY DEF ExpiredPlaces

ExpiredIn(queues) == {queues[place[1]][place[2]].id : place \in ExpiredPlaces(queues)}

LEMMA ExpiredPackets ==
  ASSUME NEW queues \in Seq(Seq(Packet)), NEW id
  PROVE  id \in ExpiredIn(queues) <=>
           \E p \in Waiting(queues) : p.id = id /\ IsExpired(p, now)
<1>1. ASSUME id \in ExpiredIn(queues)
      PROVE  \E p \in Waiting(queues) : p.id = id /\ IsExpired(p, now)
  <2>1. PICK place \in ExpiredPlaces(queues) : id = queues[place[1]][place[2]].id
    BY <1>1 DEF ExpiredIn
  <2>2. /\ place[1] \in DOMAIN queues /\ place[2] \in 1 .. Len(queues[place[1]])
        /\ IsExpired(queues[place[1]][place[2]], now)
    BY ExpiredPlace
  <2>3. queues[place[1]][place[2]] \in Waiting(queues)
    BY <2>2, WaitingPackets
  <2> QED
    BY <2>1, <2>2, <2>3
<1>2. ASSUME NEW p \in Waiting(queues), p.id = id, IsExpired(p, now)
      PROVE  id \in ExpiredIn(queues)
  <2>1. PICK idx \in DOMAIN queues : \E i \in 1 .. Len(queues[idx]) : p = queues[idx][i]
    BY WaitingPackets
  <2>2. PICK i \in 1 .. Len(queues[idx]) : p = queues[idx][i]
    BY <2>1
  <2>3. <<idx, i>> \in ExpiredPlaces(queues)
    BY <1>2, <2>2, ExpiredPlace
  <2> QED
    BY <1>2, <2>2, <2>3 DEF ExpiredIn
<1> QED
  BY <1>1, <1>2

(***************************************************************************)
(* Dispatch, in parts.                                                     *)
(***************************************************************************)
Left(queues) == [idx \in DOMAIN queues |-> Purge(queues[idx], now)]

Chosen(queues, map, idle) == IF idle THEN DetermineCollection(Left(queues), map) ELSE 0

LEMMA DispatchParts ==
  ASSUME NEW queues, NEW map, NEW fates, NEW idle, Dispatch(queues, map, fates, idle)
  PROVE  /\ deltaQueueMap' = map /\ collections' = Left(queues)
         /\ fate' = [id \in Id |-> IF id \in ExpiredIn(queues) THEN "expired" ELSE fates[id]]
         /\ fault' = IF \/ UsedInPurge(queues)
                        \/ /\ Chosen(queues, map, idle) # 0
                           /\ AfterPurge(queues).state = "deleted"
                     THEN "deletedSelfMsg" ELSE "none"
         /\ selfMsg' = IF Chosen(queues, map, idle) = 0 THEN AfterPurge(queues)
                       ELSE [state |-> "scheduled", collectionIdx |-> Chosen(queues, map, idle),
                             at |-> ScheduleTime(Head(Left(queues)[Chosen(queues, map, idle)]))]
  BY DEF Dispatch, Left, Chosen, ExpiredIn

LEMMA LeftProperties ==
  ASSUME now \in Nat, NEW queues \in Seq(Seq(Packet))
  PROVE  /\ Left(queues) \in Seq(Seq(Packet)) /\ DOMAIN Left(queues) = DOMAIN queues
         /\ \A idx \in DOMAIN queues :
              /\ Left(queues)[idx] = Purge(queues[idx], now)
              /\ ToSet(Left(queues)[idx])
                   = {p \in ToSet(queues[idx]) : ~IsExpired(p, now)}
              /\ Distinct(queues[idx]) => Distinct(Left(queues)[idx])
         /\ Waiting(Left(queues)) = {p \in Waiting(queues) : ~IsExpired(p, now)}
<1>1. DOMAIN queues = 1 .. Len(queues) /\ Len(queues) \in Nat
  OBVIOUS
<1>2. ASSUME NEW idx \in DOMAIN queues
      PROVE  /\ Purge(queues[idx], now) \in Seq(Packet)
             /\ ToSet(Purge(queues[idx], now)) = {p \in ToSet(queues[idx]) : ~IsExpired(p, now)}
             /\ Distinct(queues[idx]) => Distinct(Purge(queues[idx], now))
  <2>1. queues[idx] \in Seq(Packet) /\ now \in Int
    OBVIOUS
  <2> QED
    BY <2>1, PurgeProperties, PurgeContents
<1>3. /\ Left(queues) \in Seq(Seq(Packet)) /\ DOMAIN Left(queues) = DOMAIN queues
      /\ \A idx \in DOMAIN queues : Left(queues)[idx] = Purge(queues[idx], now)
  BY <1>1, <1>2 DEF Left
<1>4. Waiting(Left(queues)) = {p \in Waiting(queues) : ~IsExpired(p, now)}
  BY <1>2, <1>3 DEF Waiting
<1> QED
  BY <1>2, <1>3, <1>4

LEMMA DispatchKeepsApart ==
  ASSUME now \in Nat, NEW queues \in Seq(Seq(Packet)), NEW map, NEW fates \in [Id -> Fates],
         NEW idle, Dispatch(queues, map, fates, idle), KeptApart(queues, fates)
  PROVE  fate' \in [Id -> Fates] /\ KeptApart(collections, fate)'
<1>1. /\ collections' = Left(queues)
      /\ fate' = [id \in Id |-> IF id \in ExpiredIn(queues) THEN "expired" ELSE fates[id]]
  BY DispatchParts
<1>2. fate' \in [Id -> Fates]
  BY <1>1 DEF Fates
<1>3. \A idx \in DOMAIN Left(queues) : Distinct(Left(queues)[idx])
  BY LeftProperties DEF KeptApart
<1>4. Waiting(Left(queues)) = {p \in Waiting(queues) : ~IsExpired(p, now)}
  BY LeftProperties
<1>5. ASSUME NEW p \in Waiting(Left(queues))
      PROVE  fate'[p.id] = "queued"
  <2>1. p \in Waiting(queues) /\ ~IsExpired(p, now) /\ p.id \in Id /\ fates[p.id] = "queued"
    BY <1>4, WaitingPackets, PacketTypes DEF KeptApart
  <2>2. p.id \notin ExpiredIn(queues)
    BY <2>1, ExpiredPackets DEF KeptApart
  <2> QED
    BY <1>1, <2>1, <2>2
<1>6. KeptApart(Left(queues), fate')
  BY <1>3, <1>4, <1>5 DEF KeptApart
<1> QED
  BY <1>1, <1>2, <1>6 DEF KeptApart, Waiting, Distinct

(* The message names a queue that exists, and is due at some time.         *)
GoodMsg(msg, queues) ==
  msg \in Msg \cup {NoMsg} /\ (msg # NoMsg => msg.collectionIdx \in DOMAIN queues)

LEMMA DispatchKeepsMsg ==
  ASSUME now \in Nat, NEW queues \in Seq(Seq(Packet)), NEW map, NEW fates, NEW idle,
         Dispatch(queues, map, fates, idle),
         Indexed(map, queues), DOMAIN map \subseteq Delta, GoodMsg(selfMsg, queues)
  PROVE  GoodMsg(selfMsg, collections)' /\ fault' \in {"none", "deletedSelfMsg"}
<1> DEFINE chosen == Chosen(queues, map, idle)
           left == Left(queues)
<1>1. /\ collections' = left /\ DOMAIN left = DOMAIN queues /\ left \in Seq(Seq(Packet))
      /\ selfMsg' = IF chosen = 0 THEN AfterPurge(queues)
                    ELSE [state |-> "scheduled", collectionIdx |-> chosen,
                          at |-> ScheduleTime(Head(left[chosen]))]
      /\ fault' \in {"none", "deletedSelfMsg"}
  BY DispatchParts, LeftProperties
<1>2. CASE chosen = 0
  <2>1. GoodMsg(AfterPurge(queues), queues)
    <3>1. CASE MessageDeleted(queues)
      <4>1. selfMsg \in Msg /\ selfMsg # NoMsg
        BY <3>1 DEF GoodMsg, MessageDeleted, NoMsg
      <4>2. /\ [selfMsg EXCEPT !.state = "deleted"] \in Msg
            /\ [selfMsg EXCEPT !.state = "deleted"].collectionIdx = selfMsg.collectionIdx
        BY <4>1 DEF Msg
      <4> QED
        BY <3>1, <4>1, <4>2 DEF GoodMsg, AfterPurge
    <3>2. CASE ~MessageDeleted(queues)
      BY <3>2 DEF AfterPurge
    <3> QED
      BY <3>1, <3>2
  <2> HIDE DEF left
  <2> QED
    BY <1>1, <1>2, <2>1 DEF GoodMsg
<1>3. CASE chosen # 0
  <2>1. Indexed(map, left) /\ Len(left) \in Nat /\ DOMAIN left = 1 .. Len(left)
    BY <1>1 DEF Indexed
  <2>2. chosen = DetermineCollection(left, map)
    BY <1>3 DEF Chosen
  <2> HIDE DEF left, chosen
  <2>3. chosen \in DOMAIN left /\ left[chosen] # <<>>
    <3>1. \E delta \in DOMAIN map : chosen = map[delta] /\ left[chosen] # <<>>
      BY <1>3, <2>1, <2>2, ChosenClass
    <3> QED
      BY <2>1, <3>1 DEF Indexed
  <2>4. Head(left[chosen]) \in Packet /\ chosen \in Nat \ {0}
    <3>1. left[chosen] \in Seq(Packet)
      BY <1>1, <2>3
    <3> QED
      BY <2>1, <2>3, <3>1
  <2> DEFINE at == ScheduleTime(Head(left[chosen]))
  <2>5. at \in Nat
    BY <2>4, PacketTypes DEF ScheduleTime
  <2> HIDE DEF at
  <2>6. selfMsg' = [state |-> "scheduled", collectionIdx |-> chosen, at |-> at]
    BY <1>1, <1>3 DEF at
  <2> QED
    BY <1>1, <2>3, <2>4, <2>5, <2>6 DEF GoodMsg, Msg
<1> QED
  BY <1>2, <1>3

DroppedFrom(before, after, packet) ==
  {other.id : other \in (ToSet(before) \cup {packet}) \ ToSet(after)}

FatesAfterPush(dropped, id) ==
  [i \in Id |-> IF i \in dropped THEN "overflow" ELSE IF i = id THEN "queued" ELSE fate[i]]

LEMMA PushKeepsApart ==
  ASSUME ClassInv, fate \in [Id -> Fates], KeptApart(collections, fate),
         NEW packet \in Packet, NEW delta, delta = ClassifyPacket(packet.slo),
         fate[packet.id] = "new"
  PROVE  LET idx == GetIndexOfQueueForDelta(delta)
             before == WithQueue(idx)
             after == [before EXCEPT ![idx] = PushPacket(@, packet, now)]
             dropped == DroppedFrom(before[idx], after[idx], packet)
         IN  /\ FatesAfterPush(dropped, packet.id) \in [Id -> Fates]
             /\ KeptApart(after, FatesAfterPush(dropped, packet.id))
             /\ \A id : id \in dropped <=>
                  /\ \E other \in ToSet(before[idx]) \cup {packet} : other.id = id
                  /\ \A other \in ToSet(after[idx]) : other.id # id
<1> DEFINE idx == GetIndexOfQueueForDelta(delta)
           before == WithQueue(idx)
           pushed == PushPacket(before[idx], packet, now)
           after == [before EXCEPT ![idx] = PushPacket(@, packet, now)]
           map == WithIndex(delta)
           dropped == DroppedFrom(before[idx], after[idx], packet)
           fates == FatesAfterPush(dropped, packet.id)
           all == Waiting(collections) \cup {packet}
<1>1. /\ before \in Seq(Seq(Packet)) /\ idx \in DOMAIN before
      /\ \A k \in DOMAIN before : \/ k \in DOMAIN collections /\ before[k] = collections[k]
                                  \/ before[k] = <<>>
      /\ now \in Int /\ collections \in Seq(Seq(Packet))
  <2>1. now \in Int /\ collections \in Seq(Seq(Packet))
    BY DEF ClassInv
  <2>2. before \in Seq(Seq(Packet)) /\ idx \in DOMAIN before
    BY QueueForClass
  <2>3. \A k \in DOMAIN before : \/ k \in DOMAIN collections /\ before[k] = collections[k]
                                 \/ before[k] = <<>> /\ k = idx
    BY QueueForClass
  <2> HIDE DEF before, idx
  <2> QED
    BY <2>1, <2>2, <2>3
<1>2. /\ after \in Seq(Seq(Packet))
      /\ Indexed(map, after) /\ Sorted(map, after)
  BY PushClasses
<1>3. /\ DOMAIN after = DOMAIN before /\ after[idx] = pushed
      /\ \A k \in DOMAIN before : k # idx => after[k] = before[k]
  BY <1>1
<1> HIDE DEF idx, before, after, map
<1>4. /\ Waiting(collections) \subseteq Packet
      /\ \A p \in Waiting(collections) : p.id \in Id /\ p.id # packet.id
                                         /\ fate[p.id] = "queued"
  BY <1>1, WaitingPackets, PacketTypes DEF KeptApart
<1>5. \A p, q \in all : p.id = q.id => p = q
  BY <1>4 DEF KeptApart
<1>6. \A k \in DOMAIN before :
        Distinct(before[k]) /\ ToSet(before[k]) \subseteq Waiting(collections)
  <2>1. Distinct(<<>>) /\ ToSet(<<>>) = {}
    BY DEF Distinct, ToSet
  <2> QED
    BY <1>1, <2>1, WaitingPackets DEF KeptApart
<1>7. ToSet(pushed) \subseteq ToSet(before[idx]) \cup {packet} /\ Distinct(pushed)
  <2>1. before[idx] \in Seq(Packet) /\ Distinct(before[idx])
        /\ \A other \in ToSet(before[idx]) : other.id # packet.id
    BY <1>1, <1>4, <1>6, WaitingPackets
  <2> QED
    BY <1>1, <2>1, PushContents
<1> HIDE DEF pushed
<1>8. \A k \in DOMAIN before \ {idx} : ToSet(after[k]) \subseteq Waiting(collections)
  BY <1>3, <1>6
<1>9. Waiting(after) \subseteq all
  BY <1>1, <1>2, <1>3, <1>6, <1>7, <1>8, WaitingPackets
<1>10. \A id : id \in dropped <=>
         /\ \E other \in ToSet(before[idx]) \cup {packet} : other.id = id
         /\ \A other \in ToSet(after[idx]) : other.id # id
  <2>1. ToSet(before[idx]) \cup {packet} \subseteq all /\ ToSet(after[idx]) \subseteq all
    BY <1>1, <1>3, <1>6, <1>7
  <2> HIDE DEF all
  <2> QED
    BY <1>5, <2>1 DEF DroppedFrom
<1>11. ASSUME NEW p \in Waiting(after) PROVE p.id \in Id /\ p.id \notin dropped
  <2>1. p \in Packet /\ p.id \in Id
    BY <1>2, WaitingPackets, PacketTypes
  <2>2. PICK k \in DOMAIN after : p \in ToSet(after[k])
    BY <1>2, WaitingPackets
  <2>3. SUFFICES ASSUME p.id \in dropped PROVE FALSE
    BY <2>1
  <2>4. PICK other \in ToSet(before[idx]) \cup {packet} : other.id = p.id
    BY <1>10, <2>3
  <2>5. p \notin ToSet(after[idx])
    BY <1>10, <2>3
  <2>6. k # idx /\ p \in Waiting(collections) /\ p \in ToSet(before[k])
    BY <1>3, <1>8, <2>2, <2>5
  <2>7. p \in ToSet(before[idx])
    BY <1>1, <1>4, <1>5, <1>6, <2>4, <2>6
  <2>8. Indexed(WithIndex(delta), before) /\ Sorted(WithIndex(delta), before)
    BY QueueForClass DEF before, idx
  <2> QED
    BY <1>1, <1>3, <2>2, <2>6, <2>7, <2>8, OneQueue
<1>12. \A i \in Id : fates[i] = IF i \in dropped THEN "overflow"
                                ELSE IF i = packet.id THEN "queued" ELSE fate[i]
  BY DEF FatesAfterPush
<1>13. fates \in [Id -> Fates]
  BY DEF FatesAfterPush, Fates
<1> HIDE DEF dropped, fates
<1>14. \A p \in Waiting(after) : fates[p.id] = "queued"
  BY <1>4, <1>9, <1>11, <1>12
<1>15. \A k \in DOMAIN after : Distinct(after[k])
  BY <1>3, <1>6, <1>7
<1>16. KeptApart(after, fates)
  <2>1. \A p, q \in Waiting(after) : p.id = q.id => p = q
    BY <1>5, <1>9
  <2> QED
    BY <1>14, <1>15, <2>1 DEF KeptApart
<1> QED
  BY <1>10, <1>13, <1>16 DEF fates, dropped, after, before, idx

(* What is left when the front of a queue is sent.                         *)
LEMMA SendKeepsApart ==
  ASSUME collections \in Seq(Seq(Packet)), fate \in [Id -> Fates],
         KeptApart(collections, fate), Indexed(deltaQueueMap, collections),
         Sorted(deltaQueueMap, collections),
         NEW idx \in DOMAIN collections, collections[idx] # <<>>
  PROVE  LET packet == Head(collections[idx])
         IN  /\ packet \in Packet
             /\ KeptApart([collections EXCEPT ![idx] = Tail(@)],
                          [fate EXCEPT ![packet.id] = "sent"])
<1> DEFINE packet == Head(collections[idx])
           tail == Tail(collections[idx])
           after == [collections EXCEPT ![idx] = Tail(@)]
           fates == [fate EXCEPT ![packet.id] = "sent"]
<1>1. collections[idx] \in Seq(Packet) /\ Distinct(collections[idx])
  BY DEF KeptApart
<1>2. /\ tail \in Seq(Packet) /\ Distinct(tail)
      /\ ToSet(tail) = ToSet(collections[idx]) \ {packet}
  BY <1>1, TailContents
<1>3. packet \in ToSet(collections[idx]) /\ packet \in Waiting(collections)
      /\ packet \in Packet /\ packet.id \in Id
  BY <1>1, SetOfSeq, WaitingPackets, PacketTypes
<1>4. /\ DOMAIN after = DOMAIN collections /\ after[idx] = tail
      /\ \A k \in DOMAIN collections : k # idx => after[k] = collections[k]
  OBVIOUS
<1>5. \A i \in Id : fates[i] = IF i = packet.id THEN "sent" ELSE fate[i]
  BY <1>3
<1> HIDE DEF after, tail, fates, packet
<1>6. ASSUME NEW p \in Waiting(after)
      PROVE  p \in Waiting(collections) /\ p # packet /\ p.id \in Id
  <2>1. PICK k \in DOMAIN collections : p \in ToSet(after[k])
    BY <1>4 DEF Waiting
  <2>2. p \in ToSet(collections[k]) /\ (k = idx => p # packet)
    BY <1>2, <1>4, <2>1
  <2>3. p \in Waiting(collections)
    BY <2>2, WaitingPackets
  <2>4. p # packet
    BY <1>3, <2>2, OneQueue
  <2> QED
    BY <2>3, <2>4, WaitingPackets, PacketTypes
<1>7. \A p \in Waiting(after) : fates[p.id] = "queued"
  BY <1>3, <1>5, <1>6 DEF KeptApart
<1>8. \A k \in DOMAIN after : Distinct(after[k])
  BY <1>2, <1>4 DEF KeptApart
<1>9. \A p, q \in Waiting(after) : p.id = q.id => p = q
  BY <1>6 DEF KeptApart
<1> QED
  BY <1>3, <1>7, <1>8, <1>9 DEF KeptApart, after, fates, packet

-----------------------------------------------------------------------------
(***************************************************************************)
(* With the classes, the message and the packets: the inductive invariant. *)
(***************************************************************************)
MacOK ==
  /\ txIdleCounter \in 0 .. 2 /\ (fault = "none" => txIdleCounter \in 0 .. 1)
  /\ mac \in {"starting", "idle", "transmitting"}
  /\ onWire \subseteq Frame
  /\ fault \in {"none", "deletedSelfMsg", "emptyQueue", "txIdleCounter"}

PacketsOK == fate \in [Id -> Fates] /\ KeptApart(collections, fate)

QueueIInv ==
  /\ ClassInv /\ DOMAIN deltaQueueMap \subseteq Delta
  /\ GoodMsg(selfMsg, collections)
  /\ PacketsOK
  /\ MacOK

LEMMA InitQueueIInv == Init => QueueIInv
<1> SUFFICES ASSUME Init PROVE QueueIInv
  OBVIOUS
<1>1. collections = <<>> /\ deltaQueueMap = <<>> /\ DOMAIN collections = {}
      /\ DOMAIN deltaQueueMap = {}
  BY DEF Init
<1>2. Waiting(collections) = {}
  BY <1>1 DEF Waiting
<1>3. PacketsOK
  BY <1>1, <1>2 DEF PacketsOK, KeptApart, Init, Fates
<1>4. GoodMsg(selfMsg, collections) /\ MacOK
  BY DEF GoodMsg, MacOK, Init
<1> QED
  BY <1>1, <1>3, <1>4, InitClassInv DEF QueueIInv

(* The packet that arrives, and the class of its profile.                  *)
LEMMA ArrivingPacket ==
  ASSUME now \in Nat, NEW id \in Id, NEW slo \in Profile, NEW lag \in 0 .. MaxLag, lag <= now
  PROVE  /\ [id |-> id, slo |-> slo, tRcv |-> now - lag] \in Packet
         /\ ClassifyPacket(slo) = slo.delta /\ slo.delta \in Delta
<1>1. lag \in Nat
  BY TimeAssumption
<1> QED
  BY <1>1, ClassAssumption, ProfileAssumption DEF Packet, ProfileType

LEMMA HandleMessageQueueIInv ==
  ASSUME QueueIInv, NEW id \in Id, NEW slo \in Profile, NEW lag \in 0 .. MaxLag,
         HandleMessage(id, slo, lag)
  PROVE  QueueIInv'
<1> DEFINE packet == [id |-> id, slo |-> slo, tRcv |-> now - lag]
           delta == ClassifyPacket(slo)
           idx == GetIndexOfQueueForDelta(delta)
           before == WithQueue(idx)
           after == [before EXCEPT ![idx] = PushPacket(@, packet, now)]
           map == WithIndex(delta)
           dropped == DroppedFrom(before[idx], after[idx], packet)
           fates == FatesAfterPush(dropped, id)
           idle == txIdleCounter = 1
<1>1. /\ Dispatch(after, map, fates, idle)
      /\ fault = "none" /\ fate[id] = "new" /\ lag <= now
      /\ now' = now /\ UNCHANGED <<txIdleCounter, mac, onWire>>
  BY DEF HandleMessage, FatesAfterPush, DroppedFrom
<1>2. /\ now \in Nat /\ ClassInv /\ GoodMsg(selfMsg, collections)
      /\ fate \in [Id -> Fates] /\ KeptApart(collections, fate)
      /\ DOMAIN deltaQueueMap \subseteq Delta
  BY DEF QueueIInv, ClassInv, PacketsOK
<1>3. /\ packet \in Packet /\ packet.slo = slo /\ packet.id = id
      /\ delta \in Delta /\ delta = ClassifyPacket(packet.slo)
  BY <1>1, <1>2, ArrivingPacket
<1>4. ClassInv'
  BY <1>2, HandleMessageClassInv
<1> HIDE DEF packet, delta
<1>5. /\ after \in Seq(Seq(Packet)) /\ Indexed(map, after)
      /\ DOMAIN map = DOMAIN deltaQueueMap \cup {delta}
  BY <1>2, <1>3, PushClasses
<1>6. /\ fates \in [Id -> Fates] /\ KeptApart(after, fates)
  BY <1>1, <1>2, <1>3, PushKeepsApart
<1>7. \A k \in DOMAIN collections : k \in DOMAIN after
  <2>1. \A k \in DOMAIN collections : k \in DOMAIN before
    BY <1>2, QueueForClass
  <2> HIDE DEF before
  <2> QED
    BY <2>1
<1> HIDE DEF after, map, fates, idle
<1>8. DOMAIN map \subseteq Delta /\ deltaQueueMap' = map
  BY <1>1, <1>2, <1>3, <1>5, DispatchParts
<1>9. PacketsOK'
  BY <1>1, <1>2, <1>5, <1>6, DispatchKeepsApart DEF PacketsOK
<1>10. GoodMsg(selfMsg, after)
  BY <1>2, <1>7 DEF GoodMsg
<1>11. GoodMsg(selfMsg, collections)' /\ fault' \in {"none", "deletedSelfMsg"}
  BY <1>1, <1>2, <1>5, <1>8, <1>10, DispatchKeepsMsg
<1>12. MacOK'
  BY <1>1, <1>11 DEF QueueIInv, MacOK, Frame, Packet
<1> QED
  BY <1>4, <1>8, <1>9, <1>11, <1>12 DEF QueueIInv

LEMMA HandleSelfMsgQueueIInv == ASSUME QueueIInv, HandleSelfMsg PROVE QueueIInv'
<1>1. /\ ClassInv /\ now \in Nat /\ collections \in Seq(Seq(Packet))
      /\ Indexed(deltaQueueMap, collections) /\ Sorted(deltaQueueMap, collections)
      /\ DOMAIN deltaQueueMap \subseteq Delta /\ GoodMsg(selfMsg, collections)
      /\ fate \in [Id -> Fates] /\ KeptApart(collections, fate) /\ MacOK
  BY DEF QueueIInv, ClassInv, PacketsOK
<1>2. ClassInv'
  BY <1>1, HandleSelfMsgClassInv
<1>3. /\ selfMsg' = NoMsg /\ deltaQueueMap' = deltaQueueMap /\ now' = now
      /\ fault = "none" /\ fault' = SendFault /\ selfMsg.state = "scheduled"
  BY DEF HandleSelfMsg
<1>4. DOMAIN deltaQueueMap' \subseteq Delta /\ GoodMsg(selfMsg, collections)'
  BY <1>1, <1>3 DEF GoodMsg, NoMsg
<1>5. CASE SendFault # "none"
  <2>1. UNCHANGED <<collections, txIdleCounter, mac, onWire, fate>>
    BY <1>5 DEF HandleSelfMsg
  <2>2. MacOK'
    BY <1>1, <1>3, <1>5, <2>1 DEF MacOK, SendFault, Frame, Packet
  <2>3. PacketsOK'
    BY <1>1, <2>1 DEF PacketsOK, KeptApart, Waiting, Distinct
  <2> QED
    BY <1>2, <1>4, <2>2, <2>3 DEF QueueIInv
<1>6. CASE SendFault = "none"
  <2> DEFINE idx == selfMsg.collectionIdx
             packet == Head(collections[idx])
  <2>1. /\ collections' = [collections EXCEPT ![idx] = Tail(@)]
        /\ txIdleCounter' = txIdleCounter - 1 /\ mac' = "transmitting"
        /\ onWire' = {FrameOf(packet)} /\ fate' = [fate EXCEPT ![packet.id] = "sent"]
    BY <1>6 DEF HandleSelfMsg
  <2>2. collections[idx] # <<>> /\ txIdleCounter = 1
    BY <1>6 DEF SendFault
  <2>3. idx \in DOMAIN collections
    BY <1>1, <1>3 DEF GoodMsg, NoMsg
  <2> HIDE DEF idx
  <2>4. /\ packet \in Packet
        /\ KeptApart([collections EXCEPT ![idx] = Tail(@)], [fate EXCEPT ![packet.id] = "sent"])
    BY <1>1, <2>2, <2>3, SendKeepsApart
  <2> HIDE DEF packet
  <2>5. PacketsOK'
    <3> DEFINE after == [collections EXCEPT ![idx] = Tail(@)]
               fates == [fate EXCEPT ![packet.id] = "sent"]
    <3>1. KeptApart(after, fates) /\ collections' = after /\ fate' = fates
      BY <2>1, <2>4
    <3>2. fates \in [Id -> Fates]
      BY <1>1 DEF Fates
    <3> HIDE DEF after, fates
    <3> QED
      BY <3>1, <3>2 DEF PacketsOK, KeptApart, Waiting, Distinct
  <2>6. FrameOf(packet) \in Frame
    BY <1>1, <2>4, PacketTypes DEF FrameOf, Frame
  <2>7. onWire' \subseteq Frame /\ (Frame' = Frame)
    BY <2>1, <2>6 DEF Frame, Packet
  <2>8. MacOK'
    BY <1>3, <1>6, <2>1, <2>2, <2>7 DEF MacOK
  <2> QED
    BY <1>2, <1>4, <2>5, <2>8 DEF QueueIInv
<1> QED
  BY <1>5, <1>6

LEMMA ReceiveSignalQueueIInv == ASSUME QueueIInv, ReceiveSignal PROVE QueueIInv'
<1>1. /\ ClassInv /\ now \in Nat /\ collections \in Seq(Seq(Packet))
      /\ Indexed(deltaQueueMap, collections)
      /\ DOMAIN deltaQueueMap \subseteq Delta /\ GoodMsg(selfMsg, collections)
      /\ fate \in [Id -> Fates] /\ KeptApart(collections, fate) /\ MacOK
  BY DEF QueueIInv, ClassInv, PacketsOK
<1>2. ClassInv'
  BY <1>1, ReceiveSignalClassInv
<1>3. /\ now' = now /\ fault = "none" /\ mac' = "idle" /\ onWire' = {}
      /\ txIdleCounter' = txIdleCounter + 1
  BY DEF ReceiveSignal
<1>4. CASE txIdleCounter = 0
  <2>1. Dispatch(collections, deltaQueueMap, fate, TRUE)
    BY <1>4 DEF ReceiveSignal
  <2>2. deltaQueueMap' = deltaQueueMap
    BY <2>1, DispatchParts
  <2>3. PacketsOK'
    BY <1>1, <2>1, DispatchKeepsApart DEF PacketsOK
  <2>4. GoodMsg(selfMsg, collections)' /\ fault' \in {"none", "deletedSelfMsg"}
    BY <1>1, <2>1, DispatchKeepsMsg
  <2>5. MacOK'
    BY <1>3, <1>4, <2>4 DEF MacOK
  <2> QED
    BY <1>1, <1>2, <2>2, <2>3, <2>4, <2>5 DEF QueueIInv
<1>5. CASE txIdleCounter # 0
  <2>1. fault' = "txIdleCounter" /\ UNCHANGED <<deltaQueueMap, collections, selfMsg, fate>>
    BY <1>5 DEF ReceiveSignal
  <2>2. MacOK'
    BY <1>1, <1>3, <2>1 DEF MacOK
  <2>3. PacketsOK' /\ GoodMsg(selfMsg, collections)'
    BY <1>1, <2>1 DEF PacketsOK, KeptApart, Waiting, Distinct, GoodMsg
  <2> QED
    BY <1>1, <1>2, <2>1, <2>2, <2>3 DEF QueueIInv
<1> QED
  BY <1>4, <1>5

LEMMA OtherQueueIInv == ASSUME QueueIInv, Tick \/ UNCHANGED vars PROVE QueueIInv'
<1>1. ClassInv'
  BY OtherClassInv DEF QueueIInv
<1>2. UNCHANGED <<deltaQueueMap, collections, txIdleCounter, selfMsg, mac, onWire, fate, fault>>
  BY DEF Tick, vars
<1> QED
  BY <1>1, <1>2 DEF QueueIInv, PacketsOK, KeptApart, Waiting, Distinct, GoodMsg, MacOK

(* The invariant holds in every state of every behaviour.                  *)
THEOREM QueueInvariant == Spec => []QueueIInv
<1>1. QueueIInv /\ [Next]_vars => QueueIInv'
  BY HandleMessageQueueIInv, HandleSelfMsgQueueIInv, ReceiveSignalQueueIInv,
     OtherQueueIInv DEF Next
<1> QED
  BY <1>1, InitQueueIInv, PTL DEF Spec

(* Types are kept: in particular, the index the armed message carries is   *)
(* always that of a queue that exists, and the count of idle reports never *)
(* leaves 0 .. 2.                                                          *)
THEOREM QueueTypeCorrect == Spec => []TypeOK
<1>1. QueueIInv => TypeOK
  <2> SUFFICES ASSUME QueueIInv PROVE TypeOK
    OBVIOUS
  <2>1. /\ now \in Nat /\ collections \in Seq(Seq(Packet)) /\ Len(collections) \in Nat
        /\ DOMAIN collections = 1 .. Len(collections)
        /\ Indexed(deltaQueueMap, collections)
    BY DEF QueueIInv, ClassInv
  <2>2. selfMsg # NoMsg => selfMsg.collectionIdx <= Len(collections)
    BY <2>1 DEF QueueIInv, GoodMsg
  <2>3. \A delta \in DOMAIN deltaQueueMap : deltaQueueMap[delta] \in 1 .. Len(collections)
    BY <2>1 DEF Indexed
  <2> QED
    BY <2>1, <2>2, <2>3 DEF QueueIInv, GoodMsg, PacketsOK, Fates, MacOK, TypeOK
<1> QED
  BY <1>1, QueueInvariant, PTL

-----------------------------------------------------------------------------
(***************************************************************************)
(* The refinement.  The message seen by class:                             *)
(***************************************************************************)
MsgByClass(msg, map) ==
  IF msg = NoMsg THEN NoMsg
  ELSE [msg EXCEPT !.collectionIdx = CHOOSE delta \in DOMAIN map : map[delta] = @]

LEMMA MsgProperties ==
  ASSUME NEW msg \in Msg, NEW map, NEW queues, Indexed(map, queues),
         NEW delta \in DOMAIN map, map[delta] = msg.collectionIdx
  PROVE  MsgByClass(msg, map)
           = [state |-> msg.state, collectionIdx |-> delta, at |-> msg.at]
<1>1. (CHOOSE d \in DOMAIN map : map[d] = msg.collectionIdx) = delta
  BY DEF Indexed
<1>2. msg # NoMsg
  <2>1. msg.state # "none" /\ NoMsg.state = "none"
    BY DEF Msg, NoMsg
  <2> QED
    BY <2>1
<1>3. msg = [state |-> msg.state, collectionIdx |-> msg.collectionIdx, at |-> msg.at]
  BY DEF Msg
<1>4. \A d : [msg EXCEPT !.collectionIdx = d]
               = [state |-> msg.state, collectionIdx |-> d, at |-> msg.at]
  BY <1>3
<1> QED
  BY <1>1, <1>2, <1>4 DEF MsgByClass

LEMMA PurgeOfNothing == Purge(<<>>, now) = <<>>
<1>1. Unexpired(<<>>, now) = {}
  BY DEF Unexpired
<1>2. Cardinality({}) = 0 /\ 1 .. 0 = {}
  BY FS_EmptySet
<1> QED
  BY <1>1, <1>2 DEF Purge

LEMMA PurgeByClass ==
  ASSUME now \in Nat, NEW queues \in Seq(Seq(Packet)), NEW map, Indexed(map, queues)
  PROVE  Scheduler!PurgeAll(ByClass(queues, map)) = ByClass(Left(queues), map)
<1>1. \A delta \in DOMAIN map : map[delta] \in DOMAIN queues
  BY DEF Indexed
<1> QED
  BY <1>1, SamePurge, PurgeOfNothing DEF Scheduler!PurgeAll, ByClass, Left

LEMMA ExpiredByClass ==
  ASSUME NEW queues \in Seq(Seq(Packet)), NEW map, Indexed(map, queues),
         DOMAIN map \subseteq Delta
  PROVE  Scheduler!ExpiredIds(ByClass(queues, map)) = ExpiredIn(queues)
<1> DEFINE Q == ByClass(queues, map)
<1>1. \A id : id \in Scheduler!ExpiredIds(Q) <=>
        /\ id \in Id
        /\ \E delta \in Delta : \E i \in 1 .. Len(Q[delta]) :
             Q[delta][i].id = id /\ IsExpired(Q[delta][i], now)
  BY SamePackets DEF Scheduler!ExpiredIds
<1>2. /\ \A delta \in DOMAIN map : Q[delta] = queues[map[delta]] /\ map[delta] \in DOMAIN queues
      /\ \A delta \in Delta \ DOMAIN map : Q[delta] = <<>> /\ 1 .. Len(Q[delta]) = {}
  BY DEF ByClass, Indexed
<1> HIDE DEF Q
<1>3. ASSUME NEW id \in Scheduler!ExpiredIds(Q)
      PROVE  id \in ExpiredIn(queues)
  <2>1. PICK delta \in Delta : \E i \in 1 .. Len(Q[delta]) :
          Q[delta][i].id = id /\ IsExpired(Q[delta][i], now)
    BY <1>1
  <2>2. PICK i \in 1 .. Len(Q[delta]) : Q[delta][i].id = id /\ IsExpired(Q[delta][i], now)
    BY <2>1
  <2>3. delta \in DOMAIN map
    BY <1>2, <2>2
  <2>4. <<map[delta], i>> \in ExpiredPlaces(queues)
    BY <1>2, <2>2, <2>3, ExpiredPlace
  <2> QED
    BY <1>2, <2>2, <2>3, <2>4 DEF ExpiredIn
<1>4. ASSUME NEW id \in ExpiredIn(queues)
      PROVE  id \in Scheduler!ExpiredIds(Q)
  <2>1. PICK place \in ExpiredPlaces(queues) : id = queues[place[1]][place[2]].id
    BY DEF ExpiredIn
  <2>2. /\ place[1] \in DOMAIN queues /\ place[2] \in 1 .. Len(queues[place[1]])
        /\ IsExpired(queues[place[1]][place[2]], now)
    BY ExpiredPlace
  <2>3. PICK delta \in DOMAIN map : map[delta] = place[1]
    BY <2>2 DEF Indexed
  <2>4. queues[place[1]][place[2]] \in Packet
    BY <2>2, WaitingPackets
  <2> DEFINE i == place[2]
  <2>5. /\ delta \in Delta /\ i \in 1 .. Len(Q[delta])
        /\ Q[delta][i].id = id /\ IsExpired(Q[delta][i], now)
    BY <1>2, <2>1, <2>2, <2>3
  <2>6. id \in Id
    BY <2>1, <2>4, PacketTypes
  <2> HIDE DEF i
  <2> QED
    BY <1>1, <2>5, <2>6
<1> QED
  BY <1>3, <1>4 DEF Q

(* The message the purge leaves behind.                                    *)
LEMMA MessageOfClass ==
  ASSUME NEW queues \in Seq(Seq(Packet)), NEW map, Indexed(map, queues),
         NEW msg \in Msg, msg.collectionIdx \in DOMAIN queues
  PROVE  \E delta \in DOMAIN map : map[delta] = msg.collectionIdx
  BY DEF Indexed

LEMMA AfterPurgeByClass ==
  ASSUME NEW queues \in Seq(Seq(Packet)), NEW map, Indexed(map, queues),
         DOMAIN map \subseteq Delta, GoodMsg(selfMsg, queues),
         MsgByClass(selfMsg, map) = MsgByClass(selfMsg, deltaQueueMap)
  PROVE  /\ Scheduler!AfterPurge(ByClass(queues, map)) = MsgByClass(AfterPurge(queues), map)
         /\ Scheduler!AfterPurge(ByClass(queues, map)).state = AfterPurge(queues).state
         /\ AfterPurge(queues).state = "deleted" <=>
              selfMsg.state = "deleted" \/ MessageDeleted(queues)
<1> DEFINE Q == ByClass(queues, map)
           msg == MsgByClass(selfMsg, map)
           gone == /\ msg.state = "scheduled"
                   /\ Q[msg.collectionIdx] # <<>>
                   /\ IsExpired(Head(Q[msg.collectionIdx]), now)
<1>1. Scheduler!AfterPurge(Q) = IF gone THEN [msg EXCEPT !.state = "deleted"] ELSE msg
  BY SamePackets DEF Scheduler!AfterPurge, MsgByClass, ClassOf
<1>2. CASE selfMsg = NoMsg
  <2>1. msg = NoMsg /\ selfMsg.state = "none" /\ NoMsg.state = "none"
    BY <1>2 DEF MsgByClass, NoMsg
  <2>2. ~MessageDeleted(queues) /\ ~gone
    BY <1>2, <2>1 DEF MessageDeleted
  <2> HIDE DEF Q, gone, msg
  <2> QED
    BY <1>1, <1>2, <2>1, <2>2 DEF AfterPurge, Q, msg
<1>3. CASE selfMsg # NoMsg
  <2>1. selfMsg \in Msg /\ selfMsg.collectionIdx \in DOMAIN queues
    BY <1>3 DEF GoodMsg
  <2>2. PICK delta \in DOMAIN map : map[delta] = selfMsg.collectionIdx
    BY <2>1, MessageOfClass
  <2>3. msg = [state |-> selfMsg.state, collectionIdx |-> delta, at |-> selfMsg.at]
    BY <2>1, <2>2, MsgProperties
  <2>4. Q[delta] = queues[selfMsg.collectionIdx] /\ queues[selfMsg.collectionIdx] \in Seq(Packet)
    BY <2>1, <2>2 DEF ByClass
  <2>5. gone <=> MessageDeleted(queues)
    <3> DEFINE i == selfMsg.collectionIdx
    <3>1. MessageDeleted(queues) <=>
            /\ selfMsg.state = "scheduled"
            /\ 1 \in 1 .. Len(queues[i]) /\ IsExpired(queues[i][1], now)
      BY <2>1, ExpiredPlace DEF MessageDeleted
    <3>2. gone <=> /\ selfMsg.state = "scheduled"
                   /\ queues[i] # <<>> /\ IsExpired(Head(queues[i]), now)
      BY <2>3, <2>4
    <3>3. /\ queues[i] # <<>> <=> 1 \in 1 .. Len(queues[i])
          /\ queues[i] # <<>> => Head(queues[i]) = queues[i][1]
      BY <2>4
    <3> QED
      BY <3>1, <3>2, <3>3
  <2> HIDE DEF gone, msg, Q
  <2>6. CASE MessageDeleted(queues)
    <3> DEFINE after == [selfMsg EXCEPT !.state = "deleted"]
    <3>1. AfterPurge(queues) = after
      BY <2>6 DEF AfterPurge
    <3>2. /\ after \in Msg /\ after.collectionIdx = selfMsg.collectionIdx
          /\ after.state = "deleted" /\ after.at = selfMsg.at
      BY <2>1 DEF Msg
    <3> HIDE DEF after
    <3>3. MsgByClass(after, map) = [state |-> "deleted", collectionIdx |-> delta, at |-> selfMsg.at]
      BY <2>2, <3>2, MsgProperties
    <3>4. [msg EXCEPT !.state = "deleted"]
            = [state |-> "deleted", collectionIdx |-> delta, at |-> selfMsg.at]
      BY <2>3
    <3> QED
      BY <1>1, <2>5, <2>6, <3>1, <3>2, <3>3, <3>4 DEF Q
  <2>7. CASE ~MessageDeleted(queues)
    <3>1. AfterPurge(queues) = selfMsg
      BY <2>7 DEF AfterPurge
    <3> QED
      BY <1>1, <2>3, <2>5, <2>7, <3>1 DEF Q, msg
  <2> QED
    BY <2>6, <2>7
<1> QED
  BY <1>2, <1>3

(* Two expired packets have two identities.                                *)
LEMMA FiniteImage ==
  ASSUME NEW S, IsFiniteSet(S), NEW f, f = [x \in S |-> f[x]]
  PROVE  IsFiniteSet({f[x] : x \in S})
<1> DEFINE T == {f[x] : x \in S}
<1>1. f \in [S -> T] /\ \A y \in T : \E x \in S : f[x] = y
  OBVIOUS
<1> HIDE DEF T
<1>2. f \in Surjection(S, T)
  BY <1>1 DEF Surjection
<1>3. IsFiniteSet(T)
  BY <1>2, FS_Surjection
<1> QED
  BY <1>3 DEF T

LEMMA ExpiredFinite ==
  ASSUME NEW queues \in Seq(Seq(Packet))
  PROVE  IsFiniteSet(ExpiredIn(queues))
<1> DEFINE f == [place \in ExpiredPlaces(queues) |-> queues[place[1]][place[2]].id]
           g == [idx \in 1 .. Len(queues) |-> {idx} \X (1 .. Len(queues[idx]))]
           Rows == {g[idx] : idx \in 1 .. Len(queues)}
<1>1. Len(queues) \in Nat /\ DOMAIN queues = 1 .. Len(queues)
      /\ \A idx \in 1 .. Len(queues) : Len(queues[idx]) \in Nat
  OBVIOUS
<1>2. IsFiniteSet(Rows)
  <2>1. IsFiniteSet(1 .. Len(queues))
    BY <1>1, FS_Interval
  <2>2. g = [idx \in 1 .. Len(queues) |-> g[idx]]
    OBVIOUS
  <2> HIDE DEF g
  <2> QED
    BY <2>1, <2>2, FiniteImage
<1>3. \A row \in Rows : IsFiniteSet(row)
  <2> SUFFICES ASSUME NEW idx \in 1 .. Len(queues)
               PROVE  IsFiniteSet({idx} \X (1 .. Len(queues[idx])))
    OBVIOUS
  <2>1. IsFiniteSet({idx}) /\ IsFiniteSet(1 .. Len(queues[idx]))
    <3>1. Len(queues[idx]) \in Nat
      BY <1>1
    <3> DEFINE n == Len(queues[idx])
    <3> HIDE DEF n
    <3>2. IsFiniteSet(1 .. n)
      BY <3>1, FS_Interval DEF n
    <3>3. IsFiniteSet({idx})
      BY FS_Singleton
    <3> QED
      BY <3>2, <3>3 DEF n
  <2> QED
    BY <2>1, FS_Product
<1>4. IsFiniteSet(UNION Rows)
  <2> HIDE DEF Rows
  <2> QED
    BY <1>2, <1>3, FS_UNION
<1>5. ExpiredPlaces(queues) \subseteq UNION Rows
  BY <1>1 DEF ExpiredPlaces
<1>6. IsFiniteSet(ExpiredPlaces(queues))
  BY <1>4, <1>5, FS_Subset
<1>7. ExpiredIn(queues) = {f[place] : place \in ExpiredPlaces(queues)}
  BY DEF ExpiredIn
<1>8. f = [place \in ExpiredPlaces(queues) |-> f[place]]
  OBVIOUS
<1> HIDE DEF f
<1> QED
  BY <1>6, <1>7, <1>8, FiniteImage

LEMMA TwoExpired ==
  ASSUME NEW queues \in Seq(Seq(Packet)), NEW map, NEW fates,
         Indexed(map, queues), Sorted(map, queues), KeptApart(queues, fates),
         NEW p \in ExpiredPlaces(queues), NEW q \in ExpiredPlaces(queues), p # q
  PROVE  Cardinality(ExpiredIn(queues)) > 1
<1> DEFINE a == queues[p[1]][p[2]]
           b == queues[q[1]][q[2]]
<1>1. /\ p[1] \in DOMAIN queues /\ p[2] \in 1 .. Len(queues[p[1]])
      /\ q[1] \in DOMAIN queues /\ q[2] \in 1 .. Len(queues[q[1]])
      /\ p = <<p[1], p[2]>> /\ q = <<q[1], q[2]>>
  BY ExpiredPlace
<1>2. /\ a \in ToSet(queues[p[1]]) /\ a \in Waiting(queues)
      /\ b \in ToSet(queues[q[1]]) /\ b \in Waiting(queues)
  BY <1>1, WaitingPackets
<1>3. a.id # b.id
  <2> SUFFICES ASSUME a.id = b.id PROVE FALSE
    OBVIOUS
  <2>1. a = b
    BY <1>2 DEF KeptApart
  <2>2. p[1] = q[1]
    BY <1>1, <1>2, <2>1, OneQueue
  <2>3. p[2] = q[2]
    BY <1>1, <2>1, <2>2 DEF KeptApart, Distinct
  <2> QED
    BY <1>1, <2>2, <2>3
<1>4. a.id \in ExpiredIn(queues) /\ b.id \in ExpiredIn(queues)
  BY DEF ExpiredIn
<1> HIDE DEF a, b
<1>5. IsFiniteSet({a.id}) /\ Cardinality({a.id}) = 1
  BY FS_Singleton
<1>6. Cardinality({a.id} \cup {b.id}) = 2
  <2>1. b.id \notin {a.id}
    BY <1>3
  <2>2. Cardinality({a.id} \cup {b.id}) = Cardinality({a.id}) + 1
    BY <1>5, <2>1, FS_AddElement
  <2> QED
    BY <1>5, <2>2
<1>7. Cardinality(ExpiredIn(queues)) \in Nat
      /\ Cardinality({a.id} \cup {b.id}) <= Cardinality(ExpiredIn(queues))
  <2>1. {a.id} \cup {b.id} \in SUBSET ExpiredIn(queues)
    BY <1>4
  <2> QED
    BY <2>1, ExpiredFinite, FS_Subset, FS_CardinalityType
<1> QED
  BY <1>6, <1>7

(***************************************************************************)
(* A Dispatch by index is a Dispatch by class.                             *)
(***************************************************************************)
LEMMA DispatchRefined ==
  ASSUME now \in Nat, now' = now, NEW queues \in Seq(Seq(Packet)), NEW map, NEW fates,
         NEW idle \in BOOLEAN, Dispatch(queues, map, fates, idle),
         Indexed(map, queues), Sorted(map, queues), DOMAIN map \subseteq Delta,
         KeptApart(queues, fates), GoodMsg(selfMsg, queues),
         MsgByClass(selfMsg, map) = MsgByClass(selfMsg, deltaQueueMap)
  PROVE  Scheduler!Dispatch(ByClass(queues, map), fates, idle)
<1> DEFINE Q == ByClass(queues, map)
           left == Left(queues)
           L == ByClass(left, map)
           chosen == Chosen(queues, map, idle)
           abstract == MsgByClass(selfMsg, deltaQueueMap)
           after == AfterPurge(queues)
<1>1. /\ deltaQueueMap' = map /\ collections' = left
      /\ fate' = [id \in Id |-> IF id \in ExpiredIn(queues) THEN "expired" ELSE fates[id]]
      /\ fault' = IF UsedInPurge(queues) \/ (chosen # 0 /\ after.state = "deleted")
                  THEN "deletedSelfMsg" ELSE "none"
      /\ selfMsg' = IF chosen = 0 THEN after
                    ELSE [state |-> "scheduled", collectionIdx |-> chosen,
                          at |-> ScheduleTime(Head(left[chosen]))]
  BY DispatchParts
<1>2. /\ left \in Seq(Seq(Packet)) /\ DOMAIN left = DOMAIN queues
      /\ Len(left) \in Nat /\ DOMAIN left = 1 .. Len(left) /\ Indexed(map, left)
  BY LeftProperties DEF Indexed
<1>3. Scheduler!PurgeAll(Q) = L
  BY PurgeByClass
<1>4. Scheduler!ExpiredIds(Q) = ExpiredIn(queues)
  BY ExpiredByClass
<1>5. /\ Scheduler!AfterPurge(Q) = MsgByClass(after, map)
      /\ Scheduler!AfterPurge(Q).state = after.state
      /\ after.state = "deleted" <=> selfMsg.state = "deleted" \/ MessageDeleted(queues)
  BY AfterPurgeByClass
<1>6. abstract.state = selfMsg.state
  BY DEF GoodMsg, MsgByClass, Msg, NoMsg
<1>7. chosen # 0 <=> idle /\ Scheduler!Backlogged(L) # {}
  BY <1>2, ChosenClass DEF Chosen
<1>8. chosen # 0 => LET delta == Scheduler!DetermineCollection(L)
                    IN  delta \in DOMAIN map /\ chosen = map[delta] /\ left[chosen] # <<>>
  BY <1>2, ChosenClass DEF Chosen
<1>9. (UsedInPurge(queues) /\ selfMsg.state # "deleted")
        => Cardinality(ExpiredIn(queues)) > 1
  <2> SUFFICES ASSUME UsedInPurge(queues), selfMsg.state # "deleted"
               PROVE  Cardinality(ExpiredIn(queues)) > 1
    OBVIOUS
  <2> DEFINE p == <<selfMsg.collectionIdx, 1>>
  <2>1. p \in ExpiredPlaces(queues)
    BY DEF UsedInPurge, MessageDeleted
  <2>2. PICK q \in ExpiredPlaces(queues) :
          q[1] > selfMsg.collectionIdx \/ (q[1] = selfMsg.collectionIdx /\ q[2] > 1)
    BY DEF UsedInPurge
  <2>3. p[1] \in DOMAIN queues
    BY <2>1, ExpiredPlace
  <2>4. p # q
    BY <2>2, <2>3
  <2> HIDE DEF p
  <2> QED
    BY <2>1, <2>4, TwoExpired
<1>10. ExpiredPlaces(queues) # {} <=> ExpiredIn(queues) # {}
  BY DEF ExpiredIn
<1>11. Scheduler!DeletedMsgUsed(Q, idle) <=>
         /\ after.state = "deleted"
         /\ \/ selfMsg.state = "deleted" /\ ExpiredIn(queues) # {}
            \/ chosen # 0
  BY <1>3, <1>4, <1>5, <1>6, <1>7
     DEF Scheduler!DeletedMsgUsed, MsgByClass, ClassOf
<1>12. fault' \in Scheduler!DispatchFaults(Q, idle)
  <2>1. Scheduler!DispatchFaults(Q, idle)
          = IF Scheduler!DeletedMsgUsed(Q, idle) THEN {"deletedSelfMsg"}
            ELSE IF after.state = "deleted" /\ Cardinality(ExpiredIn(queues)) > 1
                 THEN {"deletedSelfMsg", "none"} ELSE {"none"}
    BY <1>4, <1>5 DEF Scheduler!DispatchFaults, Scheduler!Cardinality, Cardinality
  <2>2. CASE fault' = "deletedSelfMsg"
    <3>1. CASE chosen # 0 /\ after.state = "deleted"
      BY <1>11, <2>1, <2>2, <3>1
    <3>2. CASE UsedInPurge(queues) /\ selfMsg.state = "deleted"
      <4>1. ExpiredIn(queues) # {} /\ after.state = "deleted"
        BY <1>5, <1>10, <3>2 DEF UsedInPurge, MessageDeleted
      <4> QED
        BY <1>11, <2>1, <2>2, <3>2, <4>1
    <3>3. CASE UsedInPurge(queues) /\ selfMsg.state # "deleted"
      <4>1. after.state = "deleted"
        BY <1>5, <3>3 DEF UsedInPurge
      <4> QED
        BY <1>9, <2>1, <2>2, <3>3, <4>1
    <3> QED
      BY <1>1, <2>2, <3>1, <3>2, <3>3
  <2>3. CASE fault' = "none"
    <3>1. ~UsedInPurge(queues) /\ ~(chosen # 0 /\ after.state = "deleted")
      BY <1>1, <2>3
    <3>2. ~Scheduler!DeletedMsgUsed(Q, idle)
      BY <1>10, <1>11, <3>1 DEF UsedInPurge
    <3> QED
      BY <2>1, <2>3, <3>2
  <2> QED
    BY <1>1, <2>2, <2>3
<1>13. [delta \in Delta |-> QueueOf(delta)]' = L
  BY <1>1 DEF QueueOf, ByClass
<1>14. fate' = [id \in Id |->
                  IF id \in Scheduler!ExpiredIds(Q) THEN "expired" ELSE fates[id]]
  BY <1>1, <1>4
<1>15. (IF selfMsg = NoMsg THEN NoMsg
        ELSE [selfMsg EXCEPT !.collectionIdx = ClassOf(@)])' = MsgByClass(selfMsg', map)
  BY <1>1 DEF MsgByClass, ClassOf, NoMsg
<1>16. MsgByClass(selfMsg', map)
         = IF idle /\ Scheduler!Backlogged(L) # {} THEN Scheduler!NewMsg(L)
                                                    ELSE Scheduler!AfterPurge(Q)
  <2>1. CASE chosen = 0
    BY <1>1, <1>5, <1>7, <2>1
  <2>2. CASE chosen # 0
    <3> DEFINE delta == Scheduler!DetermineCollection(L)
               at == ScheduleTime(Head(left[chosen]))
               msg == [state |-> "scheduled", collectionIdx |-> chosen, at |-> at]
    <3>1. delta \in DOMAIN map /\ chosen = map[delta] /\ left[chosen] # <<>>
      BY <1>8, <2>2
    <3>2. L[delta] = left[chosen] /\ chosen \in DOMAIN left
      BY <1>2, <3>1 DEF ByClass, Indexed
    <3>3. Scheduler!NewMsg(L) = [state |-> "scheduled", collectionIdx |-> delta, at |-> at]
      BY <3>2, SameScheduleTime DEF Scheduler!NewMsg
    <3>4. Head(left[chosen]) \in Packet /\ chosen \in Nat \ {0}
      <4>1. left[chosen] \in Seq(Packet)
        BY <1>2, <3>2
      <4> QED
        BY <1>2, <3>1, <3>2, <4>1
    <3>5. at \in Nat
      BY <3>4, PacketTypes DEF ScheduleTime
    <3> HIDE DEF at, delta, chosen, L, left
    <3>6. msg \in Msg /\ msg.collectionIdx = chosen /\ msg.state = "scheduled" /\ msg.at = at
      BY <3>4, <3>5 DEF Msg
    <3>7. selfMsg' = msg
      BY <1>1, <2>2 DEF at
    <3> HIDE DEF msg
    <3>8. MsgByClass(msg, map) = [state |-> "scheduled", collectionIdx |-> delta, at |-> at]
      BY <1>2, <3>1, <3>6, MsgProperties
    <3> QED
      BY <1>7, <2>2, <3>3, <3>7, <3>8
  <2> QED
    BY <2>1, <2>2
<1> HIDE DEF Q, L
<1> QED
  BY <1>3, <1>12, <1>13, <1>14, <1>15, <1>16 DEF Scheduler!Dispatch, Q

LEMMA HandleMessageRefined ==
  ASSUME QueueIInv, NEW id \in Id, NEW slo \in Profile, NEW lag \in 0 .. MaxLag,
         HandleMessage(id, slo, lag)
  PROVE  Scheduler!HandleMessage(id, slo, lag)
<1> DEFINE packet == [id |-> id, slo |-> slo, tRcv |-> now - lag]
           delta == ClassifyPacket(slo)
           idx == GetIndexOfQueueForDelta(delta)
           before == WithQueue(idx)
           after == [before EXCEPT ![idx] = PushPacket(@, packet, now)]
           map == WithIndex(delta)
           dropped == DroppedFrom(before[idx], after[idx], packet)
           fates == FatesAfterPush(dropped, id)
           idle == txIdleCounter = 1
           pushed == PushPacket(before[idx], packet, now)
<1>1. /\ Dispatch(after, map, fates, idle)
      /\ fault = "none" /\ fate[id] = "new" /\ lag <= now /\ now <= MaxArrival
      /\ UNCHANGED <<now, txIdleCounter, mac, onWire>>
  BY DEF HandleMessage, FatesAfterPush, DroppedFrom
<1>2. /\ now \in Nat /\ ClassInv /\ GoodMsg(selfMsg, collections)
      /\ fate \in [Id -> Fates] /\ KeptApart(collections, fate)
      /\ DOMAIN deltaQueueMap \subseteq Delta
      /\ Indexed(deltaQueueMap, collections) /\ collections \in Seq(Seq(Packet))
  BY DEF QueueIInv, ClassInv, PacketsOK
<1>3. /\ packet \in Packet /\ packet.slo = slo /\ packet.id = id
      /\ delta \in Delta /\ delta = ClassifyPacket(packet.slo) /\ slo.delta = delta
  BY <1>1, <1>2, ArrivingPacket
<1> HIDE DEF packet, delta
<1>4. /\ after \in Seq(Seq(Packet)) /\ Indexed(map, after) /\ Sorted(map, after)
      /\ DOMAIN map = DOMAIN deltaQueueMap \cup {delta}
  BY <1>2, <1>3, PushClasses
<1>5. KeptApart(after, fates)
  BY <1>1, <1>2, <1>3, PushKeepsApart
<1>6. \A i : i \in dropped <=>
        /\ \E other \in ToSet(before[idx]) \cup {packet} : other.id = i
        /\ \A other \in ToSet(after[idx]) : other.id # i
  BY <1>1, <1>2, <1>3, PushKeepsApart
<1>7. /\ map[delta] = idx /\ before[idx] = QueueOf(delta) /\ idx \in DOMAIN before
      /\ \A d \in DOMAIN deltaQueueMap : map[d] = deltaQueueMap[d]
  BY <1>2, QueueForClass
<1>8. \A k \in DOMAIN collections : k \in DOMAIN before /\ before[k] = collections[k]
  BY <1>2, QueueForClass
<1> HIDE DEF map, before, idx
<1>9. /\ DOMAIN after = DOMAIN before /\ after[idx] = pushed
      /\ \A k \in DOMAIN before : k # idx => after[k] = before[k]
  BY <1>7
<1> HIDE DEF after, dropped, fates, pushed
<1>10. GoodMsg(selfMsg, after)
  BY <1>2, <1>8, <1>9 DEF GoodMsg
<1>11. DOMAIN map \subseteq Delta
  BY <1>2, <1>3, <1>4
<1>12. MsgByClass(selfMsg, map) = MsgByClass(selfMsg, deltaQueueMap)
  <2>1. CASE selfMsg = NoMsg
    BY <2>1 DEF MsgByClass
  <2>2. CASE selfMsg # NoMsg
    <3>1. selfMsg \in Msg /\ selfMsg.collectionIdx \in DOMAIN collections
      BY <1>2, <2>2 DEF GoodMsg
    <3>2. PICK d \in DOMAIN deltaQueueMap : deltaQueueMap[d] = selfMsg.collectionIdx
      BY <1>2, <3>1, MessageOfClass
    <3>3. d \in DOMAIN map /\ map[d] = selfMsg.collectionIdx
      BY <1>4, <1>7, <3>2
    <3>4. MsgByClass(selfMsg, map)
            = [state |-> selfMsg.state, collectionIdx |-> d, at |-> selfMsg.at]
      BY <1>4, <3>1, <3>3, MsgProperties
    <3>5. MsgByClass(selfMsg, deltaQueueMap)
            = [state |-> selfMsg.state, collectionIdx |-> d, at |-> selfMsg.at]
      BY <1>2, <3>1, <3>2, MsgProperties
    <3> QED
      BY <3>4, <3>5
  <2> QED
    BY <2>1, <2>2
<1>13. Scheduler!Dispatch(ByClass(after, map), fates, idle)
  <2>1. idle \in BOOLEAN /\ now' = now
    BY <1>1
  <2> HIDE DEF idle
  <2> QED
    BY <1>1, <1>2, <1>4, <1>5, <1>10, <1>11, <1>12, <2>1, DispatchRefined
<1>14. ByClass(after, map) = Scheduler!Pushed(packet)
  <2> DEFINE Q == [d \in Delta |-> QueueOf(d)]
  <2>1. Scheduler!Pushed(packet) = [Q EXCEPT ![delta] = pushed]
    <3>1. Scheduler!Pushed(packet)
            = [Q EXCEPT ![packet.slo.delta] = Scheduler!PushPacket(Q[packet.slo.delta], packet, now)]
      BY DEF Scheduler!Pushed
    <3>2. Q[delta] = before[idx]
      BY <1>3, <1>7
    <3> HIDE DEF Q
    <3> QED
      BY <1>3, <3>1, <3>2, SamePush DEF pushed
  <2>2. ASSUME NEW d \in Delta
        PROVE  ByClass(after, map)[d] = IF d = delta THEN pushed ELSE QueueOf(d)
    <3>1. CASE d = delta
      BY <1>4, <1>7, <1>9, <3>1 DEF ByClass
    <3>2. CASE d # delta /\ d \in DOMAIN deltaQueueMap
      <4>1. map[d] = deltaQueueMap[d] /\ map[d] # idx /\ map[d] \in DOMAIN collections
        BY <1>2, <1>4, <1>7, <3>2 DEF Indexed
      <4>2. after[map[d]] = collections[map[d]]
        BY <1>8, <1>9, <4>1
      <4> QED
        BY <1>4, <3>2, <4>1, <4>2 DEF ByClass, QueueOf
    <3>3. CASE d # delta /\ d \notin DOMAIN deltaQueueMap
      BY <1>4, <3>3 DEF ByClass, QueueOf
    <3> QED
      BY <3>1, <3>2, <3>3
  <2>3. ByClass(after, map) = [d \in Delta |-> ByClass(after, map)[d]]
    BY DEF ByClass
  <2> QED
    BY <2>1, <2>2, <2>3
<1>15. fates = [i \in Id |-> IF i \in Scheduler!Overflow(packet) THEN "overflow"
                             ELSE [fate EXCEPT ![id] = "queued"][i]]
  <2>1. /\ Scheduler!Pushed(packet)[delta] = after[idx]
        /\ QueueOf(delta) = before[idx]
    BY <1>3, <1>4, <1>7, <1>14 DEF ByClass
  <2>2. \A i : i \in Scheduler!Overflow(packet) <=>
          /\ i \in Id
          /\ \E other \in ToSet(before[idx]) \cup {packet} : other.id = i
          /\ \A other \in ToSet(after[idx]) : other.id # i
    BY <1>3, <2>1 DEF Scheduler!Overflow, Scheduler!ToSet, ToSet
  <2>3. \A i \in Id : i \in Scheduler!Overflow(packet) <=> i \in dropped
    BY <1>6, <2>2
  <2>4. \A i \in Id : [fate EXCEPT ![id] = "queued"][i] = IF i = id THEN "queued" ELSE fate[i]
    BY <1>2
  <2> QED
    BY <2>3, <2>4 DEF fates, FatesAfterPush
<1> QED
  BY <1>1, <1>13, <1>14, <1>15 DEF Scheduler!HandleMessage, packet

LEMMA HandleSelfMsgRefined == ASSUME QueueIInv, HandleSelfMsg PROVE Scheduler!HandleSelfMsg
<1> DEFINE idx == selfMsg.collectionIdx
           Q == [d \in Delta |-> QueueOf(d)]
           msg == MsgByClass(selfMsg, deltaQueueMap)
<1>1. /\ now \in Nat /\ GoodMsg(selfMsg, collections)
      /\ fate \in [Id -> Fates] /\ KeptApart(collections, fate)
      /\ DOMAIN deltaQueueMap \subseteq Delta
      /\ Indexed(deltaQueueMap, collections) /\ collections \in Seq(Seq(Packet))
  BY DEF QueueIInv, ClassInv, PacketsOK
<1>2. /\ selfMsg' = NoMsg /\ UNCHANGED <<now, deltaQueueMap>>
      /\ fault = "none" /\ fault' = SendFault
      /\ selfMsg.state = "scheduled" /\ selfMsg.at = now
  BY DEF HandleSelfMsg
<1>3. selfMsg # NoMsg /\ selfMsg \in Msg /\ idx \in DOMAIN collections
  BY <1>1, <1>2 DEF GoodMsg, NoMsg
<1>4. PICK delta \in DOMAIN deltaQueueMap : deltaQueueMap[delta] = idx
  BY <1>1, <1>3, MessageOfClass
<1>5. msg = [state |-> "scheduled", collectionIdx |-> delta, at |-> now]
  BY <1>1, <1>2, <1>3, <1>4, MsgProperties
<1>6. Q[delta] = collections[idx]
  BY <1>1, <1>4 DEF QueueOf
<1>7. (IF selfMsg = NoMsg THEN NoMsg
       ELSE [selfMsg EXCEPT !.collectionIdx = ClassOf(@)]) = msg
  BY DEF MsgByClass, ClassOf
<1>8. (IF selfMsg = NoMsg THEN NoMsg
       ELSE [selfMsg EXCEPT !.collectionIdx = ClassOf(@)])' = Scheduler!NoMsg
  BY <1>2 DEF NoMsg, Scheduler!NoMsg
<1>9. Scheduler!SendFault = SendFault
  BY <1>5, <1>6, <1>7 DEF Scheduler!SendFault, SendFault
<1>10. CASE SendFault # "none"
  <2>1. UNCHANGED <<collections, txIdleCounter, mac, onWire, fate>>
    BY <1>10 DEF HandleSelfMsg
  <2>2. UNCHANGED [d \in Delta |-> QueueOf(d)]
    BY <1>2, <2>1 DEF QueueOf
  <2> HIDE DEF msg, Q
  <2> QED
    BY <1>2, <1>5, <1>7, <1>8, <1>9, <1>10, <2>1, <2>2 DEF Scheduler!HandleSelfMsg
<1>11. CASE SendFault = "none"
  <2> DEFINE packet == Head(collections[idx])
  <2>1. /\ collections' = [collections EXCEPT ![idx] = Tail(@)]
        /\ txIdleCounter' = txIdleCounter - 1 /\ mac' = "transmitting"
        /\ onWire' = {FrameOf(packet)} /\ fate' = [fate EXCEPT ![packet.id] = "sent"]
    BY <1>11 DEF HandleSelfMsg
  <2>2. Scheduler!FrameOf(packet) = FrameOf(packet)
    BY SamePackets DEF Scheduler!FrameOf, FrameOf
  <2>3. [d \in Delta |-> QueueOf(d)]' = [Q EXCEPT ![delta] = Tail(collections[idx])]
    <3> DEFINE tail == Tail(collections[idx])
    <3>1. /\ DOMAIN collections' = DOMAIN collections /\ collections'[idx] = tail
          /\ \A k \in DOMAIN collections : k # idx => collections'[k] = collections[k]
      BY <1>3, <2>1
    <3> HIDE DEF tail
    <3>2. ASSUME NEW d \in Delta
          PROVE  QueueOf(d)' = IF d = delta THEN tail ELSE QueueOf(d)
      <4>1. CASE d \notin DOMAIN deltaQueueMap
        BY <1>2, <1>4, <4>1 DEF QueueOf
      <4>2. CASE d = delta
        BY <1>2, <1>4, <3>1, <4>2 DEF QueueOf
      <4>3. CASE d \in DOMAIN deltaQueueMap /\ d # delta
        <5>1. deltaQueueMap[d] \in DOMAIN collections /\ deltaQueueMap[d] # idx
          BY <1>1, <1>4, <4>3 DEF Indexed
        <5> QED
          BY <1>2, <3>1, <4>3, <5>1 DEF QueueOf
      <4> QED
        BY <4>1, <4>2, <4>3
    <3> QED
      BY <1>1, <1>4, <3>2 DEF tail
  <2> DEFINE M == IF selfMsg = NoMsg THEN NoMsg
                  ELSE [selfMsg EXCEPT !.collectionIdx = ClassOf(@)]
  <2>4. M.state = "scheduled" /\ M.at = now /\ M.collectionIdx = delta
    BY <1>5, <1>7
  <2> HIDE DEF M, Q
  <2>5. Head(Q[M.collectionIdx]) = packet /\ Tail(Q[M.collectionIdx]) = Tail(collections[idx])
    BY <1>6, <2>4
  <2> HIDE DEF packet
  <2>6. /\ [d \in Delta |-> QueueOf(d)]'
             = [Q EXCEPT ![M.collectionIdx] = Tail(Q[M.collectionIdx])]
        /\ onWire' = {Scheduler!FrameOf(Head(Q[M.collectionIdx]))}
        /\ fate' = [fate EXCEPT ![Head(Q[M.collectionIdx]).id] = "sent"]
    BY <2>1, <2>2, <2>3, <2>4, <2>5
  <2>7. /\ fault = "none" /\ M.state = "scheduled" /\ M.at = now
        /\ fault' = Scheduler!SendFault /\ Scheduler!SendFault = "none"
    BY <1>2, <1>9, <1>11, <2>4
  <2> QED
    BY <1>2, <1>8, <2>1, <2>6, <2>7 DEF Scheduler!HandleSelfMsg, M, Q
<1> QED
  BY <1>10, <1>11

LEMMA ReceiveSignalRefined == ASSUME QueueIInv, ReceiveSignal PROVE Scheduler!ReceiveSignal
<1>1. /\ now \in Nat /\ GoodMsg(selfMsg, collections) /\ KeptApart(collections, fate)
      /\ DOMAIN deltaQueueMap \subseteq Delta /\ collections \in Seq(Seq(Packet))
      /\ Indexed(deltaQueueMap, collections) /\ Sorted(deltaQueueMap, collections)
  BY DEF QueueIInv, ClassInv, PacketsOK
<1>2. [delta \in Delta |-> QueueOf(delta)] = ByClass(collections, deltaQueueMap)
  BY DEF QueueOf, ByClass
<1>3. CASE txIdleCounter = 0
  <2>1. Dispatch(collections, deltaQueueMap, fate, TRUE) /\ now' = now
    BY <1>3 DEF ReceiveSignal
  <2>2. Scheduler!Dispatch(ByClass(collections, deltaQueueMap), fate, TRUE)
    BY <1>1, <2>1, DispatchRefined
  <2> QED
    BY <1>2, <1>3, <2>2 DEF ReceiveSignal, Scheduler!ReceiveSignal
<1>4. CASE txIdleCounter # 0
  <2>1. fault' = "txIdleCounter" /\ UNCHANGED <<deltaQueueMap, collections, selfMsg, fate>>
    BY <1>4 DEF ReceiveSignal
  <2>2. /\ UNCHANGED [delta \in Delta |-> QueueOf(delta)]
        /\ UNCHANGED IF selfMsg = NoMsg THEN NoMsg
                     ELSE [selfMsg EXCEPT !.collectionIdx = ClassOf(@)]
    BY <2>1 DEF QueueOf, ClassOf, NoMsg
  <2> QED
    BY <1>4, <2>1, <2>2 DEF ReceiveSignal, Scheduler!ReceiveSignal
<1> QED
  BY <1>3, <1>4

LEMMA SeenByClass ==
  ASSUME UNCHANGED <<deltaQueueMap, collections, selfMsg>>
  PROVE  /\ UNCHANGED [delta \in Delta |-> QueueOf(delta)]
         /\ UNCHANGED IF selfMsg = NoMsg THEN NoMsg
                      ELSE [selfMsg EXCEPT !.collectionIdx = ClassOf(@)]
  BY DEF QueueOf, ClassOf, NoMsg

LEMMA TickRefined == ASSUME QueueIInv, Tick PROVE Scheduler!Tick
<1> DEFINE msg == IF selfMsg = NoMsg THEN NoMsg
                  ELSE [selfMsg EXCEPT !.collectionIdx = ClassOf(@)]
<1>1. UNCHANGED <<deltaQueueMap, collections, selfMsg>>
  BY DEF Tick
<1>2. msg.state = selfMsg.state /\ (selfMsg # NoMsg => msg.at = selfMsg.at)
  BY DEF QueueIInv, GoodMsg, Msg, NoMsg
<1>3. ~Scheduler!MessageDue
  BY <1>2 DEF Scheduler!MessageDue, Tick, NoMsg
<1> QED
  BY <1>1, <1>3, SeenByClass DEF Tick, Scheduler!Tick

LEMMA InitRefined == Init => Scheduler!Init
<1> SUFFICES ASSUME Init PROVE Scheduler!Init
  OBVIOUS
<1>1. DOMAIN deltaQueueMap = {} /\ selfMsg = NoMsg
  BY DEF Init
<1>2. [delta \in Delta |-> QueueOf(delta)] = [delta \in Delta |-> <<>>]
  BY <1>1 DEF QueueOf
<1> QED
  BY <1>1, <1>2 DEF Init, Scheduler!Init, NoMsg, Scheduler!NoMsg

(***************************************************************************)
(* Queues that are created on demand and addressed by index behave, seen   *)
(* by class, as the DBFPriorityScheduler whose queues are all there from   *)
(* the start.                                                              *)
(***************************************************************************)
THEOREM RefinesScheduler == Spec => ImplementsScheduler
<1>1. ASSUME QueueIInv, [Next]_vars PROVE [Scheduler!Next]_(Scheduler!vars)
  <2>1. CASE \E id \in Id, slo \in Profile, lag \in 0 .. MaxLag : HandleMessage(id, slo, lag)
    BY <1>1, <2>1, HandleMessageRefined DEF Scheduler!Next
  <2>2. CASE HandleSelfMsg
    BY <1>1, <2>2, HandleSelfMsgRefined DEF Scheduler!Next
  <2>3. CASE ReceiveSignal
    BY <1>1, <2>3, ReceiveSignalRefined DEF Scheduler!Next
  <2>4. CASE Tick
    BY <1>1, <2>4, TickRefined DEF Scheduler!Next
  <2>5. CASE UNCHANGED vars
    <3>1. UNCHANGED <<now, deltaQueueMap, collections, txIdleCounter, selfMsg, mac, onWire,
                      fate, fault>>
      BY <2>5 DEF vars
    <3> QED
      BY <3>1, SeenByClass DEF Scheduler!vars
  <2> QED
    BY <1>1, <2>1, <2>2, <2>3, <2>4, <2>5 DEF Next
<1> QED
  BY <1>1, InitRefined, QueueInvariant, PTL DEF Spec, ImplementsScheduler, Scheduler!Spec

-----------------------------------------------------------------------------
(***************************************************************************)
(* What is proved of the DBFPriorityScheduler holds of the queues that are *)
(* addressed by index.  Detail is the same instance with its theorems, so  *)
(* its definitions are, one by one, those of Scheduler.                    *)
(***************************************************************************)
Detail ==
  INSTANCE DBFPrioritySchedulerProofs WITH
    collections <- [delta \in Delta |-> QueueOf(delta)],
    selfMsg <- IF selfMsg = NoMsg THEN NoMsg
               ELSE [selfMsg EXCEPT !.collectionIdx = ClassOf(@)]

LEMMA DetailAssumptions ==
  /\ Detail!DeltaAssumption /\ Detail!ProfileAssumption
  /\ Detail!PacketCapacityAssumption /\ Detail!TimeAssumption
<1>1. \A S : Detail!IsFiniteSet(S) = IsFiniteSet(S)
  BY DEF Detail!IsFiniteSet, IsFiniteSet
<1>2. Detail!DeltaAssumption
  BY <1>1, DeltaAssumption DEF Detail!DeltaAssumption
<1>3. Detail!ProfileAssumption
  BY ProfileAssumption DEF Detail!ProfileAssumption, ProfileType, Detail!ProfileType
<1>4. Detail!PacketCapacityAssumption
  BY PacketCapacityAssumption DEF Detail!PacketCapacityAssumption
<1>5. Detail!TimeAssumption
  BY TimeAssumption DEF Detail!TimeAssumption
<1> QED
  BY <1>2, <1>3, <1>4, <1>5

LEMMA SameSteps ==
  /\ Scheduler!Init = Detail!Init
  /\ Scheduler!Next = Detail!Next
  /\ Scheduler!vars = Detail!vars
<1>1. \A p : Scheduler!IsDBFPacket(p) = Detail!IsDBFPacket(p)
  BY DEF Scheduler!IsDBFPacket, Detail!IsDBFPacket
<1>2. \A p : Scheduler!TMin(p) = Detail!TMin(p)
  BY DEF Scheduler!TMin, Detail!TMin
<1>3. \A p, t : Scheduler!IsExpired(p, t) = Detail!IsExpired(p, t)
  BY <1>1 DEF Scheduler!IsExpired, Detail!IsExpired, Scheduler!TMax, Detail!TMax,
              Scheduler!HasInfiniteDmax, Detail!HasInfiniteDmax
<1>4. \A p, t :
        Scheduler!IsPacketReadyToSend(p, t) = Detail!IsPacketReadyToSend(p, t)
  BY <1>1, <1>2 DEF Scheduler!IsPacketReadyToSend, Detail!IsPacketReadyToSend
<1>5. \A p, q, t : Scheduler!Precedes(p, q, t) = Detail!Precedes(p, q, t)
  BY <1>1, <1>2 DEF Scheduler!Precedes, Detail!Precedes
<1>6. \A S : Scheduler!Min(S) = Detail!Min(S)
  BY DEF Scheduler!Min, Detail!Min
<1>7. \A S : Scheduler!Max(S) = Detail!Max(S)
  BY DEF Scheduler!Max, Detail!Max
<1>8. \A q, p, t :
        Scheduler!InsertPosition(q, p, t) = Detail!InsertPosition(q, p, t)
  BY <1>5, <1>7 DEF Scheduler!InsertPosition, Detail!InsertPosition,
                    Scheduler!SelectLastInSeq, Detail!SelectLastInSeq
<1>9. \A q, p, t : Scheduler!Insert(q, p, t) = Detail!Insert(q, p, t)
  BY <1>8 DEF Scheduler!Insert, Detail!Insert, Scheduler!InsertAt, Detail!InsertAt
<1>10. \A q, t : Scheduler!SelectPacket(q, t) = Detail!SelectPacket(q, t)
  BY <1>3, <1>6 DEF Scheduler!SelectPacket, Detail!SelectPacket,
                    Scheduler!SelectInSeq, Detail!SelectInSeq
<1>11. \A q, i : Scheduler!RemoveAt(q, i) = Detail!RemoveAt(q, i)
  BY DEF Scheduler!RemoveAt, Detail!RemoveAt
<1>12. \A q, p, t : Scheduler!PushPacket(q, p, t) = Detail!PushPacket(q, p, t)
  BY <1>9, <1>10, <1>11 DEF Scheduler!PushPacket, Detail!PushPacket,
                            Scheduler!IsOverloaded, Detail!IsOverloaded
<1>13. \A q, t : Scheduler!Unexpired(q, t) = Detail!Unexpired(q, t)
  BY <1>3 DEF Scheduler!Unexpired, Detail!Unexpired
<1>14. \A S : Scheduler!Cardinality(S) = Detail!Cardinality(S)
  BY DEF Scheduler!Cardinality, Detail!Cardinality
<1>15. \A S : Scheduler!Enumeration(S) = Detail!Enumeration(S)
  BY <1>14 DEF Scheduler!Enumeration, Detail!Enumeration
<1>16. \A q, t : Scheduler!Purge(q, t) = Detail!Purge(q, t)
  BY <1>13, <1>14, <1>15 DEF Scheduler!Purge, Detail!Purge
<1>17. \A q : Scheduler!Backlogged(q) = Detail!Backlogged(q)
  BY DEF Scheduler!Backlogged, Detail!Backlogged
<1>18. \A q : Scheduler!ReadyToSend(q) = Detail!ReadyToSend(q)
  BY <1>17, <1>4 DEF Scheduler!ReadyToSend, Detail!ReadyToSend
<1>19. \A q : Scheduler!DetermineCollection(q) = Detail!DetermineCollection(q)
  BY <1>17, <1>18, <1>6, <1>7 DEF Scheduler!DetermineCollection,
                                  Detail!DetermineCollection
<1>20. \A p : Scheduler!ScheduleTime(p) = Detail!ScheduleTime(p)
  BY <1>1, <1>2 DEF Scheduler!ScheduleTime, Detail!ScheduleTime
<1>21. \A q : Scheduler!NewMsg(q) = Detail!NewMsg(q)
  BY <1>19, <1>20 DEF Scheduler!NewMsg, Detail!NewMsg
<1>22. \A q : Scheduler!PurgeAll(q) = Detail!PurgeAll(q)
  BY <1>16 DEF Scheduler!PurgeAll, Detail!PurgeAll
<1>23. \A q : Scheduler!ExpiredIds(q) = Detail!ExpiredIds(q)
  BY <1>3 DEF Scheduler!ExpiredIds, Detail!ExpiredIds
<1>24. \A q : Scheduler!AfterPurge(q) = Detail!AfterPurge(q)
  BY <1>3 DEF Scheduler!AfterPurge, Detail!AfterPurge
<1>25. \A q, i : Scheduler!DeletedMsgUsed(q, i) = Detail!DeletedMsgUsed(q, i)
  BY <1>24, <1>23, <1>17, <1>22 DEF Scheduler!DeletedMsgUsed, Detail!DeletedMsgUsed
<1>26. \A q, i : Scheduler!DispatchFaults(q, i) = Detail!DispatchFaults(q, i)
  BY <1>25, <1>24, <1>23, <1>14 DEF Scheduler!DispatchFaults, Detail!DispatchFaults
<1>27. \A q, f, i : Scheduler!Dispatch(q, f, i) = Detail!Dispatch(q, f, i)
  BY <1>22, <1>23, <1>26, <1>17, <1>21, <1>24 DEF Scheduler!Dispatch,
      Detail!Dispatch
<1>28. \A p : Scheduler!Pushed(p) = Detail!Pushed(p)
  BY <1>12 DEF Scheduler!Pushed, Detail!Pushed
<1>29. \A p : Scheduler!Overflow(p) = Detail!Overflow(p)
  BY <1>28 DEF Scheduler!Overflow, Detail!Overflow, Scheduler!ToSet, Detail!ToSet
<1>30. \A i, s, l : Scheduler!HandleMessage(i, s, l) = Detail!HandleMessage(i, s, l)
  BY <1>27, <1>28, <1>29 DEF Scheduler!HandleMessage, Detail!HandleMessage
<1>31. \A p : Scheduler!FrameOf(p) = Detail!FrameOf(p)
  BY <1>1 DEF Scheduler!FrameOf, Detail!FrameOf
<1>32. Scheduler!HandleSelfMsg = Detail!HandleSelfMsg
  BY <1>31 DEF Scheduler!HandleSelfMsg, Detail!HandleSelfMsg, Scheduler!SendFault,
               Detail!SendFault, Scheduler!NoMsg, Detail!NoMsg
<1>33. Scheduler!ReceiveSignal = Detail!ReceiveSignal
  BY <1>27 DEF Scheduler!ReceiveSignal, Detail!ReceiveSignal
<1>34. Scheduler!Tick = Detail!Tick
  BY DEF Scheduler!Tick, Detail!Tick, Scheduler!MessageDue, Detail!MessageDue
<1>35. Scheduler!Next = Detail!Next
  BY <1>30, <1>32, <1>33, <1>34 DEF Scheduler!Next, Detail!Next
<1>36. Scheduler!vars = Detail!vars
  BY DEF Scheduler!vars, Detail!vars
<1>37. Scheduler!Init = Detail!Init
  BY DEF Scheduler!Init, Detail!Init, Scheduler!NoMsg, Detail!NoMsg
<1> QED
  BY <1>35, <1>36, <1>37

LEMMA QueueIsDetail == Spec => Detail!Spec
<1>1. Scheduler!Init => Detail!Init
  BY SameSteps
<1>2. [Scheduler!Next]_Scheduler!vars => [Detail!Next]_Detail!vars
  BY SameSteps DEF Scheduler!vars, Detail!vars
<1>3. Spec => Scheduler!Init /\ [][Scheduler!Next]_Scheduler!vars
  BY RefinesScheduler DEF ImplementsScheduler, Scheduler!Spec
<1> QED
  BY <1>1, <1>2, <1>3, PTL DEF Detail!Spec

(* Every DBF frame leaves within its local queueing budget, also with the  *)
(* queues of the program, created on demand and found by index.            *)
THEOREM QueueBudgetsKept == Spec => []Scheduler!SentInWindow
<1>1. Detail!SentInWindow => Scheduler!SentInWindow
  BY DEF Scheduler!SentInWindow, Detail!SentInWindow, Scheduler!IsDBFPacket,
         Detail!IsDBFPacket, Scheduler!HasInfiniteDmax, Detail!HasInfiniteDmax
<1>2. Detail!Spec => []Detail!SentInWindow
  BY DetailAssumptions, Detail!BudgetsKept, PTL
<1> QED
  BY <1>1, <1>2, QueueIsDetail, PTL

(* With an idle MAC and a packet in any queue of the program a message is  *)
(* armed.                                                                  *)
THEOREM QueueNoLostWakeup == Spec => []Scheduler!ArmedWhenIdle
<1>1. Detail!ArmedWhenIdle => Scheduler!ArmedWhenIdle
  BY DEF Scheduler!ArmedWhenIdle, Detail!ArmedWhenIdle, Scheduler!NoMsg, Detail!NoMsg,
         Scheduler!Backlogged, Detail!Backlogged
<1>2. Detail!Spec => []Detail!ArmedWhenIdle
  BY DetailAssumptions, Detail!NoLostWakeup, PTL
<1> QED
  BY <1>1, <1>2, QueueIsDetail, PTL

(* No packet is lost or duplicated on its way through the queues.          *)
THEOREM QueuePacketsAccounted == Spec => []Scheduler!PacketsAccounted
<1>1. Detail!PacketsAccounted => Scheduler!PacketsAccounted
  <2>1. \A id : Scheduler!Places(id) = Detail!Places(id)
    BY DEF Scheduler!Places, Detail!Places
  <2>2. \A S : Scheduler!Cardinality(S) = Detail!Cardinality(S)
    BY DEF Scheduler!Cardinality, Detail!Cardinality
  <2> QED
    BY <2>1, <2>2 DEF Scheduler!PacketsAccounted, Detail!PacketsAccounted
<1>2. Detail!Spec => []Detail!PacketsAccounted
  BY DetailAssumptions, Detail!EveryPacketAccounted, PTL
<1> QED
  BY <1>1, <1>2, QueueIsDetail, PTL

(* Without lag no handler meets an error case, whatever the order in which *)
(* the queues were created.                                                *)
THEOREM QueueNoRuntimeErrorWithoutLag ==
  ASSUME MaxLag = 0
  PROVE  Spec => [](fault = "none")
<1>1. Detail!NoRuntimeError => fault = "none"
  BY DEF Detail!NoRuntimeError
<1>2. Detail!Spec => []Detail!NoRuntimeError
  BY DetailAssumptions, Detail!NoRuntimeErrorWithoutLag, PTL
<1> QED
  BY <1>1, <1>2, QueueIsDetail, PTL
(* Looking at its queues, the scheduler of the program arms the highest    *)
(* class that is ready.                                                    *)
THEOREM QueueArmsHighestPriority == Spec => Scheduler!HighestReadyArmed
<1>1. [Detail!ArmsHighestReady]_Detail!vars => [Scheduler!ArmsHighestReady]_Scheduler!vars
  BY DEF Scheduler!ArmsHighestReady, Detail!ArmsHighestReady, Scheduler!HasReady,
         Detail!HasReady, Scheduler!IsPacketReadyToSend, Detail!IsPacketReadyToSend,
         Scheduler!IsDBFPacket, Detail!IsDBFPacket, Scheduler!TMin, Detail!TMin,
         Scheduler!vars, Detail!vars
<1>2. Detail!Spec => [][Detail!ArmsHighestReady]_Detail!vars
  BY DetailAssumptions, Detail!ArmsHighestPriority, PTL DEF Detail!HighestReadyArmed
<1> QED
  BY <1>1, <1>2, QueueIsDetail, PTL DEF Scheduler!HighestReadyArmed

(* From indices to the set of waiting packets: the program's egress        *)
(* interface keeps the promises of TimedEgress.                            *)
THEOREM QueueRefinesTimedEgress == Spec => Detail!ImplementsTimedEgress
<1>1. Detail!Spec => Detail!ImplementsTimedEgress
  BY DetailAssumptions, Detail!RefinesTimedEgress, PTL
<1> QED
  BY <1>1, QueueIsDetail, PTL
=============================================================================
