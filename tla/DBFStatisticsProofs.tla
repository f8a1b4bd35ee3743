------------------------ MODULE DBFStatisticsProofs ------------------------
(***************************************************************************)
(* The lists of classifier and scheduler agree, and the statistics are     *)
(* right, for any packets, classes, headers and capture rate.              *)
(***************************************************************************)
EXTENDS DBFStatistics, NumberLemmas, FiniteSetTheorems

QueueFor(delta) == Module(QueueName(delta), 0)

(***************************************************************************)
(* What createDBFQueue keeps up: the lists are one list, which the map     *)
(* numbers; its members are connected; and there are no other queues.      *)
(***************************************************************************)
Agree(n, map) ==
  /\ NetType(n)
  /\ n.providers = n.consumers /\ n.collections = n.consumers
  /\ DOMAIN map \subseteq Delta
  /\ \A i \in 1 .. Len(n.consumers) : \E delta \in DOMAIN map : map[delta] = i
  /\ \A delta \in DOMAIN map :
       /\ map[delta] \in 1 .. Len(n.consumers)
       /\ n.consumers[map[delta]] = QueueFor(delta)
       /\ \A signal \in QueueSignals : <<QueueFor(delta), signal>> \in n.subscribed
       /\ QueueFor(delta) \in n.collected

NamesKnown ==
  /\ IsFiniteSet(net.submodules)
  /\ \A module \in net.submodules :
       module.name.kind = "queue" => module.name.delta \in DOMAIN deltaQueueMap

(* Packets are in the queue of their class. *)
InOwnQueue(map, places, queues) ==
  \A id \in Id : places[id] = "queue" =>
    DeltaOf[id] \in DOMAIN map /\ queues[id] = QueueFor(DeltaOf[id])

(* A count that is at most one off. *)
Near(count, n, places, queues) ==
  count \in Nat /\ count - Cardinality(InUse(n, places, queues)) \in -1 .. 1

RecordedOnce ==
  \A port \in Port : recorders[port] = IF port \in txPktToPortSignals THEN 1 ELSE 0

StatInv ==
  /\ EgressTypeOK /\ ~failed
  /\ Agree(net, deltaQueueMap) /\ NamesKnown
  /\ InOwnQueue(deltaQueueMap, place, queueOf)
  /\ Near(queuesInUse, net, place, queueOf)
  /\ RecordedOnce /\ EveryFrameSampledOnce

-----------------------------------------------------------------------------
(* Sets of queues in use.                                                  *)

LEMMA InUseFinite ==
  ASSUME NEW n, NEW map, Agree(n, map), NEW places, NEW queues
  PROVE  /\ IsFiniteSet(InUse(n, places, queues))
         /\ Cardinality(InUse(n, places, queues)) \in Nat
<1>1. Len(n.collections) \in Nat
  BY DEF Agree, NetType
<1>2. IsFiniteSet(1 .. Len(n.collections))
  BY <1>1, FS_Interval
<1>3. InUse(n, places, queues) \in SUBSET (1 .. Len(n.collections))
  BY DEF InUse
<1> QED
  BY <1>2, <1>3, FS_Subset, FS_CardinalityType

(* One more queue counts one more at most.                                 *)
LEMMA OneMore ==
  ASSUME NEW S, NEW T, NEW x, IsFiniteSet(S), IsFiniteSet(T),
         S \subseteq T, T \subseteq S \cup {x}
  PROVE  /\ Cardinality(S) \in Nat /\ Cardinality(T) \in Nat
         /\ Cardinality(T) - Cardinality(S) \in 0 .. 1
<1>1. CASE T = S
  BY <1>1, FS_CardinalityType
<1>2. CASE T # S
  <2>1. T = S \cup {x} /\ x \notin S
    BY <1>2
  <2> QED
    BY <2>1, FS_AddElement, FS_CardinalityType
<1> QED
  BY <1>1, <1>2

(* The index of a queue is that of its class.                              *)
LEMMA IndexOf ==
  ASSUME NEW n, NEW map, Agree(n, map), NEW delta \in DOMAIN map,
         NEW i \in 1 .. Len(n.collections), n.collections[i] = QueueFor(delta)
  PROVE  i = map[delta]
<1>1. PICK other \in DOMAIN map : map[other] = i
  BY DEF Agree
<1>2. QueueFor(other) = QueueFor(delta)
  BY <1>1 DEF Agree
<1>3. other = delta
  BY <1>2 DEF QueueFor, Module, QueueName, Name
<1> QED
  BY <1>1, <1>3

(* Only queues that a change of places touches can change their use.       *)
LEMMA UseChanges ==
  ASSUME NEW n, NEW map, Agree(n, map), NEW delta \in DOMAIN map,
         NEW places, NEW queues, NEW morePlaces, NEW moreQueues,
         \A id \in Id : places[id] = "queue" =>
           morePlaces[id] = "queue" /\ moreQueues[id] = queues[id],
         \A id \in Id : morePlaces[id] = "queue" /\ places[id] # "queue" =>
           moreQueues[id] = QueueFor(delta)
  PROVE  /\ InUse(n, places, queues) \subseteq InUse(n, morePlaces, moreQueues)
         /\ InUse(n, morePlaces, moreQueues)
              \subseteq InUse(n, places, queues) \cup {map[delta]}
<1>1. ASSUME NEW i \in InUse(n, places, queues)
      PROVE  i \in InUse(n, morePlaces, moreQueues)
  BY <1>1 DEF InUse, Content
<1>2. ASSUME NEW i \in InUse(n, morePlaces, moreQueues),
             i \notin InUse(n, places, queues)
      PROVE  i = map[delta]
  <2>1. i \in 1 .. Len(n.collections)
    BY DEF InUse
  <2>2. PICK id \in Id : morePlaces[id] = "queue" /\ moreQueues[id] = n.collections[i]
    BY DEF InUse, Content
  <2>3. places[id] # "queue"
    BY <1>2, <2>1, <2>2 DEF InUse, Content
  <2>4. n.collections[i] = QueueFor(delta)
    BY <2>2, <2>3
  <2> QED
    BY <2>1, <2>4, IndexOf
<1> QED
  BY <1>1, <1>2

LEMMA NearAfterMore ==
  ASSUME NEW n, NEW map, Agree(n, map), NEW delta \in DOMAIN map,
         NEW places, NEW queues, NEW morePlaces, NEW moreQueues,
         \A id \in Id : places[id] = "queue" =>
           morePlaces[id] = "queue" /\ moreQueues[id] = queues[id],
         \A id \in Id : morePlaces[id] = "queue" /\ places[id] # "queue" =>
           moreQueues[id] = QueueFor(delta)
  PROVE  /\ Near(Cardinality(InUse(n, places, queues)), n, morePlaces, moreQueues)
         /\ Near(Cardinality(InUse(n, morePlaces, moreQueues)), n, places, queues)
<1> DEFINE S == InUse(n, places, queues)
           T == InUse(n, morePlaces, moreQueues)
<1>1. S \subseteq T /\ T \subseteq S \cup {map[delta]}
  BY UseChanges
<1>2. IsFiniteSet(S) /\ IsFiniteSet(T)
  BY InUseFinite
<1> HIDE DEF S, T
<1>3. /\ Cardinality(S) \in Nat /\ Cardinality(T) \in Nat
      /\ Cardinality(T) - Cardinality(S) \in 0 .. 1
  BY <1>1, <1>2, OneMore
<1> QED
  BY <1>3 DEF Near, S, T

LEMMA NearItself ==
  ASSUME NEW n, NEW map, Agree(n, map), NEW places, NEW queues
  PROVE  Near(Cardinality(InUse(n, places, queues)), n, places, queues)
  BY InUseFinite DEF Near

-----------------------------------------------------------------------------
(* The creation of queues.                                                 *)

LEMMA FirstOfItsName ==
  ASSUME NEW submodules, IsFiniteSet(submodules), NEW name,
         \A module \in submodules : module.name # name
  PROVE  /\ CreateDynamicModule(name, submodules, TRUE) = Module(name, 0)
         /\ ~CreationFails("DBFPacketQueue", name, submodules, TRUE)
<1>1. \A index : Module(name, index) \notin submodules
  BY DEF Module
<1>2. Cardinality(submodules) \in Nat
  BY FS_CardinalityType
<1>3. VectorSize(submodules, name) = 0
  <2> DEFINE P(size) == /\ Module(name, size) \notin submodules
                        /\ \A index \in 0 .. size - 1 : Module(name, index) \in submodules
  <2>1. P(0) /\ 0 \in 0 .. Cardinality(submodules)
    BY <1>1, <1>2
  <2>2. \A size \in 0 .. Cardinality(submodules) : P(size) => size = 0
    <3> SUFFICES ASSUME NEW size \in 0 .. Cardinality(submodules), P(size), size # 0
                 PROVE  FALSE
      OBVIOUS
    <3>1. 0 \in 0 .. size - 1
      BY <1>2
    <3> QED
      BY <1>1, <3>1
  <2> HIDE DEF P
  <2>3. (CHOOSE size \in 0 .. Cardinality(submodules) : P(size)) = 0
    BY <2>1, <2>2
  <2> QED
    BY <2>3 DEF P, VectorSize
<1> QED
  BY <1>1, <1>3, TypesAssumption DEF CreateDynamicModule, CreationFails

(* The interface as createDBFQueue leaves it.                              *)
LEMMA ConnectedFields ==
  ASSUME NEW n, NetType(n), NEW q \in Queue, n.providers = n.consumers,
         n.collections = n.consumers
  PROVE  LET c == Connected(n, q)
         IN  /\ NetType(c)
             /\ c.submodules = n.submodules \cup {q}
             /\ c.consumers = Append(n.consumers, q)
             /\ c.providers = Append(n.consumers, q)
             /\ c.collections = Append(n.consumers, q)
             /\ c.outGates = Len(n.consumers) + 1 /\ c.inGates = c.outGates
             /\ c.subscribed = n.subscribed \cup ({q} \X QueueSignals)
             /\ c.collected = n.collected \cup {q}
<1> DEFINE a == WithSubmodule(n, q)
           b == ConnectOutGate(a, q)
           d == AddDBFQueue(b, q)
           c == Connected(n, q)
<1>1. NetType(a) /\ a = [n EXCEPT !.submodules = @ \cup {q}]
  <2>1. q \in Submodule
    BY DEF Queue, Submodule
  <2> QED
    BY <2>1 DEF WithSubmodule, NetType
<1>2. b = [a EXCEPT !.outGates = @ + 1, !.consumers = Append(@, q)]
  BY DEF ConnectOutGate
<1>3. d = [b EXCEPT !.subscribed = @ \cup ({q} \X QueueSignals),
                    !.inGates = @ + 1,
                    !.providers = Append(@, q), !.collections = Append(@, q)]
  BY DEF AddDBFQueue
<1> HIDE DEF a, b, d
<1>4. /\ a.submodules = n.submodules \cup {q} /\ a.outGates = n.outGates
      /\ a.consumers = n.consumers /\ a.inGates = n.inGates
      /\ a.providers = n.consumers /\ a.collections = n.consumers
      /\ a.subscribed = n.subscribed /\ a.collected = n.collected
  BY <1>1 DEF NetType
<1>5. b = [a EXCEPT !.outGates = Len(n.consumers) + 1,
                    !.consumers = Append(n.consumers, q)]
  BY <1>2, <1>4, <1>1 DEF NetType
<1>6. d = [submodules |-> n.submodules \cup {q}, outGates |-> Len(n.consumers) + 1,
           consumers |-> Append(n.consumers, q), inGates |-> Len(n.consumers) + 1,
           providers |-> Append(n.consumers, q), collections |-> Append(n.consumers, q),
           subscribed |-> n.subscribed \cup ({q} \X QueueSignals),
           collected |-> n.collected]
  BY <1>1, <1>3, <1>4, <1>5 DEF NetType
<1>7. \E i \in 1 .. Len(d.providers) : d.providers[i] = q
  <2>1. n.consumers \in Seq(Queue)
    BY DEF NetType
  <2>2. /\ Len(n.consumers) + 1 \in 1 .. Len(Append(n.consumers, q))
        /\ Append(n.consumers, q)[Len(n.consumers) + 1] = q
    BY <2>1
  <2> QED
    BY <1>6, <2>2
<1>8. c = [d EXCEPT !.collected = @ \cup {q}]
  BY <1>7 DEF FinalizeModuleAndSchedule, a, b, d, Connected
<1> HIDE DEF c
<1>9. /\ n.consumers \in Seq(Queue) /\ Append(n.consumers, q) \in Seq(Queue)
      /\ Len(Append(n.consumers, q)) = Len(n.consumers) + 1 /\ Len(n.consumers) \in Nat
      /\ n.subscribed \cup ({q} \X QueueSignals) \in SUBSET (Queue \X QueueSignals)
      /\ n.collected \cup {q} \in SUBSET Queue
      /\ n.submodules \cup {q} \in SUBSET Submodule
  BY <1>1, <1>4 DEF NetType
<1>10. c = [d EXCEPT !.collected = n.collected \cup {q}]
  BY <1>6, <1>8
<1>11. c = [submodules |-> n.submodules \cup {q}, outGates |-> Len(n.consumers) + 1,
            consumers |-> Append(n.consumers, q), inGates |-> Len(n.consumers) + 1,
            providers |-> Append(n.consumers, q), collections |-> Append(n.consumers, q),
            subscribed |-> n.subscribed \cup ({q} \X QueueSignals),
            collected |-> n.collected \cup {q}]
  BY <1>6, <1>10
<1>12. NetType(c)
  BY <1>9, <1>11 DEF NetType
<1> QED
  BY <1>11, <1>12 DEF c

LEMMA CreateDBFQueueResult ==
  ASSUME Agree(net, deltaQueueMap), NamesKnown, NEW delta \in Delta, IsNew(delta)
  PROVE  /\ CreateDBFQueue(delta) = Connected(net, QueueFor(delta))
         /\ QueueFor(delta) \in Queue
         /\ ~CreateDBFQueueThrows(delta)
<1>1. \A module \in net.submodules : module.name # QueueName(delta)
  BY DEF NamesKnown, QueueName, Name, IsNew
<1>2. /\ CreateDynamicModule(QueueName(delta), net.submodules, TRUE) = QueueFor(delta)
      /\ ~CreationFails("DBFPacketQueue", QueueName(delta), net.submodules, TRUE)
  BY <1>1, FirstOfItsName DEF NamesKnown, QueueFor
<1>3. CreateDBFQueue(delta) = Connected(net, QueueFor(delta))
  BY <1>2 DEF CreateDBFQueue
<1>4. QueueFor(delta) \in Queue
  BY DEF QueueFor, Module, QueueName, Name, Queue
<1>5. CreateDBFQueue(delta).outGates = CreateDBFQueue(delta).inGates
  <2>1. /\ NetType(net) /\ net.providers = net.consumers
        /\ net.collections = net.consumers
    BY DEF Agree
  <2> QED
    BY <1>3, <1>4, <2>1, ConnectedFields
<1> QED
  BY <1>2, <1>3, <1>4, <1>5 DEF CreateDBFQueueThrows

(* getIndexOfQueueForDelta never throws, and afterwards all lists agree.   *)
LEMMA NetForGood ==
  ASSUME Agree(net, deltaQueueMap), NamesKnown, NEW delta \in Delta
  PROVE  LET n == NetFor(delta)
             map == WithIndex(delta)
         IN  /\ ~(IsNew(delta) /\ CreateDBFQueueThrows(delta))
             /\ Agree(n, map)
             /\ DOMAIN map = DOMAIN deltaQueueMap \cup {delta}
             /\ map[delta] = GetIndexOfQueueForDelta(delta)
             /\ n.consumers[GetIndexOfQueueForDelta(delta)] = QueueFor(delta)
             /\ IsFiniteSet(n.submodules)
             /\ \A module \in n.submodules :
                  module.name.kind = "queue" => module.name.delta \in DOMAIN map
<1> DEFINE n == NetFor(delta)
           map == WithIndex(delta)
           idx == GetIndexOfQueueForDelta(delta)
           q == QueueFor(delta)
<1>1. /\ DOMAIN map = DOMAIN deltaQueueMap \cup {delta} /\ map[delta] = idx
      /\ \A d \in DOMAIN deltaQueueMap : d # delta => map[d] = deltaQueueMap[d]
  BY DEF WithIndex
<1>2. CASE ~IsNew(delta)
  <2>1. n = net /\ idx = deltaQueueMap[delta] /\ DOMAIN map = DOMAIN deltaQueueMap
    BY <1>1, <1>2 DEF NetFor, GetIndexOfQueueForDelta, IsNew
  <2> HIDE DEF n, map, idx
  <2>2. \A d \in DOMAIN deltaQueueMap : map[d] = deltaQueueMap[d]
    BY <1>1, <2>1
  <2>3. Agree(n, map)
    BY <2>1, <2>2 DEF Agree
  <2>4. n.consumers[idx] = q
    BY <1>2, <2>1 DEF Agree, IsNew
  <2>5. /\ IsFiniteSet(n.submodules)
        /\ \A module \in n.submodules :
             module.name.kind = "queue" => module.name.delta \in DOMAIN map
    BY <2>1 DEF NamesKnown
  <2> QED
    BY <1>1, <1>2, <2>3, <2>4, <2>5 DEF n, map, idx
<1>3. CASE IsNew(delta)
  <2>1. n = Connected(net, q) /\ q \in Queue /\ ~CreateDBFQueueThrows(delta)
        /\ idx = Connected(net, q).outGates
    <3>1. n = CreateDBFQueue(delta) /\ idx = CreateDBFQueue(delta).outGates
      BY <1>3 DEF NetFor, GetIndexOfQueueForDelta
    <3>2. /\ CreateDBFQueue(delta) = Connected(net, q) /\ q \in Queue
          /\ ~CreateDBFQueueThrows(delta)
      BY <1>3, CreateDBFQueueResult
    <3> HIDE DEF n, idx, q
    <3> QED
      BY <3>1, <3>2
  <2>2. NetType(net) /\ net.providers = net.consumers /\ net.collections = net.consumers
        /\ net.consumers \in Seq(Queue)
    BY DEF Agree, NetType
  <2>3. /\ NetType(n)
        /\ n.submodules = net.submodules \cup {q}
        /\ n.consumers = Append(net.consumers, q)
        /\ n.providers = n.consumers /\ n.collections = n.consumers
        /\ idx = Len(net.consumers) + 1
        /\ n.subscribed = net.subscribed \cup ({q} \X QueueSignals)
        /\ n.collected = net.collected \cup {q}
    <3> DEFINE c == Connected(net, q)
    <3>1. /\ NetType(c)
          /\ c.submodules = net.submodules \cup {q}
          /\ c.consumers = Append(net.consumers, q)
          /\ c.providers = Append(net.consumers, q)
          /\ c.collections = Append(net.consumers, q)
          /\ c.outGates = Len(net.consumers) + 1
          /\ c.subscribed = net.subscribed \cup ({q} \X QueueSignals)
          /\ c.collected = net.collected \cup {q}
      BY <2>1, <2>2, ConnectedFields
    <3>2. n = c /\ idx = c.outGates
      BY <2>1
    <3> HIDE DEF c, n, idx, q
    <3> QED
      BY <3>1, <3>2
  <2> HIDE DEF n, map, idx
  <2>4. \A d \in DOMAIN deltaQueueMap : d # delta
    BY <1>3 DEF IsNew
  <2>5. n.consumers[idx] = q /\ Len(n.consumers) = idx /\ Len(net.consumers) \in Nat
    BY <2>2, <2>3, <2>1
  <2>6. \A i \in 1 .. Len(net.consumers) : n.consumers[i] = net.consumers[i]
    BY <2>1, <2>2, <2>3
  <2>7. \A i \in 1 .. Len(n.consumers) : \E d \in DOMAIN map : map[d] = i
    <3> SUFFICES ASSUME NEW i \in 1 .. Len(n.consumers), i # idx
                 PROVE  \E d \in DOMAIN map : map[d] = i
      BY <1>1
    <3>1. i \in 1 .. Len(net.consumers)
      BY <2>3, <2>5
    <3> QED
      BY <1>1, <2>4, <3>1 DEF Agree
  <2>8. ASSUME NEW d \in DOMAIN map
        PROVE  /\ map[d] \in 1 .. Len(n.consumers)
               /\ n.consumers[map[d]] = QueueFor(d)
               /\ \A signal \in QueueSignals : <<QueueFor(d), signal>> \in n.subscribed
               /\ QueueFor(d) \in n.collected
    <3>1. CASE d = delta
      <4>1. idx \in 1 .. Len(n.consumers)
        BY <2>3, <2>5
      <4> QED
        BY <1>1, <2>3, <2>5, <3>1, <4>1
    <3>2. CASE d # delta
      <4>1. d \in DOMAIN deltaQueueMap /\ map[d] = deltaQueueMap[d]
        BY <1>1, <3>2
      <4>2. /\ map[d] \in 1 .. Len(net.consumers)
            /\ net.consumers[map[d]] = QueueFor(d)
            /\ \A signal \in QueueSignals : <<QueueFor(d), signal>> \in net.subscribed
            /\ QueueFor(d) \in net.collected
        BY <4>1 DEF Agree
      <4>3. map[d] \in 1 .. Len(n.consumers)
        BY <2>3, <2>5, <4>2
      <4> QED
        BY <2>3, <2>6, <4>2, <4>3
    <3> QED
      BY <3>1, <3>2
  <2>9. Agree(n, map)
    <3>1. DOMAIN map \subseteq Delta
      BY <1>1 DEF Agree
    <3> QED
      BY <2>3, <2>7, <2>8, <3>1 DEF Agree
  <2>10. /\ IsFiniteSet(n.submodules)
         /\ \A module \in n.submodules :
              module.name.kind = "queue" => module.name.delta \in DOMAIN map
    <3>1. IsFiniteSet(n.submodules)
      BY <2>3, FS_AddElement DEF NamesKnown
    <3>2. q.name.delta = delta
      BY DEF QueueFor, Module, QueueName, Name
    <3> QED
      BY <1>1, <2>3, <3>1, <3>2 DEF NamesKnown
  <2> QED
    BY <1>1, <2>1, <2>5, <2>9, <2>10 DEF n, map, idx
<1> QED
  BY <1>2, <1>3

-----------------------------------------------------------------------------
(* The count of queues in use.                                             *)

LEMMA LastPurgedExists ==
  ASSUME NEW n, NEW map, Agree(n, map), NEW places, NEW queues,
         NEW expired \in SUBSET Queued(places, queues, n), expired # {}
  PROVE  LastPurged(n, places, queues, expired) \in {queues[id] : id \in expired}
<1> DEFINE J == {i \in 1 .. Len(n.collections) :
                   Content(places, queues, n.collections[i]) \cap expired # {}}
           last == Max(J)
<1>1. J \in SUBSET Nat /\ Len(n.collections) \in Nat
      /\ \A i \in J : i <= Len(n.collections)
  BY DEF Agree, NetType
<1>2. J # {}
  BY DEF Queued
<1>3. last \in J /\ \A i \in J : i <= last
  BY <1>1, <1>2, MaxOfNaturals
<1> HIDE DEF last
<1>4. PICK e \in expired : e \in Content(places, queues, n.collections[last])
  BY <1>3
<1>5. n.collections[last] = queues[e] /\ last \in 1 .. Len(n.collections)
  BY <1>3, <1>4 DEF Content
<1>6. \A k \in last + 1 .. Len(n.collections) :
        Content(places, queues, n.collections[k]) \cap expired = {}
  <2> SUFFICES ASSUME NEW k \in last + 1 .. Len(n.collections), k \in J
               PROVE  FALSE
    BY <1>1, <1>5
  <2> QED
    BY <1>1, <1>3, <1>5
<1>7. \E queue \in {queues[id] : id \in expired} :
        \E i \in 1 .. Len(n.collections) :
          /\ n.collections[i] = queue
          /\ \A k \in i + 1 .. Len(n.collections) :
               Content(places, queues, n.collections[k]) \cap expired = {}
  BY <1>5, <1>6
<1> QED
  BY <1>7 DEF LastPurged

(* A purge leaves the count at most one off.                               *)
LEMMA PurgeNear ==
  ASSUME NEW n, NEW map, Agree(n, map), NEW places, NEW queues,
         InOwnQueue(map, places, queues),
         NEW expired \in SUBSET Queued(places, queues, n), NEW counts,
         \A c \in counts : Near(c, n, places, queues),
         NEW count \in CountsAfterPurge(n, places, queues, expired, counts)
  PROVE  Near(count, n, Lost(places, expired), queues)
<1> DEFINE after == Lost(places, expired)
<1>1. \A ids : \A id \in Id : Lost(places, ids)[id] = IF id \in ids THEN "lost" ELSE places[id]
  BY DEF Lost
<1>2. CASE expired = {}
  <2>1. \A id \in Id : after[id] = places[id]
    BY <1>1, <1>2
  <2> HIDE DEF after
  <2>2. InUse(n, after, queues) = InUse(n, places, queues)
    BY <2>1 DEF InUse, Content
  <2>3. count \in counts
    BY <1>2 DEF CountsAfterPurge
  <2> QED
    BY <2>2, <2>3 DEF Near, after
<1>3. CASE expired # {}
  <2> DEFINE queue == LastPurged(n, places, queues, expired)
  <2>1. PICK e \in expired : queue = queues[e]
    BY <1>3, LastPurgedExists
  <2>2. \A id \in expired :
          /\ id \in Id /\ places[id] = "queue" /\ DeltaOf[id] \in DOMAIN map
          /\ queues[id] = QueueFor(DeltaOf[id])
    BY DEF Queued, Content, InOwnQueue
  <2>3. <<queue, "packetRemoved">> \in n.subscribed
    BY <2>1, <2>2 DEF Agree, QueueSignals
  <2> HIDE DEF queue
  <2>4. PICK id \in expired :
          count \in {Cardinality(InUse(n, Lost(places, expired \ {id}), queues)),
                    Cardinality(InUse(n, after, queues))}
    BY <1>3, <2>3 DEF CountsAfterPurge, queue
  <2> DEFINE before == Lost(places, expired \ {id})
  <2>5. /\ \A x \in Id : after[x] = "queue" => before[x] = "queue"
        /\ \A x \in Id : before[x] = "queue" /\ after[x] # "queue" => x = id
    BY <1>1
  <2> HIDE DEF after, before
  <2>6. Near(Cardinality(InUse(n, before, queues)), n, after, queues)
    BY <2>2, <2>5, NearAfterMore
  <2>7. Near(Cardinality(InUse(n, after, queues)), n, after, queues)
    BY NearItself
  <2> QED
    BY <2>4, <2>6, <2>7 DEF after, before
<1> QED
  BY <1>2, <1>3

(* A queue that drops a packet for want of room stays in use.              *)
LEMMA VictimLeavesQueueInUse ==
  ASSUME NEW n, NEW places, NEW queues, NEW queue,
         NEW victims \in Victims(places, queues, queue)
  PROVE  /\ victims \subseteq Content(places, queues, queue)
         /\ InUse(n, Lost(places, victims), queues) = InUse(n, places, queues)
<1> DEFINE content == Content(places, queues, queue)
           after == Lost(places, victims)
<1>1. \A id \in Id : after[id] = IF id \in victims THEN "lost" ELSE places[id]
  BY DEF Lost
<1>2. victims \subseteq content
  BY DEF Victims
<1>3. \A other : Content(after, queues, other) = Content(places, queues, other) \ victims
  BY <1>1 DEF Content
<1>4. ASSUME NEW other, Content(places, queues, other) # {},
             Content(places, queues, other) \subseteq victims
      PROVE  FALSE
  <2>1. PICK id \in Content(places, queues, other) : id \in victims
    BY <1>4
  <2>2. other = queue
    BY <1>2, <2>1 DEF Content
  <2>3. PICK v \in content : victims = {v} /\ PacketCapacity # -1
                            /\ Cardinality(content) > PacketCapacity
    BY <2>1 DEF Victims
  <2>4. content = {v}
    BY <1>2, <1>4, <2>2, <2>3
  <2>5. Cardinality(content) = 1
    BY <2>4, FS_Singleton
  <2> QED
    BY <2>3, <2>5, EgressAssumption
<1> HIDE DEF after
<1>5. \A other : Content(after, queues, other) # {} <=> Content(places, queues, other) # {}
  BY <1>3, <1>4
<1> QED
  BY <1>2, <1>5 DEF InUse, after

-----------------------------------------------------------------------------
(* The steps of the interface.                                             *)

Places == {"remote", "host", "queue", "lost", "sent"}

(* Frames that were sent stay sent, and nothing else is recorded.          *)
LEMMA SampledUnchanged ==
  ASSUME EveryFrameSampledOnce, UNCHANGED <<samples, txPks>>,
         \A id \in Id : place'[id] = "sent" <=> place[id] = "sent"
  PROVE  EveryFrameSampledOnce'
<1>1. {id \in Id : place'[id] = "sent"} = {id \in Id : place[id] = "sent"}
  OBVIOUS
<1>2. \A port :
        {id \in Id : place'[id] = "sent" /\ GetDestinationPort(id) = port}
          = {id \in Id : place[id] = "sent" /\ GetDestinationPort(id) = port}
  OBVIOUS
<1> QED
  BY <1>1, <1>2 DEF EveryFrameSampledOnce

LEMMA LostType ==
  ASSUME NEW places \in [Id -> Places], NEW ids
  PROVE  Lost(places, ids) \in [Id -> Places]
  BY DEF Lost, Places

LEMMA HandleMessageStat ==
  ASSUME StatInv, NEW packet \in Id, HandleMessage(packet)
  PROVE  StatInv'
<1> DEFINE delta == DeltaOf[packet]
           n == NetFor(delta)
           map == WithIndex(delta)
           queue == n.consumers[GetIndexOfQueueForDelta(delta)]
           queues == [queueOf EXCEPT ![packet] = queue]
           pushed == [place EXCEPT ![packet] = "queue"]
<1>1. delta \in Delta
  BY EgressAssumption
<1>2. Agree(net, deltaQueueMap) /\ NamesKnown /\ EgressTypeOK
      /\ InOwnQueue(deltaQueueMap, place, queueOf) /\ RecordedOnce
      /\ EveryFrameSampledOnce
  BY DEF StatInv
<1>3. /\ ~(IsNew(delta) /\ CreateDBFQueueThrows(delta))
      /\ Agree(n, map)
      /\ DOMAIN map = DOMAIN deltaQueueMap \cup {delta}
      /\ queue = QueueFor(delta)
      /\ IsFiniteSet(n.submodules)
      /\ \A module \in n.submodules :
           module.name.kind = "queue" => module.name.delta \in DOMAIN map
  BY <1>1, <1>2, NetForGood
<1> DEFINE Purged(victims, expired) ==
             /\ place' = Lost(Lost(pushed, victims), expired)
             /\ queuesInUse' \in
                  CountsAfterPurge(n, Lost(pushed, victims), queues, expired,
                    Counts(n, queue, "packetPushed", InUse(n, place, queueOf),
                           InUse(n, pushed, queues)))
<1>31. PICK victims \in Victims(pushed, queues, queue) :
        \E expired \in SUBSET Queued(Lost(pushed, victims), queues, n) :
          Purged(victims, expired)
  BY <1>3 DEF HandleMessage
<1>4. PICK expired \in SUBSET Queued(Lost(pushed, victims), queues, n) :
        Purged(victims, expired)
  BY <1>31
<1>5. /\ place[packet] = "host" /\ failed' = FALSE
      /\ deltaQueueMap' = map /\ net' = n /\ queueOf' = queues
      /\ UNCHANGED <<txPktToPortSignals, recorders, samples, txPks>>
  BY <1>3 DEF HandleMessage
<1>6. place \in [Id -> Places] /\ queueOf \in [Id -> Queue \cup {NoQueue}]
  BY <1>2 DEF EgressTypeOK, Places
<1> DEFINE kept == Lost(pushed, victims)
<1> HIDE DEF n, map, queue
<1>7. /\ pushed \in [Id -> Places] /\ pushed[packet] = "queue"
      /\ \A id \in Id \ {packet} : pushed[id] = place[id] /\ queues[id] = queueOf[id]
      /\ queues[packet] = queue
  BY <1>6 DEF Places
<1> HIDE DEF pushed, queues
<1>8. /\ victims \subseteq Content(pushed, queues, queue)
      /\ InUse(n, kept, queues) = InUse(n, pushed, queues)
  BY VictimLeavesQueueInUse
<1>9. \A id \in Id : kept[id] = IF id \in victims THEN "lost" ELSE pushed[id]
  BY DEF Lost
<1>10. \A id \in Id : place'[id] = IF id \in expired THEN "lost" ELSE kept[id]
  BY <1>4 DEF Lost
<1>11. place' \in [Id -> Places]
  BY <1>4, <1>7, LostType
<1> HIDE DEF kept
<1>12. expired \subseteq Id /\ \A id \in expired : kept[id] = "queue"
  BY DEF Queued, Content, kept
<1>13. InOwnQueue(map, kept, queues)
  BY <1>2, <1>3, <1>5, <1>7, <1>9 DEF InOwnQueue
<1>14. ASSUME NEW c \in Counts(n, queue, "packetPushed", InUse(n, place, queueOf),
                               InUse(n, pushed, queues))
       PROVE  Near(c, n, kept, queues)
  <2>1. <<queue, "packetPushed">> \in n.subscribed /\ delta \in DOMAIN map
    BY <1>3 DEF Agree, QueueSignals
  <2>2. \/ c = Cardinality(InUse(n, place, queueOf))
        \/ c = Cardinality(InUse(n, pushed, queues))
    BY <2>1 DEF Counts
  <2>3. Near(Cardinality(InUse(n, place, queueOf)), n, pushed, queues)
    <3>1. /\ \A id \in Id : place[id] = "queue" =>
               pushed[id] = "queue" /\ queues[id] = queueOf[id]
          /\ \A id \in Id : pushed[id] = "queue" /\ place[id] # "queue" =>
               queues[id] = QueueFor(delta)
      BY <1>3, <1>5, <1>7
    <3> QED
      BY <1>3, <2>1, <3>1, NearAfterMore
  <2>4. Near(Cardinality(InUse(n, pushed, queues)), n, pushed, queues)
    BY <1>3, NearItself
  <2> QED
    BY <1>8, <2>2, <2>3, <2>4 DEF Near
<1>15. Near(queuesInUse', n, place', queues)
  BY <1>3, <1>4, <1>13, <1>14, PurgeNear DEF kept
<1>16. InOwnQueue(map, place', queues)
  BY <1>10, <1>12, <1>13 DEF InOwnQueue
<1>17. EveryFrameSampledOnce'
  <2>1. \A id \in victims : pushed[id] = "queue" /\ id \in Id
    BY <1>8 DEF Content
  <2>2. \A id \in Id : place'[id] = "sent" <=> place[id] = "sent"
    BY <1>5, <1>7, <1>9, <1>10, <1>12, <2>1
  <2> QED
    BY <1>2, <1>5, <2>2, SampledUnchanged
<1>18. RecordedOnce'
  BY <1>2, <1>5 DEF RecordedOnce
<1>19. NamesKnown'
  BY <1>3, <1>5 DEF NamesKnown
<1>20. EgressTypeOK'
  <2>1. queues \in [Id -> Queue \cup {NoQueue}]
    <3>1. QueueFor(delta) \in Queue
      BY <1>1 DEF QueueFor, Module, QueueName, Name, Queue
    <3> QED
      BY <1>3, <1>6, <3>1 DEF queues
  <2>2. DOMAIN map \subseteq Delta /\ NetType(n)
        /\ \A d \in DOMAIN map : map[d] \in 1 .. Len(n.consumers)
    BY <1>3 DEF Agree
  <2>3. queuesInUse' \in Nat
    BY <1>15 DEF Near
  <2> QED
    BY <1>2, <1>5, <1>11, <2>1, <2>2, <2>3 DEF EgressTypeOK, Places
<1>21. /\ Agree(net, deltaQueueMap)' /\ InOwnQueue(deltaQueueMap, place, queueOf)'
       /\ Near(queuesInUse, net, place, queueOf)'
  BY <1>3, <1>5, <1>15, <1>16
<1> QED
  BY <1>5, <1>17, <1>18, <1>19, <1>20, <1>21 DEF StatInv

LEMMA LookForExpiredPacketsStat ==
  ASSUME StatInv, NEW expired \in SUBSET Queued(place, queueOf, net),
         LookForExpiredPackets(expired)
  PROVE  StatInv'
<1>1. /\ Agree(net, deltaQueueMap) /\ InOwnQueue(deltaQueueMap, place, queueOf)
      /\ Near(queuesInUse, net, place, queueOf) /\ EgressTypeOK
      /\ place \in [Id -> Places] /\ EveryFrameSampledOnce
  BY DEF StatInv, EgressTypeOK, Places
<1>2. /\ place' = Lost(place, expired) /\ failed' = FALSE
      /\ queuesInUse' \in CountsAfterPurge(net, place, queueOf, expired, {queuesInUse})
      /\ UNCHANGED <<deltaQueueMap, net, queueOf, txPktToPortSignals, recorders,
                     samples, txPks>>
  BY DEF LookForExpiredPackets
<1>3. Near(queuesInUse', net, place', queueOf)
  BY <1>1, <1>2, PurgeNear
<1>4. \A id \in Id : place'[id] = IF id \in expired THEN "lost" ELSE place[id]
  BY <1>2 DEF Lost
<1>5. \A id \in expired : place[id] = "queue"
  BY DEF Queued, Content
<1>6. InOwnQueue(deltaQueueMap, place', queueOf)
  BY <1>1, <1>4 DEF InOwnQueue
<1>7. EveryFrameSampledOnce'
  <2>1. \A id \in Id : place'[id] = "sent" <=> place[id] = "sent"
    BY <1>4, <1>5
  <2> QED
    BY <1>1, <1>2, <2>1, SampledUnchanged
<1>8. EgressTypeOK'
  <2>1. place' \in [Id -> Places] /\ queuesInUse' \in Nat
    BY <1>1, <1>2, <1>3, LostType DEF Near
  <2> QED
    BY <1>1, <1>2, <2>1 DEF EgressTypeOK, Places
<1>9. /\ Agree(net, deltaQueueMap)' /\ InOwnQueue(deltaQueueMap, place, queueOf)'
      /\ Near(queuesInUse, net, place, queueOf)'
  BY <1>1, <1>2, <1>3, <1>6
<1>10. NamesKnown' /\ RecordedOnce'
  BY <1>2 DEF StatInv, NamesKnown, RecordedOnce
<1> QED
  BY <1>2, <1>7, <1>8, <1>9, <1>10 DEF StatInv

(* A frame to a port is recorded once for it, the first one included.      *)
LEMMA EmitPacketSamples ==
  ASSUME StatInv, NEW packet \in Id, EmitPacket(packet)
  PROVE  /\ txPktToPortSignals' \subseteq Port
         /\ recorders' \in [Port -> Nat] /\ samples' \in [Port -> Nat]
         /\ RecordedOnce'
         /\ \A p \in Port : samples'[p] =
              samples[p] + (IF GetDestinationPort(packet) = p THEN 1 ELSE 0)
<1> DEFINE port == GetDestinationPort(packet)
<1>1. /\ txPktToPortSignals \subseteq Port /\ recorders \in [Port -> Nat]
      /\ samples \in [Port -> Nat] /\ RecordedOnce
  BY DEF StatInv, EgressTypeOK
<1>2. Header \in [Id -> HeaderType]
  BY EgressAssumption
<1>3. /\ port = -1 \/ port \in Nat
      /\ port > 0 => port \in Port
      /\ \A p \in Port : p \in Nat /\ p > 0
  BY <1>2 DEF GetDestinationPort, Port, HeaderType
<1>4. CASE port > 0
  <2>1. /\ txPktToPortSignals' = txPktToPortSignals \cup {port}
        /\ recorders' = IF port \in txPktToPortSignals THEN recorders
                        ELSE [recorders EXCEPT ![port] = @ + 1]
        /\ samples' = [samples EXCEPT ![port] = @ + recorders'[port]]
    BY <1>4 DEF EmitPacket
  <2> HIDE DEF port
  <2>2. recorders' \in [Port -> Nat] /\ RecordedOnce' /\ recorders'[port] = 1
    BY <1>1, <1>3, <1>4, <2>1 DEF RecordedOnce
  <2>3. /\ samples' \in [Port -> Nat]
        /\ \A p \in Port : samples'[p] = samples[p] + (IF port = p THEN 1 ELSE 0)
    BY <1>1, <1>3, <1>4, <2>1, <2>2
  <2> QED
    BY <1>1, <1>3, <1>4, <2>1, <2>2, <2>3 DEF port
<1>5. CASE ~(port > 0)
  <2>1. UNCHANGED <<txPktToPortSignals, recorders, samples>>
    BY <1>5 DEF EmitPacket
  <2> HIDE DEF port
  <2>2. \A p \in Port : port # p
    BY <1>3, <1>5
  <2>3. RecordedOnce'
    BY <1>1, <2>1 DEF RecordedOnce
  <2> QED
    BY <1>1, <2>1, <2>2, <2>3 DEF port
<1> QED
  BY <1>4, <1>5

LEMMA TransmitStat ==
  ASSUME StatInv, NEW i \in 1 .. Len(net.providers), Transmit(i)
  PROVE  StatInv'
<1> DEFINE queue == net.collections[i]
<1>1. /\ Agree(net, deltaQueueMap) /\ InOwnQueue(deltaQueueMap, place, queueOf)
      /\ Near(queuesInUse, net, place, queueOf) /\ EgressTypeOK
      /\ place \in [Id -> Places] /\ EveryFrameSampledOnce
  BY DEF StatInv, EgressTypeOK, Places
<1>2. Content(place, queueOf, queue) # {}
  BY <1>1 DEF Transmit, InUse, Agree
<1>3. PICK packet \in Content(place, queueOf, queue),
           signal \in {"packetPopped", "packetRemoved"} :
        /\ place' = [place EXCEPT ![packet] = "sent"]
        /\ queuesInUse' \in Counts(net, queue, signal,
                                   InUse(net, place, queueOf), InUse(net, place', queueOf))
        /\ txPks' = txPks + 1 /\ EmitPacket(packet) /\ failed' = failed
  BY <1>2 DEF Transmit
<1>4. UNCHANGED <<deltaQueueMap, net, queueOf>> /\ failed' = FALSE
  BY <1>3 DEF Transmit
<1>5. packet \in Id /\ place[packet] = "queue" /\ queueOf[packet] = queue
  BY DEF Content
<1>6. DeltaOf[packet] \in DOMAIN deltaQueueMap /\ queue = QueueFor(DeltaOf[packet])
  BY <1>1, <1>5 DEF InOwnQueue
<1> HIDE DEF queue
<1>7. /\ place' \in [Id -> Places] /\ place'[packet] = "sent"
      /\ \A id \in Id \ {packet} : place'[id] = place[id]
  BY <1>1, <1>3, <1>5 DEF Places
<1>8. Near(queuesInUse', net, place', queueOf)
  <2>1. <<queue, signal>> \in net.subscribed
    BY <1>1, <1>6 DEF Agree, QueueSignals
  <2>2. \/ queuesInUse' = Cardinality(InUse(net, place, queueOf))
        \/ queuesInUse' = Cardinality(InUse(net, place', queueOf))
    BY <1>3, <2>1 DEF Counts
  <2>3. Near(Cardinality(InUse(net, place, queueOf)), net, place', queueOf)
    <3>1. /\ \A id \in Id : place'[id] = "queue" =>
               place[id] = "queue" /\ queueOf[id] = queueOf[id]
          /\ \A id \in Id : place[id] = "queue" /\ place'[id] # "queue" =>
               queueOf[id] = QueueFor(DeltaOf[packet])
      BY <1>5, <1>6, <1>7
    <3> QED
      BY <1>1, <1>6, <3>1, NearAfterMore
  <2>4. Near(Cardinality(InUse(net, place', queueOf)), net, place', queueOf)
    BY <1>1, NearItself
  <2> QED
    BY <2>2, <2>3, <2>4
<1>9. InOwnQueue(deltaQueueMap, place', queueOf)
  BY <1>1, <1>7 DEF InOwnQueue
<1>10. /\ txPktToPortSignals' \subseteq Port
       /\ recorders' \in [Port -> Nat] /\ samples' \in [Port -> Nat] /\ RecordedOnce'
       /\ \A p \in Port : samples'[p] =
            samples[p] + (IF GetDestinationPort(packet) = p THEN 1 ELSE 0)
  BY <1>3, <1>5, EmitPacketSamples
<1>11. EveryFrameSampledOnce'
  <2> DEFINE Sent == {id \in Id : place[id] = "sent"}
             SentTo(p) == {id \in Id : place[id] = "sent" /\ GetDestinationPort(id) = p}
  <2>1. IsFiniteSet(Sent) /\ \A p : IsFiniteSet(SentTo(p))
    BY EgressAssumption, FS_Subset
  <2>2. {id \in Id : place'[id] = "sent"} = Sent \cup {packet} /\ packet \notin Sent
    BY <1>5, <1>7
  <2>3. txPks' = Cardinality({id \in Id : place'[id] = "sent"})
    <3>1. txPks = Cardinality(Sent)
      BY <1>1 DEF EveryFrameSampledOnce
    <3> HIDE DEF Sent
    <3> QED
      BY <1>3, <2>1, <2>2, <3>1, FS_AddElement
  <2>4. ASSUME NEW p \in Port
        PROVE  samples'[p] = Cardinality({id \in Id : place'[id] = "sent"
                                                       /\ GetDestinationPort(id) = p})
    <3>1. samples[p] = Cardinality(SentTo(p))
      BY <1>1 DEF EveryFrameSampledOnce
    <3>2. CASE GetDestinationPort(packet) = p
      <4>1. {id \in Id : place'[id] = "sent" /\ GetDestinationPort(id) = p}
              = SentTo(p) \cup {packet} /\ packet \notin SentTo(p)
        BY <1>5, <1>7, <3>2
      <4>2. samples'[p] = samples[p] + 1
        BY <1>10, <3>2
      <4> HIDE DEF SentTo
      <4> QED
        BY <2>1, <3>1, <4>1, <4>2, FS_AddElement
    <3>3. CASE GetDestinationPort(packet) # p
      <4>1. {id \in Id : place'[id] = "sent" /\ GetDestinationPort(id) = p} = SentTo(p)
        BY <1>5, <1>7, <3>3
      <4>2. samples'[p] = samples[p]
        BY <1>1, <1>10, <3>3 DEF EgressTypeOK
      <4> QED
        BY <3>1, <4>1, <4>2
    <3> QED
      BY <3>2, <3>3
  <2> QED
    BY <2>3, <2>4 DEF EveryFrameSampledOnce
<1>12. EgressTypeOK'
  BY <1>1, <1>3, <1>4, <1>7, <1>8, <1>10 DEF EgressTypeOK, Places, Near
<1>13. /\ Agree(net, deltaQueueMap)' /\ InOwnQueue(deltaQueueMap, place, queueOf)'
       /\ Near(queuesInUse, net, place, queueOf)'
  BY <1>1, <1>4, <1>8, <1>9
<1>14. NamesKnown'
  BY <1>4 DEF StatInv, NamesKnown
<1> QED
  BY <1>4, <1>10, <1>11, <1>12, <1>13, <1>14 DEF StatInv

(* Data that arrive change nothing at the interface.                       *)
LEMMA DataArrivedStat ==
  ASSUME StatInv, NEW packet \in DOMAIN BitLength, DataArrived(packet)
  PROVE  StatInv'
<1>1. /\ packet \in Id /\ place[packet] = "remote"
      /\ place' = [place EXCEPT ![packet] = "host"] /\ failed' = FALSE
      /\ UNCHANGED <<deltaQueueMap, net, queueOf, queuesInUse, txPktToPortSignals,
                     recorders, samples, txPks>>
  BY BitLengthAssumption DEF DataArrived
<1>2. /\ Agree(net, deltaQueueMap) /\ InOwnQueue(deltaQueueMap, place, queueOf)
      /\ Near(queuesInUse, net, place, queueOf) /\ EgressTypeOK
      /\ place \in [Id -> Places] /\ EveryFrameSampledOnce /\ NamesKnown /\ RecordedOnce
  BY DEF StatInv, EgressTypeOK, Places
<1>3. /\ place' \in [Id -> Places] /\ place'[packet] = "host"
      /\ \A id \in Id \ {packet} : place'[id] = place[id]
  BY <1>1, <1>2 DEF Places
<1>4. InUse(net, place', queueOf) = InUse(net, place, queueOf)
  <2>1. \A id \in Id : place'[id] = "queue" <=> place[id] = "queue"
    BY <1>1, <1>3
  <2> QED
    BY <2>1 DEF InUse, Content
<1>5. EveryFrameSampledOnce'
  <2>1. \A id \in Id : place'[id] = "sent" <=> place[id] = "sent"
    BY <1>1, <1>3
  <2> QED
    BY <1>1, <1>2, <2>1, SampledUnchanged
<1>6. InOwnQueue(deltaQueueMap, place', queueOf)
  BY <1>1, <1>2, <1>3 DEF InOwnQueue
<1>7. Near(queuesInUse, net, place', queueOf)
  BY <1>2, <1>4 DEF Near
<1>8. /\ Agree(net, deltaQueueMap)' /\ InOwnQueue(deltaQueueMap, place, queueOf)'
      /\ Near(queuesInUse, net, place, queueOf)'
  BY <1>1, <1>2, <1>6, <1>7
<1>9. NamesKnown' /\ RecordedOnce'
  BY <1>1, <1>2 DEF NamesKnown, RecordedOnce
<1>10. EgressTypeOK'
  BY <1>1, <1>2, <1>3 DEF EgressTypeOK, Places
<1> QED
  BY <1>1, <1>5, <1>8, <1>9, <1>10 DEF StatInv

LEMMA UnchangedStat ==
  ASSUME StatInv, UNCHANGED egressVars
  PROVE  StatInv'
<1>1. UNCHANGED <<deltaQueueMap, net, place, queueOf, queuesInUse, txPktToPortSignals,
                  recorders, samples, txPks, failed>>
  BY DEF egressVars
<1>2. EgressTypeOK' /\ NamesKnown' /\ RecordedOnce' /\ EveryFrameSampledOnce'
  BY <1>1 DEF StatInv, EgressTypeOK, NamesKnown, RecordedOnce, EveryFrameSampledOnce
<1>3. /\ Agree(net, deltaQueueMap)' /\ InOwnQueue(deltaQueueMap, place, queueOf)'
      /\ Near(queuesInUse, net, place, queueOf)'
  BY <1>1 DEF StatInv
<1> QED
  BY <1>1, <1>2, <1>3 DEF StatInv

-----------------------------------------------------------------------------
(* At first there are no queues and no statistics.                         *)
LEMMA InitStat ==
  ASSUME EgressInit(DOMAIN BitLength)
  PROVE  StatInv
<1>1. /\ DOMAIN deltaQueueMap = {} /\ net.consumers = <<>> /\ net.providers = <<>>
      /\ net.collections = <<>> /\ net.inGates = 0 /\ net.outGates = 0
  BY DEF EgressInit
<1>2. net.submodules = {Module(Name("classifier", 0), NoVector)}
                         \cup {Module(Name("scheduler", 0), NoVector)}
  BY DEF EgressInit
<1>3. NetType(net)
  <2>1. net.submodules \in SUBSET Submodule
    BY <1>2 DEF Submodule, Module, Name
  <2>2. net = [submodules |-> net.submodules,
               outGates |-> 0, consumers |-> <<>>,
               inGates |-> 0, providers |-> <<>>, collections |-> <<>>,
               subscribed |-> {}, collected |-> {}]
    BY DEF EgressInit
  <2> DEFINE modules == net.submodules
  <2> HIDE DEF modules
  <2>3. modules \in SUBSET Submodule /\
        net = [submodules |-> modules,
               outGates |-> 0, consumers |-> <<>>,
               inGates |-> 0, providers |-> <<>>, collections |-> <<>>,
               subscribed |-> {}, collected |-> {}]
    BY <2>1, <2>2 DEF modules
  <2> QED
    BY <2>3 DEF NetType
<1>4. Agree(net, deltaQueueMap)
  BY <1>1, <1>3 DEF Agree
<1>5. NamesKnown
  <2>1. IsFiniteSet(net.submodules)
    <3>1. \A x, y : IsFiniteSet({x} \cup {y})
      BY FS_Singleton, FS_Union
    <3> QED
      BY <1>2, <3>1
  <2>2. \A module \in net.submodules : module.name.kind # "queue"
    BY <1>2 DEF Module, Name
  <2> QED
    BY <2>1, <2>2 DEF NamesKnown
<1>6. \A id \in Id : place[id] \in {"remote", "host"}
  BY DEF EgressInit
<1>7. InOwnQueue(deltaQueueMap, place, queueOf)
  BY <1>6 DEF InOwnQueue
<1>8. InUse(net, place, queueOf) = {}
  BY <1>1 DEF InUse
<1>9. Near(queuesInUse, net, place, queueOf)
  <2>1. queuesInUse = 0 /\ Cardinality(InUse(net, place, queueOf)) = 0
    BY <1>8, FS_EmptySet DEF EgressInit
  <2> QED
    BY <2>1 DEF Near
<1>10. EveryFrameSampledOnce
  <2>1. {id \in Id : place[id] = "sent"} = {}
    BY <1>6
  <2>2. \A port \in Port :
          {id \in Id : place[id] = "sent" /\ GetDestinationPort(id) = port} = {}
    BY <1>6
  <2>3. txPks = 0 /\ \A port \in Port : samples[port] = 0
    BY DEF EgressInit
  <2> QED
    BY <2>1, <2>2, <2>3, FS_EmptySet DEF EveryFrameSampledOnce
<1>11. RecordedOnce
  BY DEF RecordedOnce, EgressInit
<1>12. EgressTypeOK
  <2>1. place \in [Id -> {"remote", "host", "queue", "lost", "sent"}]
    BY DEF EgressInit
  <2>2. /\ queueOf \in [Id -> Queue \cup {NoQueue}] /\ queuesInUse \in Nat
        /\ txPktToPortSignals \subseteq Port
        /\ recorders \in [Port -> Nat] /\ samples \in [Port -> Nat]
        /\ txPks \in Nat /\ failed \in BOOLEAN
    BY DEF EgressInit
  <2> QED
    BY <1>1, <1>3, <2>1, <2>2 DEF EgressTypeOK
<1> QED
  BY <1>4, <1>5, <1>7, <1>9, <1>10, <1>11, <1>12 DEF StatInv, EgressInit

(* The invariant of the interface holds in every state.                    *)
THEOREM StatInvariant == Spec => []StatInv
<1>1. Init => StatInv
  BY InitStat DEF Init
<1>2. ASSUME StatInv, [Next]_vars PROVE StatInv'
  <2>1. ASSUME NEW packet \in DOMAIN BitLength, DataArrived(packet) PROVE StatInv'
    BY <1>2, <2>1, DataArrivedStat
  <2>2. ASSUME NEW packet \in Id, HandleMessage(packet) PROVE StatInv'
    BY <1>2, <2>2, HandleMessageStat
  <2>3. ASSUME NEW expired \in SUBSET Queued(place, queueOf, net),
               LookForExpiredPackets(expired)
        PROVE  StatInv'
    BY <1>2, <2>3, LookForExpiredPacketsStat
  <2>4. ASSUME NEW i \in 1 .. Len(net.providers), Transmit(i) PROVE StatInv'
    BY <1>2, <2>4, TransmitStat
  <2>5. CASE CaptureMessage
    BY <1>2, <2>5, UnchangedStat DEF CaptureMessage
  <2>6. CASE Tick
    BY <1>2, <2>6, UnchangedStat DEF Tick
  <2>7. CASE UNCHANGED vars
    BY <1>2, <2>7, UnchangedStat DEF vars
  <2> QED
    BY <1>2, <2>1, <2>2, <2>3, <2>4, <2>5, <2>6, <2>7 DEF Next
<1> QED
  BY <1>1, <1>2, PTL DEF Spec

(***************************************************************************)
(* Index for index, classifier and scheduler mean the same queue, whatever *)
(* the classes and the order in which their first packets come; and        *)
(* createDBFQueue never throws.                                            *)
(***************************************************************************)
THEOREM QueuesAgree == Spec => []SameQueueEverywhere
<1>1. ASSUME StatInv PROVE SameQueueEverywhere
  <2>1. /\ Agree(net, deltaQueueMap) /\ InOwnQueue(deltaQueueMap, place, queueOf)
        /\ ~failed
    BY <1>1 DEF StatInv
  <2> QED
    BY <2>1 DEF SameQueueEverywhere, Agree, InOwnQueue, QueueFor
<1> QED
  BY <1>1, StatInvariant, PTL

(* queuesInUseCount is at most one off, however many packets expire.       *)
THEOREM CountNearTruth == Spec => []QueuesInUseOffByOne
<1>1. ASSUME StatInv PROVE QueuesInUseOffByOne
  BY <1>1 DEF StatInv, Near, QueuesInUseOffByOne
<1> QED
  BY <1>1, StatInvariant, PTL

(* Every frame is recorded once for the interface and once for its port.   *)
THEOREM FramesRecorded == Spec => []EveryFrameSampledOnce
<1>1. StatInv => EveryFrameSampledOnce
  BY DEF StatInv
<1> QED
  BY <1>1, StatInvariant, PTL

-----------------------------------------------------------------------------
EchoInv == EchoTypeOK /\ BitsConserved

LEMMA NaturalCaptures == CapturesPerSecond \in Nat
  BY CaptureAssumption, NaturalQuotient DEF CapturesPerSecond

(* Captures move bits from the counter to the records, data add to both.   *)
THEOREM EchoInvariant == Spec => []EchoInv
<1> DEFINE rate == CapturesPerSecond
<1>1. rate \in Nat
  BY NaturalCaptures
<1>2. Init => EchoInv
  <2> HIDE DEF rate
  <2>1. 0 + 0 * rate = 0 * rate
    BY <1>1
  <2> QED
    BY <2>1, CaptureAssumption
    DEF Init, EchoInit, EchoInv, EchoTypeOK, BitsConserved, rate
<1>3. ASSUME EchoInv, [Next]_vars PROVE EchoInv'
  <2>1. CASE UNCHANGED echoVars
    BY <1>3, <2>1 DEF echoVars, EchoInv, EchoTypeOK, BitsConserved, CapturesPerSecond
  <2>2. CASE Capture
    <3>1. /\ rxBitsRate' = rxBitsRate + bitsRcvdRate * rate /\ bitsRcvdRate' = 0
          /\ untilCapture' = CaptureRate /\ bitsArrived' = bitsArrived
      BY <2>2 DEF Capture
    <3>2. /\ bitsRcvdRate \in Nat /\ rxBitsRate \in Nat /\ bitsArrived \in Nat
          /\ rxBitsRate + bitsRcvdRate * rate = bitsArrived * rate
      BY <1>3 DEF EchoInv, EchoTypeOK, BitsConserved
    <3> HIDE DEF rate
    <3>3. bitsRcvdRate * rate \in Nat /\ 0 * rate = 0
      BY <1>1, <3>2
    <3>4. /\ rxBitsRate' \in Nat
          /\ rxBitsRate' + bitsRcvdRate' * rate = bitsArrived' * rate
      BY <3>1, <3>2, <3>3
    <3>5. untilCapture' \in 0 .. CaptureRate
      BY <3>1, CaptureAssumption
    <3> QED
      BY <3>1, <3>2, <3>4, <3>5 DEF EchoInv, EchoTypeOK, BitsConserved, rate,
         CapturesPerSecond
  <2>3. ASSUME NEW bits \in Nat, CaptureBytesAtRate(bits) PROVE EchoInv'
    <3>1. /\ bitsRcvdRate' = bitsRcvdRate + bits /\ bitsArrived' = bitsArrived + bits
          /\ UNCHANGED <<untilCapture, rxBitsRate>>
      BY <2>3 DEF CaptureBytesAtRate
    <3>2. /\ bitsRcvdRate \in Nat /\ rxBitsRate \in Nat /\ bitsArrived \in Nat
          /\ untilCapture \in 0 .. CaptureRate
          /\ rxBitsRate + bitsRcvdRate * rate = bitsArrived * rate
      BY <1>3 DEF EchoInv, EchoTypeOK, BitsConserved
    <3> HIDE DEF rate
    <3>3. /\ (bitsRcvdRate + bits) * rate = bitsRcvdRate * rate + bits * rate
          /\ (bitsArrived + bits) * rate = bitsArrived * rate + bits * rate
          /\ bitsRcvdRate * rate \in Nat /\ bitsArrived * rate \in Nat
          /\ bits * rate \in Nat
      BY <1>1, <3>2
    <3>4. rxBitsRate' + bitsRcvdRate' * rate = bitsArrived' * rate
      BY <3>1, <3>2, <3>3
    <3>5. /\ bitsRcvdRate' \in Nat /\ bitsArrived' \in Nat /\ rxBitsRate' \in Nat
          /\ untilCapture' \in 0 .. CaptureRate
      BY <3>1, <3>2
    <3> QED
      BY <3>4, <3>5 DEF EchoInv, EchoTypeOK, BitsConserved, rate, CapturesPerSecond
  <2>4. CASE EchoTick
    <3>1. untilCapture' \in 0 .. CaptureRate
      BY <1>3, <2>4, CaptureAssumption DEF EchoTick, EchoInv, EchoTypeOK
    <3> QED
      BY <1>3, <2>4, <3>1
      DEF EchoTick, EchoInv, EchoTypeOK, BitsConserved, CapturesPerSecond
  <2>5. ASSUME NEW packet \in DOMAIN BitLength, DataArrived(packet) PROVE EchoInv'
    BY <2>3, <2>5, BitLengthAssumption DEF DataArrived
  <2>6. Next => \/ UNCHANGED echoVars \/ Capture \/ EchoTick
                \/ \E packet \in DOMAIN BitLength : DataArrived(packet)
    BY DEF Next, CaptureMessage, Tick
  <2> QED
    BY <1>3, <2>1, <2>2, <2>4, <2>5, <2>6 DEF vars
<1> QED
  BY <1>2, <1>3, PTL DEF Spec

(* Every bit is in exactly one record, whatever the order of data and      *)
(* captures, for every capture rate up to a second.                        *)
THEOREM BitsAccounted == Spec => []BitsConserved
<1>1. EchoInv => BitsConserved
  BY DEF EchoInv
<1> QED
  BY <1>1, EchoInvariant, PTL

(* Type correctness, for any packets, classes and capture rate.            *)
THEOREM TypeCorrect == Spec => []TypeOK
<1>1. StatInv /\ EchoInv => TypeOK
  BY DEF StatInv, EchoInv, TypeOK
<1> QED
  BY <1>1, StatInvariant, EchoInvariant, PTL
=============================================================================
