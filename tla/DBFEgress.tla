----------------------------- MODULE DBFEgress -----------------------------
(***************************************************************************)
(* The structure behind an egress interface, and what it records: queues   *)
(* are modules created at run time, which classifier and scheduler connect *)
(* to and keep in lists of their own; the scheduler hears the queues'      *)
(* signals and records how many of them hold packets; the EgressForwarder  *)
(* records every frame under its destination port.  When packets expire    *)
(* and which one is sent next (DBFPriorityScheduler) is left open here.    *)
(*                                                                         *)
(* Indices start at 1, in the code at 0.                                   *)
(***************************************************************************)
EXTENDS DynamicModuleHandling, Sequences

CONSTANTS
  Id,             (* Identities of packets.                                *)
  Delta,          (* The deltas (classes) of packets.                      *)
  DeltaOf,        (* The delta classifyPacket finds for a packet.          *)
  Header,         (* The parts of a packet's headers that are looked at.   *)
  PacketCapacity  (* packetCapacity of a queue; -1: unlimited.             *)

HeaderType ==
  [ethertype : {"ipv4", "other"}, protocolId : {"udp", "tcp", "other"},
   destinationPort : Nat]

ASSUME EgressAssumption ==
  /\ IsFiniteSet(Id)
  /\ DeltaOf \in [Id -> Delta]
  /\ Header \in [Id -> HeaderType]
  /\ PacketCapacity \in Int
  /\ PacketCapacity = -1 \/ PacketCapacity >= 1

(* The type createDBFQueue names is part of this project. *)
ASSUME TypesAssumption == "DBFPacketQueue" \in ModuleTypes

VARIABLES
  deltaQueueMap,      (* The index of the queue of each class seen so far. *)
  net,                (* The submodules and how they are connected.        *)
  place,              (* Where each packet is.                             *)
  queueOf,            (* The queue it is in, or was last.                  *)
  queuesInUse,        (* The value of queuesInUseCount emitted last.       *)
  txPktToPortSignals, (* The ports that have a signal of their own.        *)
  recorders,          (* The recorders added for the signal of each port.  *)
  samples,            (* The values recorded for each port.                *)
  txPks,              (* The values recorded for all packets.              *)
  failed              (* A cRuntimeError ended the simulation.             *)

egressVars == <<deltaQueueMap, net, place, queueOf, queuesInUse,
                txPktToPortSignals, recorders, samples, txPks, failed>>

(* Names of submodules; a queue is named after its delta. *)
Name(kind, delta) == [kind |-> kind, delta |-> delta]

QueueName(delta) == Name("queue", delta)

Queue == [name : [kind : {"queue"}, delta : Delta], index : Nat]

NoQueue == Module(Name("none", 0), NoVector)

QueueSignals == {"packetPushed", "packetPopped", "packetRemoved"}

Port == {Header[id].destinationPort : id \in Id} \ {0}

Submodule ==
  [name : [kind : {"classifier", "scheduler", "queue"}, delta : Delta \cup {0}],
   index : Nat \cup {NoVector}]

NetType(n) ==
  /\ n \in [submodules : SUBSET Submodule, outGates : Nat, consumers : Seq(Queue),
             inGates : Nat, providers : Seq(Queue), collections : Seq(Queue),
             subscribed : SUBSET (Queue \X QueueSignals), collected : SUBSET Queue]
  /\ n.outGates = Len(n.consumers) /\ n.inGates = Len(n.providers)

EgressTypeOK ==
  /\ DOMAIN deltaQueueMap \subseteq Delta
  /\ \A delta \in DOMAIN deltaQueueMap :
       deltaQueueMap[delta] \in 1 .. Len(net.consumers)
  /\ NetType(net)
  /\ place \in [Id -> {"remote", "host", "queue", "lost", "sent"}]
  /\ queueOf \in [Id -> Queue \cup {NoQueue}]
  /\ queuesInUse \in Nat
  /\ txPktToPortSignals \subseteq Port
  /\ recorders \in [Port -> Nat]
  /\ samples \in [Port -> Nat]
  /\ txPks \in Nat
  /\ failed \in BOOLEAN

(* Packets in Remote do not exist yet, the others wait in this host. *)
EgressInit(Remote) ==
  /\ deltaQueueMap = <<>>
  /\ net = [submodules |-> {Module(Name("classifier", 0), NoVector),
                            Module(Name("scheduler", 0), NoVector)},
            outGates |-> 0, consumers |-> <<>>,
            inGates |-> 0, providers |-> <<>>, collections |-> <<>>,
            subscribed |-> {}, collected |-> {}]
  /\ place = [id \in Id |-> IF id \in Remote THEN "remote" ELSE "host"]
  /\ queueOf = [id \in Id |-> NoQueue]
  /\ queuesInUse = 0
  /\ txPktToPortSignals = {}
  /\ recorders = [port \in Port |-> 0]
  /\ samples = [port \in Port |-> 0]
  /\ txPks = 0
  /\ failed = FALSE

-----------------------------------------------------------------------------
(* createDBFQueue: the gate of the classifier and its list of consumers. *)
ConnectOutGate(n, queue) ==
  [n EXCEPT !.outGates = @ + 1, !.consumers = Append(@, queue)]

(* The operators named Wrong... are plausible bugs of what follows them.   *)
WrongNotSubscribed(n, queue) ==
  [n EXCEPT !.subscribed = @ \cup ({queue} \X (QueueSignals \ {"packetRemoved"})),
            !.inGates = @ + 1,
            !.providers = Append(@, queue), !.collections = Append(@, queue)]

(* The scheduler's addDBFQueue: its subscriptions, gate and two lists. *)
AddDBFQueue(n, queue) ==
  [n EXCEPT !.subscribed = @ \cup ({queue} \X QueueSignals),
            !.inGates = @ + 1,
            !.providers = Append(@, queue), !.collections = Append(@, queue)]

(***************************************************************************)
(* finalizeModuleAndSchedule: a PacketQueue looks for the collector it     *)
(* will inform of packets at the other end of its gate when initialized.   *)
(***************************************************************************)
FinalizeModuleAndSchedule(n, queue) ==
  IF \E i \in 1 .. Len(n.providers) : n.providers[i] = queue
  THEN [n EXCEPT !.collected = @ \cup {queue}] ELSE n

WithSubmodule(n, queue) == [n EXCEPT !.submodules = @ \cup {queue}]

(* The queue is initialized when it is created, as of any other module. *)
WrongFinalizedFirst(n, queue) ==
  AddDBFQueue(ConnectOutGate(FinalizeModuleAndSchedule(WithSubmodule(n, queue), queue),
                             queue), queue)

(* The order of createDBFQueue. *)
Connected(n, queue) ==
  FinalizeModuleAndSchedule(
    AddDBFQueue(ConnectOutGate(WithSubmodule(n, queue), queue), queue), queue)

CreateDBFQueue(delta) ==
  Connected(net, CreateDynamicModule(QueueName(delta), net.submodules, TRUE))

(* What createDBFQueue and createDynamicModule throw. *)
CreateDBFQueueThrows(delta) ==
  \/ CreationFails("DBFPacketQueue", QueueName(delta), net.submodules, TRUE)
  \/ CreateDBFQueue(delta).outGates # CreateDBFQueue(delta).inGates

(* getIndexOfQueueForDelta: the queue is looked up, or created and entered. *)
IsNew(delta) == delta \notin DOMAIN deltaQueueMap

NetFor(delta) == IF IsNew(delta) THEN CreateDBFQueue(delta) ELSE net

GetIndexOfQueueForDelta(delta) ==
  IF IsNew(delta) THEN CreateDBFQueue(delta).outGates ELSE deltaQueueMap[delta]

WithIndex(delta) ==
  [d \in DOMAIN deltaQueueMap \cup {delta} |->
     IF d = delta THEN GetIndexOfQueueForDelta(delta) ELSE deltaQueueMap[d]]

-----------------------------------------------------------------------------
Content(places, queues, queue) ==
  {id \in Id : places[id] = "queue" /\ queues[id] = queue}

InUse(n, places, queues) ==
  {i \in 1 .. Len(n.collections) : Content(places, queues, n.collections[i]) # {}}

(***************************************************************************)
(* receiveSignal for the signals of a queue: the queues in use are counted *)
(* while the queue changes; whether a PacketQueue emits the signal before  *)
(* or after it changes its list is up to INET.                             *)
(***************************************************************************)
Counts(n, queue, signal, before, after) ==
  IF <<queue, signal>> \in n.subscribed
  THEN {Cardinality(before), Cardinality(after)} ELSE {queuesInUse}

(***************************************************************************)
(* lookForExpiredPackets removes packets queue by queue, each with its     *)
(* signal; the last one decides which count is the last.                   *)
(***************************************************************************)
Lost(places, ids) == [id \in Id |-> IF id \in ids THEN "lost" ELSE places[id]]

LastPurged(n, places, queues, expired) ==
  CHOOSE queue \in {queues[id] : id \in expired} :
    \E i \in 1 .. Len(n.collections) :
      /\ n.collections[i] = queue
      /\ \A k \in i + 1 .. Len(n.collections) :
           Content(places, queues, n.collections[k]) \cap expired = {}

CountsAfterPurge(n, places, queues, expired, counts) ==
  IF expired = {} THEN counts
  ELSE LET queue == LastPurged(n, places, queues, expired)
           after == Lost(places, expired)
       IN  IF <<queue, "packetRemoved">> \notin n.subscribed THEN counts
           ELSE UNION {{Cardinality(InUse(n, Lost(places, expired \ {id}), queues)),
                        Cardinality(InUse(n, after, queues))} :
                       id \in {e \in expired : queues[e] = queue}}

(* What a queue that takes the packet may drop. *)
Victims(places, queues, queue) ==
  LET content == Content(places, queues, queue)
  IN  IF PacketCapacity # -1 /\ Cardinality(content) > PacketCapacity
      THEN {{id} : id \in content} ELSE {{}}

Queued(places, queues, n) ==
  UNION {Content(places, queues, n.collections[i]) : i \in 1 .. Len(n.collections)}

(***************************************************************************)
(* The packet reaches the classifier, which creates its queue if need be   *)
(* and pushes it; the queue drops one if it is full, and tells its         *)
(* collector, if it has found one, which removes the expired packets.      *)
(***************************************************************************)
HandleMessage(packet) ==
  LET delta == DeltaOf[packet]
      n == NetFor(delta)
      queue == n.consumers[GetIndexOfQueueForDelta(delta)]
      queues == [queueOf EXCEPT ![packet] = queue]
      pushed == [place EXCEPT ![packet] = "queue"]
  IN  /\ ~failed
      /\ place[packet] = "host"
      /\ failed' = (IsNew(delta) /\ CreateDBFQueueThrows(delta))
      /\ IF IsNew(delta) /\ CreateDBFQueueThrows(delta)
         THEN UNCHANGED <<deltaQueueMap, net, place, queueOf, queuesInUse>>
         ELSE /\ deltaQueueMap' = WithIndex(delta)
              /\ net' = n
              /\ queueOf' = queues
              /\ \E victims \in Victims(pushed, queues, queue) :
                 \E expired \in SUBSET Queued(Lost(pushed, victims), queues, n) :
                   /\ expired # {} => queue \in n.collected
                   /\ place' = Lost(Lost(pushed, victims), expired)
                   /\ queuesInUse' \in
                        CountsAfterPurge(n, Lost(pushed, victims), queues, expired,
                          Counts(n, queue, "packetPushed", InUse(n, place, queueOf),
                                 InUse(n, pushed, queues)))
      /\ UNCHANGED <<txPktToPortSignals, recorders, samples, txPks>>

(* The MAC is idle: the scheduler removes the expired packets. *)
LookForExpiredPackets(expired) ==
  /\ ~failed
  /\ place' = Lost(place, expired)
  /\ queuesInUse' \in CountsAfterPurge(net, place, queueOf, expired, {queuesInUse})
  /\ UNCHANGED <<deltaQueueMap, net, queueOf, txPktToPortSignals, recorders, samples,
                 txPks, failed>>

-----------------------------------------------------------------------------
(* containsIpv4Header. *)
ContainsIpv4Header(packet) == Header[packet].ethertype = "ipv4"

GetDestinationPort(packet) ==
  IF ContainsIpv4Header(packet) /\ Header[packet].protocolId \in {"udp", "tcp"}
  THEN Header[packet].destinationPort ELSE -1

(* The port's signal is not entered in the map. *)
WrongNotEntered(packet) ==
  LET port == GetDestinationPort(packet)
  IN  IF port > 0
      THEN /\ UNCHANGED txPktToPortSignals
           /\ recorders' = [recorders EXCEPT ![port] = @ + 1]
           /\ samples' = [samples EXCEPT ![port] = @ + recorders'[port]]
      ELSE UNCHANGED <<txPktToPortSignals, recorders, samples>>

(***************************************************************************)
(* emitPacket: the first frame to a port registers a signal and adds its   *)
(* recorders; every recorder of a signal records every value emitted.      *)
(***************************************************************************)
EmitPacket(packet) ==
  LET port == GetDestinationPort(packet)
  IN  IF port > 0
      THEN /\ txPktToPortSignals' = txPktToPortSignals \cup {port}
           /\ recorders' = IF port \in txPktToPortSignals THEN recorders
                           ELSE [recorders EXCEPT ![port] = @ + 1]
           /\ samples' = [samples EXCEPT ![port] = @ + recorders'[port]]
      ELSE UNCHANGED <<txPktToPortSignals, recorders, samples>>

(***************************************************************************)
(* The scheduler finds that a provider has a packet, takes one from the    *)
(* collection with the same index when its message arrives (the priority   *)
(* scheduler pops it, the dynamic one removes it), and the EgressForwarder *)
(* passes it on.                                                           *)
(***************************************************************************)
Transmit(i) ==
  LET content == Content(place, queueOf, net.collections[i])
  IN  /\ ~failed
      /\ Content(place, queueOf, net.providers[i]) # {}
      /\ IF content = {}
         THEN failed' = TRUE /\ UNCHANGED <<place, queuesInUse, txPktToPortSignals,
                                            recorders, samples, txPks>>
         ELSE \E packet \in content, signal \in {"packetPopped", "packetRemoved"} :
                /\ place' = [place EXCEPT ![packet] = "sent"]
                /\ queuesInUse' \in
                     Counts(net, net.collections[i], signal,
                            InUse(net, place, queueOf), InUse(net, place', queueOf))
                /\ txPks' = txPks + 1
                /\ EmitPacket(packet)
                /\ UNCHANGED failed
      /\ UNCHANGED <<deltaQueueMap, net, queueOf>>

-----------------------------------------------------------------------------
(***************************************************************************)
(* Classifier and scheduler mean the same queue by an index: the one named *)
(* after the class, the only one of its name, which informs the scheduler  *)
(* of its packets.  createDBFQueue throws otherwise, or, if a queue was    *)
(* initialized too early, its packets would wait unnoticed.                *)
(***************************************************************************)
SameQueueEverywhere ==
  /\ ~failed
  /\ \A delta \in DOMAIN deltaQueueMap :
       LET queue == Module(QueueName(delta), 0)
       IN  /\ net.consumers[deltaQueueMap[delta]] = queue
           /\ net.collections[deltaQueueMap[delta]] = queue
           /\ net.providers[deltaQueueMap[delta]] = queue
           /\ queue \in net.collected
  /\ \A id \in Id : place[id] = "queue" =>
       /\ DeltaOf[id] \in DOMAIN deltaQueueMap
       /\ queueOf[id] = Module(QueueName(DeltaOf[id]), 0)

(***************************************************************************)
(* The statistic queuesInUseCount is at most one off the truth, however    *)
(* many queues a purge has emptied at once; no drop goes unnoticed.        *)
(***************************************************************************)
QueuesInUseOffByOne ==
  LET used == Cardinality(InUse(net, place, queueOf))
  IN  queuesInUse - used \in -1 .. 1

(* Every frame was recorded once, and once more under its port, if any. *)
EveryFrameSampledOnce ==
  /\ txPks = Cardinality({id \in Id : place[id] = "sent"})
  /\ \A port \in Port :
       samples[port] = Cardinality({id \in Id : /\ place[id] = "sent"
                                                /\ GetDestinationPort(id) = port})
=============================================================================
