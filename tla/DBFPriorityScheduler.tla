------------------------ MODULE DBFPriorityScheduler ------------------------
(***************************************************************************)
(* The queueing part of an egress interface with the DBFPriorityScheduler: *)
(* packets arrive in the queue of their class, the scheduler arms one self *)
(* message for the packet it means to send, and the full-duplex Ethernet   *)
(* MAC reports when it is idle again.                                      *)
(*                                                                         *)
(* Every handler of the simulation runs to completion, so an action is a   *)
(* whole handler with all the calls it makes: a push runs the classifier's *)
(* call of pushPacket, the drop on overflow, handleCanPopPacket, the purge *)
(* and schedule() in one step.  Events due at the same time may run in any *)
(* order; time passes only when none is due.                               *)
(***************************************************************************)
EXTENDS DBFQueueOps

CONSTANTS
  MaxTime,    (* Bound: the last simulation time that is explored.         *)
  MaxArrival, (* Bound: the last time at which packets arrive.             *)
  MaxLag      (* How long after tRcv a packet may reach its queue: 0 if    *)
              (* the network layer forwards at once, more if it holds the  *)
              (* packet back for an ARP reply.                             *)

ASSUME TimeAssumption ==
  MaxTime \in Nat /\ MaxArrival \in Nat /\ MaxLag \in Nat

VARIABLES
  now,           (* The simulation time.                                   *)
  collections,   (* The queue of each class; a queue that was not created  *)
                 (* yet is an empty one.                                   *)
  txIdleCounter, (* 1 while the MAC is known to be idle.                   *)
  selfMsg,       (* The message the scheduler armed for itself.            *)
  mac,           (* "starting", "idle" or "transmitting".                  *)
  onWire,        (* The frame the MAC transmits, at most one.              *)
  fate,          (* What became of each packet.                            *)
  fault          (* The error that ended the simulation, or "none".        *)

vars == <<now, collections, txIdleCounter, selfMsg, mac, onWire, fate, fault>>

(***************************************************************************)
(* selfMsg: nullptr, a message in the future event set, or a pointer left  *)
(* behind after cancelAndDelete.                                           *)
(***************************************************************************)
NoMsg == [state |-> "none"]

Msg == [state : {"scheduled", "deleted"}, collectionIdx : Delta, at : Nat]

(* A frame handed to the MAC: the packet, and what its eDelay option grew by. *)
Frame == [packet : Packet, delay : Int]

Fates == {"new", "queued", "sent", "expired", "overflow"}

Faults == {"none", "deletedSelfMsg", "emptyQueue", "txIdleCounter"}

TypeOK ==
  /\ now \in Nat
  /\ collections \in [Delta -> Seq(Packet)]
  /\ txIdleCounter \in 0 .. 2
  /\ selfMsg \in Msg \cup {NoMsg}
  /\ mac \in {"starting", "idle", "transmitting"}
  /\ onWire \subseteq Frame
  /\ fate \in [Id -> Fates]
  /\ fault \in Faults

Init ==
  /\ now = 0
  /\ collections = [delta \in Delta |-> <<>>]
  /\ txIdleCounter = 0
  /\ selfMsg = NoMsg
  /\ mac = "starting"
  /\ onWire = {}
  /\ fate = [id \in Id |-> "new"]
  /\ fault = "none"

-----------------------------------------------------------------------------
(* canPopSomePacket: the classes with a packet, and with a ready front. *)
Backlogged(queues) == {delta \in Delta : queues[delta] # <<>>}

ReadyToSend(queues) ==
  {delta \in Backlogged(queues) : IsPacketReadyToSend(Head(queues[delta]), now)}

(***************************************************************************)
(* The operators named Wrong... are plausible bugs of a definition that    *)
(* follows them; PROJECT.json names the property that notices each.        *)
(***************************************************************************)
WrongLastReady(queues) ==
  IF ReadyToSend(queues) # {} THEN Max(ReadyToSend(queues))
                              ELSE Max(Backlogged(queues))

(***************************************************************************)
(* The loop walks up the deltas and remembers the last class with a packet *)
(* until it meets one whose front is ready.  If none is ready, that is the *)
(* class of LOWEST priority.                                               *)
(***************************************************************************)
DetermineCollection(queues) ==
  IF ReadyToSend(queues) # {} THEN Min(ReadyToSend(queues))
                              ELSE Max(Backlogged(queues))

WrongNoWaiting(packet) == now

WrongInThePast(packet) == IF IsDBFPacket(packet) THEN TMin(packet) ELSE now

ScheduleTime(packet) ==
  IF IsDBFPacket(packet) /\ TMin(packet) >= now THEN TMin(packet) ELSE now

(* The message schedule() arms when some class has a packet. *)
NewMsg(queues) ==
  LET delta == DetermineCollection(queues)
  IN  [state |-> "scheduled", collectionIdx |-> delta,
       at |-> ScheduleTime(Head(queues[delta]))]

(***************************************************************************)
(* lookForExpiredPackets: every expired packet is removed; if it stood in  *)
(* front of the class the message was armed for, the message is cancelled  *)
(* and deleted, but the pointer to it is kept.                             *)
(***************************************************************************)
WrongFirstOnly(queues) ==
  [delta \in Delta |-> IF delta = Min(Delta) THEN Purge(queues[delta], now)
                                            ELSE queues[delta]]

PurgeAll(queues) == [delta \in Delta |-> Purge(queues[delta], now)]

ExpiredIds(queues) ==
  {id \in Id : \E delta \in Delta : \E i \in 1 .. Len(queues[delta]) :
     queues[delta][i].id = id /\ IsExpired(queues[delta][i], now)}

AfterPurge(queues) ==
  IF /\ selfMsg.state = "scheduled"
     /\ queues[selfMsg.collectionIdx] # <<>>
     /\ IsExpired(Head(queues[selfMsg.collectionIdx]), now)
  THEN [selfMsg EXCEPT !.state = "deleted"]
  ELSE selfMsg

(***************************************************************************)
(* The deleted message is used again when schedule() wants to cancel it,   *)
(* or when the purge compares another expired packet with the front of its *)
(* class.  Whether a second expired packet of the same purge comes after   *)
(* the deletion depends on the order in which queues were created, which   *)
(* only DBFPriorityQueue knows: here both may happen.                      *)
(***************************************************************************)
DeletedMsgUsed(queues, idle) ==
  /\ AfterPurge(queues).state = "deleted"
  /\ \/ selfMsg.state = "deleted" /\ ExpiredIds(queues) # {}
     \/ idle /\ Backlogged(PurgeAll(queues)) # {}

DispatchFaults(queues, idle) ==
  IF DeletedMsgUsed(queues, idle) THEN {"deletedSelfMsg"}
  ELSE IF AfterPurge(queues).state = "deleted" /\ Cardinality(ExpiredIds(queues)) > 1
       THEN {"deletedSelfMsg", "none"}
       ELSE {"none"}

(***************************************************************************)
(* lookForExpiredPackets followed, if the MAC is idle, by schedule(), on   *)
(* queues whose packets have met the fates.                                *)
(***************************************************************************)
WrongNoReschedule(queues, fates, idle) ==
  /\ collections' = PurgeAll(queues)
  /\ fate' = [id \in Id |->
                IF id \in ExpiredIds(queues) THEN "expired" ELSE fates[id]]
  /\ fault' = "none"
  /\ selfMsg' = AfterPurge(queues)

Dispatch(queues, fates, idle) ==
  /\ collections' = PurgeAll(queues)
  /\ fate' = [id \in Id |->
                IF id \in ExpiredIds(queues) THEN "expired" ELSE fates[id]]
  /\ fault' \in DispatchFaults(queues, idle)
  /\ selfMsg' = IF idle /\ Backlogged(PurgeAll(queues)) # {}
                THEN NewMsg(PurgeAll(queues))
                ELSE AfterPurge(queues)

-----------------------------------------------------------------------------
(***************************************************************************)
(* A packet reaches the classifier, which pushes it in the queue of its    *)
(* class; the queue tells the scheduler (handleCanPopPacket).              *)
(***************************************************************************)
Pushed(packet) ==
  [collections EXCEPT ![packet.slo.delta] = PushPacket(@, packet, now)]

Overflow(packet) ==
  {id \in Id :
     /\ \E other \in ToSet(collections[packet.slo.delta]) \cup {packet} : other.id = id
     /\ \A other \in ToSet(Pushed(packet)[packet.slo.delta]) : other.id # id}

HandleMessage(id, slo, lag) ==
  LET packet == [id |-> id, slo |-> slo, tRcv |-> now - lag]
      fates == [fate EXCEPT ![id] = "queued"]
  IN  /\ fault = "none"
      /\ now <= MaxArrival /\ lag <= now
      /\ fate[id] = "new"
      /\ Dispatch(Pushed(packet),
                  [i \in Id |-> IF i \in Overflow(packet) THEN "overflow" ELSE fates[i]],
                  txIdleCounter = 1)
      /\ UNCHANGED <<now, txIdleCounter, mac, onWire>>

(***************************************************************************)
(* The self message arrives: the front of its class is popped, its eDelay  *)
(* option grows by the time spent on this node, and it is sent to the MAC. *)
(***************************************************************************)
SendFault ==
  IF collections[selfMsg.collectionIdx] = <<>> THEN "emptyQueue"
  ELSE IF txIdleCounter # 1 THEN "txIdleCounter" ELSE "none"

FrameOf(packet) ==
  [packet |-> packet, delay |-> IF IsDBFPacket(packet) THEN now - packet.tRcv ELSE 0]

HandleSelfMsg ==
  /\ fault = "none"
  /\ selfMsg.state = "scheduled" /\ selfMsg.at = now
  /\ selfMsg' = NoMsg
  /\ fault' = SendFault
  /\ IF SendFault # "none"
     THEN UNCHANGED <<collections, txIdleCounter, mac, onWire, fate>>
     ELSE LET packet == Head(collections[selfMsg.collectionIdx])
          IN  /\ collections' = [collections EXCEPT ![selfMsg.collectionIdx] = Tail(@)]
              /\ txIdleCounter' = txIdleCounter - 1
              /\ mac' = "transmitting"
              /\ onWire' = {FrameOf(packet)}
              /\ fate' = [fate EXCEPT ![packet.id] = "sent"]
  /\ UNCHANGED now

(***************************************************************************)
(* The MAC (external) comes up, or finishes a frame after any time, and    *)
(* emits transmissionStateChanged(TX_IDLE_STATE).                          *)
(***************************************************************************)
WrongKeepsExpired ==
  /\ fault = "none"
  /\ mac # "idle"
  /\ mac' = "idle"
  /\ onWire' = {}
  /\ txIdleCounter' = txIdleCounter + 1
  /\ selfMsg' = IF Backlogged(collections) # {} THEN NewMsg(collections) ELSE selfMsg
  /\ UNCHANGED <<now, collections, fate, fault>>

ReceiveSignal ==
  /\ fault = "none"
  /\ mac # "idle"
  /\ mac' = "idle"
  /\ onWire' = {}
  /\ txIdleCounter' = txIdleCounter + 1
  /\ IF txIdleCounter = 0
     THEN Dispatch(collections, fate, TRUE)
     ELSE fault' = "txIdleCounter" /\ UNCHANGED <<collections, selfMsg, fate>>
  /\ UNCHANGED now

(* Time passes when no event is due: OMNeT++ runs events in time order. *)
MessageDue == selfMsg.state = "scheduled" /\ selfMsg.at <= now

Tick ==
  /\ fault = "none"
  /\ mac # "starting"
  /\ ~MessageDue
  /\ now < MaxTime
  /\ now' = now + 1
  /\ UNCHANGED <<collections, txIdleCounter, selfMsg, mac, onWire, fate, fault>>

Next ==
  \/ \E id \in Id, slo \in Profile, lag \in 0 .. MaxLag : HandleMessage(id, slo, lag)
  \/ HandleSelfMsg
  \/ ReceiveSignal
  \/ Tick

Spec == Init /\ [][Next]_vars

(***************************************************************************)
(* The event loop executes every scheduled event, a frame ends its         *)
(* transmission, and time passes.                                          *)
(***************************************************************************)
Fairness ==
  /\ WF_vars(HandleSelfMsg)
  /\ WF_vars(ReceiveSignal)
  /\ WF_vars(Tick)

FairSpec == Spec /\ Fairness

-----------------------------------------------------------------------------
(***************************************************************************)
(* What delay-based forwarding promises of a node: the local delay a DBF   *)
(* packet takes on this node lies within its queueing budget, whatever     *)
(* arrived, was dropped or was transmitted in between.                     *)
(***************************************************************************)
SentInWindow ==
  \A frame \in onWire : IsDBFPacket(frame.packet) =>
    /\ frame.packet.slo.lqMin <= frame.delay
    /\ ~HasInfiniteDmax(frame.packet) => frame.delay <= frame.packet.slo.lqMax

(***************************************************************************)
(* An armed message stays good until it arrives: although other packets    *)
(* are inserted, dropped and purged meanwhile, its class has a front that  *)
(* may be sent, neither too early nor expired, at the time of the message. *)
(* handleMessage relies on it: it pops without looking.                    *)
(***************************************************************************)
MessageForSendableFront ==
  fault = "none" /\ selfMsg.state = "scheduled" =>
    LET queue == collections[selfMsg.collectionIdx]
    IN  /\ now <= selfMsg.at /\ txIdleCounter = 1
        /\ queue # <<>>
        /\ IsPacketReadyToSend(Head(queue), selfMsg.at)
        /\ ~IsExpired(Head(queue), selfMsg.at)

(***************************************************************************)
(* No lost wakeup: while the MAC is idle and a packet waits, a message is  *)
(* armed; nothing else would make the scheduler look at its queues again.  *)
(***************************************************************************)
ArmedWhenIdle ==
  fault = "none" /\ txIdleCounter = 1 /\ Backlogged(collections) # {}
    => selfMsg.state = "scheduled"

(***************************************************************************)
(* Every packet is in exactly one place: a queued packet stands once in    *)
(* the queue of its class and in no other, and a packet that was sent,     *)
(* dropped or found expired is gone from all of them.                      *)
(***************************************************************************)
Places(id) ==
  {place \in UNION {{delta} \X (1 .. Len(collections[delta])) : delta \in Delta} :
     collections[place[1]][place[2]].id = id}

PacketsAccounted ==
  fault = "none" =>
    \A id \in Id :
      /\ Cardinality(Places(id)) = IF fate[id] = "queued" THEN 1 ELSE 0
      /\ \A place \in Places(id) :
           collections[place[1]][place[2]].slo.delta = place[1]

(***************************************************************************)
(* When schedule() finds a packet that may be sent at once, wherever it    *)
(* stands, it arms the message for now and for the class of highest        *)
(* priority that has one.                                                  *)
(***************************************************************************)
HasReady(queues, delta) ==
  \E i \in 1 .. Len(queues[delta]) : IsPacketReadyToSend(queues[delta][i], now)

ArmsHighestReady ==
  selfMsg' # selfMsg /\ selfMsg'.state = "scheduled" =>
    \A delta \in Delta : HasReady(collections', delta)
      => selfMsg'.at = now /\ selfMsg'.collectionIdx <= delta

(* Every step of the scheduler that arms a message does so. *)
HighestReadyArmed == [][ArmsHighestReady]_vars

(***************************************************************************)
(* What DBFPriorityScheduler.h says of determineCollection: the highest    *)
(* priority class in which a packet is ready is served.  A frame is sent   *)
(* only if no class of higher priority has a packet that is ready.         *)
(***************************************************************************)
SendsHighestReady ==
  \A frame \in onWire' \ onWire : \A delta \in Delta :
    HasReady(collections, delta) => frame.packet.slo.delta <= delta

(* Every step that puts a frame on the wire does so. *)
HighestPriorityReadyFirst == [][SendsHighestReady]_vars

(***************************************************************************)
(* The handlers never run into their error cases: no use of a deleted      *)
(* message, no pop of an empty queue, no txIdleCounter other than 1.       *)
(***************************************************************************)
NoRuntimeError == fault = "none"

(* Every packet that is queued is sent, dropped or found expired in the end. *)
EveryPacketLeaves ==
  \A id \in Id : fate[id] = "queued" ~> fate[id] \in {"sent", "expired", "overflow"}

(***************************************************************************)
(* Seen from outside, the scheduler implements TimedEgress.                *)
(***************************************************************************)
Waiting == UNION {ToSet(collections[delta]) : delta \in Delta}

Egress ==
  INSTANCE TimedEgress WITH
    waiting <- Waiting,
    link <- mac,
    frames <- {frame.packet : frame \in onWire}

ImplementsTimedEgress == Egress!Spec
=============================================================================
