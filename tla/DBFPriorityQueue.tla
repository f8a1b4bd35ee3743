-------------------------- MODULE DBFPriorityQueue --------------------------
(***************************************************************************)
(* DBFPriorityQueue in the detail DBFPriorityScheduler leaves out: queues  *)
(* are created when the first packet of their class arrives, classifier    *)
(* and scheduler address them by index, the deltaQueueMap they share leads *)
(* from a class to the index, and the purge visits queues in the order of  *)
(* their creation while determineCollection visits them by class.          *)
(*                                                                         *)
(* Indices start at 1 here, at 0 in the code.  createDBFQueue appends the  *)
(* new queue to the lists of classifier and scheduler in one call, so one  *)
(* list stands for both.                                                   *)
(***************************************************************************)
EXTENDS DBFQueueOps, DBFClassifierOps

CONSTANTS
  MaxTime,    (* Bound: the last simulation time that is explored.         *)
  MaxArrival, (* Bound: the last time at which packets arrive.             *)
  MaxLag      (* How long after tRcv a packet may reach its queue.         *)

ASSUME TimeAssumption ==
  MaxTime \in Nat /\ MaxArrival \in Nat /\ MaxLag \in Nat

(* The class of a profile is the one the classifier computes.              *)
ASSUME ClassAssumption == \A slo \in Profile : slo.delta = ClassifyPacket(slo)

VARIABLES
  now,           (* The simulation time.                                   *)
  deltaQueueMap, (* The index of the queue of each class seen so far.      *)
  collections,   (* The queues in the order of their creation.             *)
  txIdleCounter, (* 1 while the MAC is known to be idle.                   *)
  selfMsg,       (* The message the scheduler armed for itself.            *)
  mac,           (* "starting", "idle" or "transmitting".                  *)
  onWire,        (* The frame the MAC transmits, at most one.              *)
  fate,          (* What became of each packet.                            *)
  fault          (* The error that ended the simulation, or "none".        *)

vars == <<now, deltaQueueMap, collections, txIdleCounter, selfMsg, mac, onWire,
          fate, fault>>

NoMsg == [state |-> "none"]

Msg == [state : {"scheduled", "deleted"}, collectionIdx : Nat \ {0}, at : Nat]

Frame == [packet : Packet, delay : Int]

TypeOK ==
  /\ now \in Nat
  /\ DOMAIN deltaQueueMap \subseteq Delta
  /\ \A delta \in DOMAIN deltaQueueMap : deltaQueueMap[delta] \in 1 .. Len(collections)
  /\ collections \in Seq(Seq(Packet))
  /\ txIdleCounter \in 0 .. 2
  /\ selfMsg \in Msg \cup {NoMsg}
  /\ selfMsg # NoMsg => selfMsg.collectionIdx <= Len(collections)
  /\ mac \in {"starting", "idle", "transmitting"}
  /\ onWire \subseteq Frame
  /\ fate \in [Id -> {"new", "queued", "sent", "expired", "overflow"}]
  /\ fault \in {"none", "deletedSelfMsg", "emptyQueue", "txIdleCounter"}

Init ==
  /\ now = 0
  /\ deltaQueueMap = <<>>
  /\ collections = <<>>
  /\ txIdleCounter = 0
  /\ selfMsg = NoMsg
  /\ mac = "starting"
  /\ onWire = {}
  /\ fate = [id \in Id |-> "new"]
  /\ fault = "none"

-----------------------------------------------------------------------------
GetIndexOfQueueForDelta(delta) ==
  IF delta \in DOMAIN deltaQueueMap THEN deltaQueueMap[delta]
                                    ELSE Len(collections) + 1

(* createDBFQueue and addDBFQueue. *)
WithQueue(idx) ==
  IF idx = Len(collections) + 1 THEN Append(collections, <<>>) ELSE collections

(* The operators named Wrong... are plausible bugs of what follows them:   *)
(* here, the new queue is not entered under its class.                     *)
WrongForgets(delta) == deltaQueueMap

WithIndex(delta) ==
  [d \in DOMAIN deltaQueueMap \cup {delta} |-> GetIndexOfQueueForDelta(d)]

(***************************************************************************)
(* determineCollection: one round of the loop per class, smallest delta    *)
(* first; best is the index remembered so far and whether to break.        *)
(***************************************************************************)
Round(queues, best, idx) ==
  IF best.found \/ queues[idx] = <<>> THEN best
  ELSE [idx |-> idx, found |-> IsPacketReadyToSend(Head(queues[idx]), now)]

Loop(queues, order) ==
  LET best[n \in 0 .. Len(order)] ==
        IF n = 0 THEN [idx |-> 0, found |-> FALSE]
                 ELSE Round(queues, best[n - 1], order[n])
  IN  best[Len(order)].idx

WrongByIndex(queues, map) == Loop(queues, [idx \in DOMAIN queues |-> idx])

DetermineCollection(queues, map) ==
  Loop(queues, [n \in 1 .. Cardinality(DOMAIN map) |-> map[Enumeration(DOMAIN map)[n]]])

WrongInThePast(packet) == IF IsDBFPacket(packet) THEN TMin(packet) ELSE now

ScheduleTime(packet) ==
  IF IsDBFPacket(packet) /\ TMin(packet) >= now THEN TMin(packet) ELSE now

(***************************************************************************)
(* lookForExpiredPackets: the places of expired packets.  They are visited *)
(* by index, then from the front; the visit that finds the front of the    *)
(* armed queue expired deletes the message, every later one uses it.       *)
(***************************************************************************)
ExpiredPlaces(queues) ==
  {place \in UNION {{idx} \X (1 .. Len(queues[idx])) : idx \in DOMAIN queues} :
     IsExpired(queues[place[1]][place[2]], now)}

MessageDeleted(queues) ==
  selfMsg.state = "scheduled" /\ <<selfMsg.collectionIdx, 1>> \in ExpiredPlaces(queues)

UsedInPurge(queues) ==
  \/ selfMsg.state = "deleted" /\ ExpiredPlaces(queues) # {}
  \/ /\ MessageDeleted(queues)
     /\ \E place \in ExpiredPlaces(queues) :
          \/ place[1] > selfMsg.collectionIdx
          \/ place[1] = selfMsg.collectionIdx /\ place[2] > 1

AfterPurge(queues) ==
  IF MessageDeleted(queues) THEN [selfMsg EXCEPT !.state = "deleted"] ELSE selfMsg

(* lookForExpiredPackets and, if the MAC is idle, schedule(). *)
Dispatch(queues, map, fates, idle) ==
  LET expired == {queues[place[1]][place[2]].id : place \in ExpiredPlaces(queues)}
      left == [idx \in DOMAIN queues |-> Purge(queues[idx], now)]
      chosen == IF idle THEN DetermineCollection(left, map) ELSE 0
  IN  /\ deltaQueueMap' = map
      /\ collections' = left
      /\ fate' = [id \in Id |-> IF id \in expired THEN "expired" ELSE fates[id]]
      /\ fault' = IF \/ UsedInPurge(queues)
                     \/ chosen # 0 /\ AfterPurge(queues).state = "deleted"
                  THEN "deletedSelfMsg" ELSE "none"
      /\ selfMsg' = IF chosen = 0 THEN AfterPurge(queues)
                    ELSE [state |-> "scheduled", collectionIdx |-> chosen,
                          at |-> ScheduleTime(Head(left[chosen]))]

-----------------------------------------------------------------------------
(* A packet reaches the classifier: classifyPacket, which creates the      *)
(* queue if need be, then pushPacket with all it causes.                   *)
HandleMessage(id, slo, lag) ==
  LET packet == [id |-> id, slo |-> slo, tRcv |-> now - lag]
      delta == ClassifyPacket(slo)
      idx == GetIndexOfQueueForDelta(delta)
      before == WithQueue(idx)
      after == [before EXCEPT ![idx] = PushPacket(@, packet, now)]
      dropped == {other.id : other \in (ToSet(before[idx]) \cup {packet})
                                         \ ToSet(after[idx])}
  IN  /\ fault = "none"
      /\ now <= MaxArrival /\ lag <= now
      /\ fate[id] = "new"
      /\ Dispatch(after, WithIndex(delta),
                  [i \in Id |-> IF i \in dropped THEN "overflow"
                                ELSE IF i = id THEN "queued" ELSE fate[i]],
                  txIdleCounter = 1)
      /\ UNCHANGED <<now, txIdleCounter, mac, onWire>>

SendFault ==
  IF collections[selfMsg.collectionIdx] = <<>> THEN "emptyQueue"
  ELSE IF txIdleCounter # 1 THEN "txIdleCounter" ELSE "none"

FrameOf(packet) ==
  [packet |-> packet, delay |-> IF IsDBFPacket(packet) THEN now - packet.tRcv ELSE 0]

HandleSelfMsg ==
  /\ fault = "none"
  /\ selfMsg.state = "scheduled" /\ selfMsg.at = now
  /\ selfMsg' = NoMsg
  /\ fault' = SendFault
  /\ IF SendFault # "none"
     THEN UNCHANGED <<collections, txIdleCounter, mac, onWire, fate>>
     ELSE LET packet == Head(collections[selfMsg.collectionIdx])
          IN  /\ collections' = [collections EXCEPT ![selfMsg.collectionIdx] = Tail(@)]
              /\ txIdleCounter' = txIdleCounter - 1
              /\ mac' = "transmitting"
              /\ onWire' = {FrameOf(packet)}
              /\ fate' = [fate EXCEPT ![packet.id] = "sent"]
  /\ UNCHANGED <<now, deltaQueueMap>>

ReceiveSignal ==
  /\ fault = "none"
  /\ mac # "idle"
  /\ mac' = "idle"
  /\ onWire' = {}
  /\ txIdleCounter' = txIdleCounter + 1
  /\ IF txIdleCounter = 0
     THEN Dispatch(collections, deltaQueueMap, fate, TRUE)
     ELSE fault' = "txIdleCounter"
          /\ UNCHANGED <<deltaQueueMap, collections, selfMsg, fate>>
  /\ UNCHANGED now

Tick ==
  /\ fault = "none"
  /\ mac # "starting"
  /\ ~(selfMsg.state = "scheduled" /\ selfMsg.at <= now)
  /\ now < MaxTime
  /\ now' = now + 1
  /\ UNCHANGED <<deltaQueueMap, collections, txIdleCounter, selfMsg, mac, onWire,
                 fate, fault>>

Next ==
  \/ \E id \in Id, slo \in Profile, lag \in 0 .. MaxLag : HandleMessage(id, slo, lag)
  \/ HandleSelfMsg
  \/ ReceiveSignal
  \/ Tick

Spec == Init /\ [][Next]_vars

-----------------------------------------------------------------------------
(***************************************************************************)
(* The map leads from every class to its own queue: every queue belongs to *)
(* one class, and a packet is only ever queued with packets of its class.  *)
(* An index the armed message holds therefore keeps its meaning while      *)
(* other queues are created.                                               *)
(***************************************************************************)
OfClass(queue, delta) ==
  \A i \in 1 .. Len(queue) : ClassifyPacket(queue[i].slo) = delta

OneQueuePerClass ==
  /\ \A idx \in DOMAIN collections :
       Cardinality({delta \in DOMAIN deltaQueueMap : deltaQueueMap[delta] = idx}) = 1
  /\ \A delta \in DOMAIN deltaQueueMap :
       OfClass(collections[deltaQueueMap[delta]], delta)

(***************************************************************************)
(* If maximumDelta is a multiple of deltaSteps, no packet with a deadline  *)
(* is in a class visited after that of the BE packets.  (Otherwise a       *)
(* budget just below maximumDelta is rounded up beyond it.)                *)
(***************************************************************************)
DeadlinesAboveBestEffort ==
  MaximumDelta % DeltaSteps = 0 =>
    \A delta \in DOMAIN deltaQueueMap : delta <= MaximumDelta

(***************************************************************************)
(* Seen by class instead of by index, with a queue that was not created as *)
(* an empty one, this is DBFPriorityScheduler.                             *)
(***************************************************************************)
QueueOf(delta) ==
  IF delta \in DOMAIN deltaQueueMap THEN collections[deltaQueueMap[delta]] ELSE <<>>

ClassOf(idx) == CHOOSE delta \in DOMAIN deltaQueueMap : deltaQueueMap[delta] = idx

Scheduler ==
  INSTANCE DBFPriorityScheduler WITH
    collections <- [delta \in Delta |-> QueueOf(delta)],
    selfMsg <- IF selfMsg = NoMsg THEN NoMsg
               ELSE [selfMsg EXCEPT !.collectionIdx = ClassOf(@)]

ImplementsScheduler == Scheduler!Spec
=============================================================================
