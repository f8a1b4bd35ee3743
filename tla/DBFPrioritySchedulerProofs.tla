--------------------- MODULE DBFPrioritySchedulerProofs ---------------------
(***************************************************************************)
(* Safety of the DBFPriorityScheduler for any classes, profiles, number of *)
(* packets, capacity, and any lag between the reception of a packet and    *)
(* its arrival at the queues.                                              *)
(***************************************************************************)
EXTENDS DBFPriorityScheduler, DBFQueueOpsProofs

-----------------------------------------------------------------------------
(* The class that determineCollection returns.                             *)

(* While a class has a packet, determineCollection returns such a class.   *)
LEMMA CollectionHasPacket ==
  ASSUME NEW queues, Backlogged(queues) # {}
  PROVE  /\ DetermineCollection(queues) \in Delta
         /\ queues[DetermineCollection(queues)] # <<>>
<1>1. /\ Backlogged(queues) \in SUBSET Nat /\ IsFiniteSet(Backlogged(queues))
      /\ ReadyToSend(queues) \in SUBSET Backlogged(queues)
  BY DeltaAssumption, FS_Subset DEF Backlogged, ReadyToSend
<1>2. PICK n \in Nat : \A y \in Backlogged(queues) : y <= n
  BY <1>1, FiniteSetBounded DEF HasBound
<1>3. Max(Backlogged(queues)) \in Backlogged(queues)
  BY <1>1, <1>2, MaxOfNaturals
<1>4. CASE ReadyToSend(queues) # {}
  <2>1. Min(ReadyToSend(queues)) \in ReadyToSend(queues)
    BY <1>1, <1>4, MinOfNaturals
  <2> QED
    BY <1>1, <1>4, <2>1 DEF DetermineCollection, Backlogged
<1>5. CASE ReadyToSend(queues) = {}
  BY <1>3, <1>5 DEF DetermineCollection, Backlogged
<1> QED
  BY <1>4, <1>5

-----------------------------------------------------------------------------
(* What schedule() arms and what lookForExpiredPackets leaves.             *)

QueuesType == [Delta -> Seq(Packet)]

(* The purged queues are queues, and their fronts have not expired.        *)
LEMMA PurgeAllProperties ==
  ASSUME now \in Nat, NEW queues \in QueuesType
  PROVE  /\ PurgeAll(queues) \in QueuesType
         /\ \A delta \in Backlogged(PurgeAll(queues)) :
              ~IsExpired(Head(PurgeAll(queues)[delta]), now)
<1>1. ASSUME NEW delta \in Delta
      PROVE  Purge(queues[delta], now) \in Seq(Packet)
  BY PurgeProperties DEF QueuesType
<1>2. ASSUME NEW delta \in Delta, Purge(queues[delta], now) # <<>>
      PROVE  ~IsExpired(Head(Purge(queues[delta], now)), now)
  <2> DEFINE s == Purge(queues[delta], now)
  <2>1. queues[delta] \in Seq(Packet)
    BY DEF QueuesType
  <2>2. PICK f \in [1 .. Len(s) -> 1 .. Len(queues[delta])] :
          /\ \A i, j \in 1 .. Len(s) : i < j => f[i] < f[j]
          /\ \A i \in 1 .. Len(s) :
               /\ s[i] = queues[delta][f[i]]
               /\ ~IsExpired(queues[delta][f[i]], now)
          /\ \A k \in 1 .. Len(queues[delta]) : ~IsExpired(queues[delta][k], now)
               => \E i \in 1 .. Len(s) : f[i] = k
    <3>1. now \in Int
      OBVIOUS
    <3> QED
      BY <2>1, <3>1, PurgeProperties, Zenon
  <2>3. 1 \in 1 .. Len(s) /\ Head(s) = s[1]
    <3>1. s \in Seq(Packet) /\ s # <<>>
      BY <1>1, <1>2
    <3> HIDE DEF s
    <3> QED
      BY <3>1
  <2> HIDE DEF s
  <2>4. ~IsExpired(Head(s), now)
    BY <2>2, <2>3
  <2> QED
    BY <2>4 DEF s
<1> QED
  BY <1>1, <1>2 DEF PurgeAll, Backlogged, QueuesType

(* The message schedule() arms names a packet that may be sent when the    *)
(* message arrives, if the fronts of all queues are unexpired.             *)
LEMMA NewMsgProperties ==
  ASSUME now \in Nat, NEW queues \in QueuesType, Backlogged(queues) # {},
         \A delta \in Backlogged(queues) : ~IsExpired(Head(queues[delta]), now)
  PROVE  LET msg == NewMsg(queues)
             front == Head(queues[msg.collectionIdx])
         IN  /\ msg \in Msg /\ msg.state = "scheduled" /\ now <= msg.at
             /\ queues[msg.collectionIdx] # <<>>
             /\ IsPacketReadyToSend(front, msg.at)
             /\ ~IsExpired(front, msg.at)
<1> DEFINE delta == DetermineCollection(queues)
           front == Head(queues[delta])
           at == ScheduleTime(front)
<1>1. delta \in Delta /\ queues[delta] # <<>>
  BY CollectionHasPacket
<1>2. NewMsg(queues) = [state |-> "scheduled", collectionIdx |-> delta, at |-> at]
  BY DEF NewMsg
<1>3. front \in Packet
  <2>1. queues[delta] \in Seq(Packet)
    BY <1>1 DEF QueuesType
  <2> HIDE DEF delta
  <2> QED
    BY <1>1, <2>1
<1>4. ~IsExpired(front, now)
  BY <1>1 DEF Backlogged
<1> HIDE DEF delta, front
<1>5. TMin(front) \in Int /\ TMax(front) \in Int
  BY <1>3, PacketTypes
<1>6. at \in Nat /\ now <= at
  BY <1>5 DEF ScheduleTime
<1>7. IsPacketReadyToSend(front, at)
  BY <1>5 DEF ScheduleTime, IsPacketReadyToSend
<1>8. ~IsExpired(front, at)
  BY <1>3, <1>4, <1>5, WindowNotEmpty DEF ScheduleTime, IsExpired
<1> HIDE DEF at
<1>9. /\ NewMsg(queues).state = "scheduled" /\ NewMsg(queues).collectionIdx = delta
      /\ NewMsg(queues).at = at
  BY <1>2
<1> QED
  BY <1>1, <1>2, <1>6, <1>7, <1>8, <1>9 DEF front, Msg

-----------------------------------------------------------------------------
(* What Dispatch, the common part of two handlers, does to the state.      *)

LEMMA DispatchType ==
  ASSUME now \in Nat, selfMsg \in Msg \cup {NoMsg},
         NEW queues \in QueuesType, NEW fates \in [Id -> Fates],
         NEW idle \in BOOLEAN, Dispatch(queues, fates, idle)
  PROVE  /\ collections' \in QueuesType /\ fate' \in [Id -> Fates]
         /\ selfMsg' \in Msg \cup {NoMsg} /\ fault' \in Faults
<1>1. PurgeAll(queues) \in QueuesType
  BY PurgeAllProperties
<1>2. Backlogged(PurgeAll(queues)) # {} => NewMsg(PurgeAll(queues)) \in Msg
  BY <1>1, PurgeAllProperties, NewMsgProperties
<1>3. AfterPurge(queues) \in Msg \cup {NoMsg}
  BY DEF AfterPurge, Msg, NoMsg
<1>4. fate' \in [Id -> Fates]
  BY DEF Dispatch, Fates
<1>5. fault' \in Faults
  BY DEF Dispatch, DispatchFaults, Faults
<1> QED
  BY <1>1, <1>2, <1>3, <1>4, <1>5 DEF Dispatch

(* With an idle MAC, a Dispatch that finds a packet arms a message for a   *)
(* packet that may be sent, and one that finds none leaves none armed.     *)
LEMMA DispatchArms ==
  ASSUME now \in Nat, now' = now, txIdleCounter' = 1,
         NEW queues \in QueuesType, NEW fates, Dispatch(queues, fates, TRUE),
         selfMsg.state = "scheduled" => Backlogged(PurgeAll(queues)) # {}
  PROVE  MessageForSendableFront' /\ ArmedWhenIdle'
<1> DEFINE left == PurgeAll(queues)
<1>1. /\ left \in QueuesType
      /\ \A delta \in Backlogged(left) : ~IsExpired(Head(left[delta]), now)
  BY PurgeAllProperties
<1>2. collections' = left /\ Backlogged(collections)' = Backlogged(left)
  BY DEF Dispatch, Backlogged
<1>3. CASE Backlogged(left) # {}
  <2>1. selfMsg' = NewMsg(left)
    BY <1>3 DEF Dispatch
  <2> DEFINE msg == NewMsg(left)
             front == Head(left[msg.collectionIdx])
  <2>2. /\ msg.state = "scheduled" /\ now <= msg.at
        /\ left[msg.collectionIdx] # <<>>
        /\ IsPacketReadyToSend(front, msg.at)
        /\ ~IsExpired(front, msg.at)
    <3> HIDE DEF left
    <3> QED
      BY <1>1, <1>3, NewMsgProperties
  <2> HIDE DEF left
  <2> QED
    BY <1>2, <2>1, <2>2 DEF MessageForSendableFront, ArmedWhenIdle
<1>4. CASE Backlogged(left) = {}
  <2>1. selfMsg' = AfterPurge(queues) /\ selfMsg.state # "scheduled"
    BY <1>4 DEF Dispatch
  <2>2. selfMsg' = selfMsg
    BY <2>1 DEF AfterPurge
  <2> HIDE DEF left
  <2> QED
    BY <1>2, <1>4, <2>1, <2>2 DEF MessageForSendableFront, ArmedWhenIdle
<1> QED
  BY <1>3, <1>4

-----------------------------------------------------------------------------
(* A packet that reaches the queues.                                       *)

LEMMA ArrivingPacket ==
  ASSUME now \in Nat, NEW id \in Id, NEW slo \in Profile, NEW lag \in 0 .. MaxLag,
         lag <= now
  PROVE  [id |-> id, slo |-> slo, tRcv |-> now - lag] \in Packet
  BY TimeAssumption DEF Packet

LEMMA PushedProperties ==
  ASSUME now \in Nat, collections \in QueuesType, NEW packet \in Packet
  PROVE  /\ Pushed(packet) \in QueuesType
         /\ \A delta \in Delta :
              Pushed(packet)[delta] =
                IF delta = packet.slo.delta
                THEN PushPacket(collections[delta], packet, now)
                ELSE collections[delta]
<1>1. now \in Int /\ collections \in QueuesType /\ packet.slo.delta \in Delta
  BY PacketTypes
<1>2. collections[packet.slo.delta] \in Seq(Packet)
  BY <1>1 DEF QueuesType
<1>3. PushPacket(collections[packet.slo.delta], packet, now) \in Seq(Packet)
  BY <1>1, <1>2, PushPacketProperties
<1> QED
  BY <1>1, <1>3 DEF Pushed, QueuesType

(* Armed for a class, the message still has an unexpired packet there      *)
(* after any push and the purge.                                           *)
LEMMA ArmedClassNotEmptied ==
  ASSUME TypeOK, fault = "none", MessageForSendableFront,
         selfMsg.state = "scheduled", NEW packet \in Packet
  PROVE  /\ ~IsExpired(Head(collections[selfMsg.collectionIdx]), now)
         /\ Backlogged(PurgeAll(Pushed(packet))) # {}
<1> DEFINE delta == selfMsg.collectionIdx
           queue == collections[delta]
           pushed == Pushed(packet)[delta]
<1>1. now \in Int /\ selfMsg \in Msg
  BY DEF TypeOK, NoMsg
<1>2. delta \in Delta /\ selfMsg.at \in Int
  BY <1>1 DEF Msg
<1>3. queue \in Seq(Packet) /\ queue # <<>>
  BY <1>2 DEF TypeOK, MessageForSendableFront
<1>4. ~IsExpired(Head(queue), selfMsg.at) /\ now <= selfMsg.at
  BY DEF MessageForSendableFront
<1> HIDE DEF delta, queue, pushed
<1>5. Head(queue) \in Packet /\ Head(queue) = queue[1] /\ 1 \in 1 .. Len(queue)
  BY <1>3
<1>6. ~IsExpired(Head(queue), now)
  <2>1. TMax(Head(queue)) \in Int
    BY <1>5, PacketTypes
  <2> QED
    BY <1>1, <1>2, <1>4, <2>1 DEF IsExpired
<1>7. \E k \in 1 .. Len(pushed) : ~IsExpired(pushed[k], now)
  <2>1. CASE delta = packet.slo.delta
    <3>1. pushed = PushPacket(queue, packet, now)
      BY <1>2, <2>1, PushedProperties DEF queue, pushed, TypeOK, QueuesType
    <3>2. \E k \in 1 .. Len(PushPacket(queue, packet, now)) :
            ~IsExpired(PushPacket(queue, packet, now)[k], now)
      BY <1>1, <1>3, <1>5, <1>6, PushKeepsUnexpired
    <3> QED
      BY <3>1, <3>2
  <2>2. CASE delta # packet.slo.delta
    <3>1. pushed = queue
      BY <1>2, <2>2, PushedProperties DEF queue, pushed, TypeOK, QueuesType
    <3> QED
      BY <1>5, <1>6, <3>1
  <2> QED
    BY <2>1, <2>2
<1>8. pushed \in Seq(Packet)
  BY <1>2, PushedProperties DEF pushed, TypeOK, QueuesType
<1>9. Purge(pushed, now) # <<>>
  <2>1. PICK f \in [1 .. Len(Purge(pushed, now)) -> 1 .. Len(pushed)] :
          /\ \A i, j \in 1 .. Len(Purge(pushed, now)) : i < j => f[i] < f[j]
          /\ \A i \in 1 .. Len(Purge(pushed, now)) :
               /\ Purge(pushed, now)[i] = pushed[f[i]]
               /\ ~IsExpired(pushed[f[i]], now)
          /\ \A k \in 1 .. Len(pushed) : ~IsExpired(pushed[k], now)
               => \E i \in 1 .. Len(Purge(pushed, now)) : f[i] = k
    BY <1>1, <1>8, PurgeProperties, Zenon
  <2>2. PICK i : i \in 1 .. Len(Purge(pushed, now))
    BY <1>7, <2>1
  <2>3. Purge(pushed, now) \in Seq(Packet)
    BY <1>1, <1>8, PurgeProperties
  <2> QED
    BY <2>2, <2>3
<1>10. PurgeAll(Pushed(packet))[delta] = Purge(pushed, now)
  BY <1>2 DEF PurgeAll, pushed
<1>11. Backlogged(PurgeAll(Pushed(packet))) # {}
  BY <1>2, <1>9, <1>10 DEF Backlogged
<1> QED
  BY <1>6, <1>11 DEF queue, delta

-----------------------------------------------------------------------------
(***************************************************************************)
(* The inductive invariant.  None of its parts is inductive alone: a frame *)
(* is within its window because the message that sent it named a packet    *)
(* that may be sent; the message still does when it arrives because it is  *)
(* renewed by every push while the MAC is idle and no push happens         *)
(* unnoticed otherwise; and txIdleCounter mirrors the MAC because each     *)
(* message sends one frame and each frame ends with one signal.            *)
(***************************************************************************)
CounterFollowsMac ==
  fault = "none" => txIdleCounter = IF mac = "idle" THEN 1 ELSE 0

IInv ==
  /\ TypeOK
  /\ CounterFollowsMac
  /\ MessageForSendableFront
  /\ ArmedWhenIdle
  /\ SentInWindow

LEMMA InitIInv == Init => IInv
  BY DEF Init, IInv, TypeOK, CounterFollowsMac, MessageForSendableFront,
         ArmedWhenIdle, SentInWindow, Backlogged, NoMsg, Fates, Faults

LEMMA HandleMessageIInv ==
  ASSUME IInv, NEW id \in Id, NEW slo \in Profile, NEW lag \in 0 .. MaxLag,
         HandleMessage(id, slo, lag)
  PROVE  IInv'
<1> DEFINE packet == [id |-> id, slo |-> slo, tRcv |-> now - lag]
           queues == Pushed(packet)
           fates == [i \in Id |-> IF i \in Overflow(packet) THEN "overflow"
                                  ELSE [fate EXCEPT ![id] = "queued"][i]]
           idle == txIdleCounter = 1
<1>1. /\ fault = "none" /\ lag <= now /\ Dispatch(queues, fates, idle)
      /\ now' = now /\ txIdleCounter' = txIdleCounter /\ mac' = mac /\ onWire' = onWire
  BY DEF HandleMessage
<1>2. packet \in Packet
  BY <1>1, ArrivingPacket DEF IInv, TypeOK
<1> HIDE DEF packet
<1>3. queues \in QueuesType
  BY <1>2, PushedProperties DEF IInv, TypeOK, QueuesType
<1>4. fates \in [Id -> Fates]
  BY DEF IInv, TypeOK, Fates
<1>5. now \in Nat /\ selfMsg \in Msg \cup {NoMsg}
  BY DEF IInv, TypeOK
<1>6. selfMsg.state = "scheduled" => Backlogged(PurgeAll(queues)) # {}
  BY <1>1, <1>2, ArmedClassNotEmptied DEF IInv
<1>7. ~idle => selfMsg.state # "scheduled"
  BY <1>1 DEF IInv, MessageForSendableFront
<1> HIDE DEF queues, fates
<1>8. TypeOK'
  <2>1. /\ collections' \in QueuesType /\ fate' \in [Id -> Fates]
        /\ selfMsg' \in Msg \cup {NoMsg} /\ fault' \in Faults
    BY <1>1, <1>3, <1>4, <1>5, DispatchType
  <2> QED
    BY <1>1, <2>1 DEF IInv, TypeOK, QueuesType
<1>9. CounterFollowsMac'
  BY <1>1 DEF IInv, CounterFollowsMac
<1>10. SentInWindow'
  BY <1>1 DEF IInv, SentInWindow
<1>11. MessageForSendableFront' /\ ArmedWhenIdle'
  <2>1. CASE idle
    <3>1. Dispatch(queues, fates, TRUE) /\ txIdleCounter' = 1
      BY <1>1, <2>1
    <3> QED
      BY <1>1, <1>3, <1>5, <1>6, <3>1, DispatchArms
  <2>2. CASE ~idle
    <3>1. selfMsg' = AfterPurge(queues)
      BY <1>1, <2>2 DEF Dispatch
    <3>2. selfMsg'.state # "scheduled"
      BY <1>7, <2>2, <3>1 DEF AfterPurge
    <3> QED
      BY <1>1, <2>2, <3>2 DEF MessageForSendableFront, ArmedWhenIdle
  <2> QED
    BY <2>1, <2>2
<1> QED
  BY <1>8, <1>9, <1>10, <1>11 DEF IInv

(* A frame with a packet in its window is as late as its budget allows.    *)
LEMMA FrameInWindow ==
  ASSUME now \in Nat, NEW packet \in Packet,
         IsPacketReadyToSend(packet, now), ~IsExpired(packet, now),
         onWire' = {FrameOf(packet)}
  PROVE  SentInWindow' /\ FrameOf(packet) \in Frame
<1>1. FrameOf(packet) \in Frame
  BY PacketTypes DEF FrameOf, Frame
<1>2. FrameOf(packet).packet = packet
  BY DEF FrameOf
<1>3. IsDBFPacket(packet) => FrameOf(packet).delay = now - packet.tRcv
  BY DEF FrameOf
<1>4. packet.tRcv \in Int /\ packet.slo.lqMin \in Int /\ packet.slo.lqMax \in Int
  BY PacketTypes
<1>5. IsDBFPacket(packet) => packet.slo.lqMin <= now - packet.tRcv
  BY <1>4 DEF IsPacketReadyToSend, TMin
<1>6. IsDBFPacket(packet) /\ ~HasInfiniteDmax(packet)
        => now - packet.tRcv <= packet.slo.lqMax
  BY <1>4 DEF IsExpired, TMax
<1> QED
  BY <1>1, <1>2, <1>3, <1>5, <1>6 DEF SentInWindow

LEMMA HandleSelfMsgIInv == ASSUME IInv, HandleSelfMsg PROVE IInv'
<1> DEFINE delta == selfMsg.collectionIdx
           queue == collections[delta]
           packet == Head(queue)
<1>1. /\ fault = "none" /\ selfMsg.state = "scheduled" /\ selfMsg.at = now
      /\ selfMsg' = NoMsg /\ now' = now
  BY DEF HandleSelfMsg
<1>2. /\ queue # <<>> /\ txIdleCounter = 1
      /\ IsPacketReadyToSend(packet, now) /\ ~IsExpired(packet, now)
  BY <1>1 DEF IInv, MessageForSendableFront
<1>3. SendFault = "none"
  BY <1>2 DEF SendFault
<1>4. /\ fault' = "none" /\ txIdleCounter' = txIdleCounter - 1
      /\ mac' = "transmitting" /\ onWire' = {FrameOf(packet)}
      /\ collections' = [collections EXCEPT ![delta] = Tail(queue)]
      /\ fate' = [fate EXCEPT ![packet.id] = "sent"]
  BY <1>3 DEF HandleSelfMsg
<1>5. delta \in Delta /\ now \in Nat
  BY <1>1 DEF IInv, TypeOK, Msg, NoMsg
<1>6. queue \in Seq(Packet)
  BY <1>5 DEF IInv, TypeOK
<1> HIDE DEF queue, delta
<1>7. packet \in Packet /\ Tail(queue) \in Seq(Packet)
  BY <1>2, <1>6
<1> HIDE DEF packet
<1>8. SentInWindow' /\ FrameOf(packet) \in Frame
  <2>1. PICK p : p = packet
    OBVIOUS
  <2> QED
    BY <1>2, <1>4, <1>5, <1>7, <2>1, FrameInWindow
<1>9. TypeOK'
  BY <1>1, <1>2, <1>4, <1>5, <1>7, <1>8, PacketTypes DEF IInv, TypeOK, Fates, Faults
<1> QED
  BY <1>1, <1>2, <1>4, <1>8, <1>9
     DEF IInv, CounterFollowsMac, MessageForSendableFront, ArmedWhenIdle, NoMsg

LEMMA ReceiveSignalIInv == ASSUME IInv, ReceiveSignal PROVE IInv'
<1>1. fault = "none" /\ mac # "idle" /\ txIdleCounter = 0
  BY DEF ReceiveSignal, IInv, CounterFollowsMac
<1>2. /\ mac' = "idle" /\ onWire' = {} /\ txIdleCounter' = 1 /\ now' = now
      /\ Dispatch(collections, fate, TRUE)
  <2>1. Dispatch(collections, fate, TRUE)
    BY <1>1, Zenon DEF ReceiveSignal
  <2>2. mac' = "idle" /\ onWire' = {} /\ now' = now /\ txIdleCounter' = txIdleCounter + 1
    BY DEF ReceiveSignal
  <2>3. txIdleCounter' = 1
    BY <1>1, <2>2
  <2> QED
    BY <2>1, <2>2, <2>3, Zenon
<1>3. now \in Nat /\ selfMsg \in Msg \cup {NoMsg} /\ collections \in QueuesType
  BY DEF IInv, TypeOK, QueuesType
<1>4. fate \in [Id -> Fates] /\ selfMsg.state # "scheduled"
  BY <1>1 DEF IInv, TypeOK, MessageForSendableFront
<1>5. /\ collections' \in QueuesType /\ fate' \in [Id -> Fates]
      /\ selfMsg' \in Msg \cup {NoMsg} /\ fault' \in Faults
  BY <1>2, <1>3, <1>4, DispatchType
<1>6. MessageForSendableFront' /\ ArmedWhenIdle'
  BY <1>2, <1>3, <1>4, DispatchArms
<1>7. TypeOK'
  BY <1>2, <1>3, <1>5 DEF TypeOK, QueuesType
<1> QED
  BY <1>2, <1>6, <1>7 DEF IInv, CounterFollowsMac, SentInWindow

LEMMA TickIInv == ASSUME IInv, Tick PROVE IInv'
<1>1. /\ fault = "none" /\ ~MessageDue /\ now' = now + 1 /\ now \in Nat
      /\ UNCHANGED <<collections, txIdleCounter, selfMsg, mac, onWire, fate, fault>>
  BY DEF Tick, IInv, TypeOK
<1>2. selfMsg.state = "scheduled" => selfMsg.at \in Nat /\ now' <= selfMsg.at
  BY <1>1 DEF MessageDue, IInv, TypeOK, Msg, NoMsg
<1>3. MessageForSendableFront'
  BY <1>1, <1>2 DEF IInv, MessageForSendableFront
<1> QED
  BY <1>1, <1>3 DEF IInv, TypeOK, CounterFollowsMac, ArmedWhenIdle, SentInWindow,
                    Backlogged

LEMMA StutterIInv == ASSUME IInv, UNCHANGED vars PROVE IInv'
  BY DEF vars, IInv, TypeOK, CounterFollowsMac, MessageForSendableFront,
         ArmedWhenIdle, SentInWindow, Backlogged

(* Counter, MAC, message and queues belong together between the handlers.  *)
THEOREM InductiveInvariant == Spec => []IInv
<1>1. IInv /\ [Next]_vars => IInv'
  BY HandleMessageIInv, HandleSelfMsgIInv, ReceiveSignalIInv, TickIInv, StutterIInv
     DEF Next
<1> QED
  BY InitIInv, <1>1, PTL DEF Spec

-----------------------------------------------------------------------------
(* The variables of the scheduler have their types, whatever arrives.      *)
THEOREM TypeCorrect == Spec => []TypeOK
<1>1. IInv => TypeOK
  BY DEF IInv
<1> QED
  BY <1>1, InductiveInvariant, PTL

(* Every DBF packet leaves the node within its local queueing budget.      *)
THEOREM BudgetsKept == Spec => []SentInWindow
<1>1. IInv => SentInWindow
  BY DEF IInv
<1> QED
  BY <1>1, InductiveInvariant, PTL

(* The packet a message was armed for may be sent when the message arrives, *)
(* whatever was inserted, dropped and purged in the meantime.              *)
THEOREM ArmedMessagesStayGood == Spec => []MessageForSendableFront
<1>1. IInv => MessageForSendableFront
  BY DEF IInv
<1> QED
  BY <1>1, InductiveInvariant, PTL

(* No wakeup is lost: an idle MAC and a waiting packet imply a message.    *)
THEOREM NoLostWakeup == Spec => []ArmedWhenIdle
<1>1. IInv => ArmedWhenIdle
  BY DEF IInv
<1> QED
  BY <1>1, InductiveInvariant, PTL

-----------------------------------------------------------------------------
(***************************************************************************)
(* Without lag no handler ever meets an error case: a packet that reaches  *)
(* its queue in the instant it was received has not expired, so the front  *)
(* a message was armed for is not replaced by an expired one, and the      *)
(* message is never deleted by the purge.                                  *)
(***************************************************************************)
NoDeletedMsg == fault = "none" /\ selfMsg.state # "deleted"

(* Dispatch meets no deleted message if the purge deletes none.            *)
LEMMA DispatchWithoutFault ==
  ASSUME NoDeletedMsg, NEW queues, NEW fates, NEW idle,
         Dispatch(queues, fates, idle), AfterPurge(queues) = selfMsg
  PROVE  NoDeletedMsg'
<1>1. DispatchFaults(queues, idle) = {"none"}
  BY DEF NoDeletedMsg, DeletedMsgUsed, DispatchFaults
<1>2. fault' = "none"
  BY <1>1 DEF Dispatch
<1>3. selfMsg' = NewMsg(PurgeAll(queues)) \/ selfMsg' = selfMsg
  BY DEF Dispatch
<1>4. NewMsg(PurgeAll(queues)).state = "scheduled"
  BY DEF NewMsg
<1> QED
  BY <1>2, <1>3, <1>4 DEF NoDeletedMsg

LEMMA PushDeletesNoMsg ==
  ASSUME IInv, NoDeletedMsg, NEW packet \in Packet, ~IsExpired(packet, now)
  PROVE  AfterPurge(Pushed(packet)) = selfMsg
<1> SUFFICES ASSUME selfMsg.state = "scheduled"
             PROVE  ~IsExpired(Head(Pushed(packet)[selfMsg.collectionIdx]), now)
  BY DEF AfterPurge
<1> DEFINE delta == selfMsg.collectionIdx
<1>1. ~IsExpired(Head(collections[delta]), now)
  BY ArmedClassNotEmptied DEF IInv, NoDeletedMsg
<1>2. now \in Int /\ delta \in Delta
  BY DEF IInv, TypeOK, Msg, NoMsg
<1>3. collections[delta] \in Seq(Packet) /\ collections[delta] # <<>>
  BY <1>2 DEF IInv, TypeOK, NoDeletedMsg, MessageForSendableFront
<1>4. CASE delta = packet.slo.delta
  <2>1. Pushed(packet)[delta] = PushPacket(collections[delta], packet, now)
    BY <1>2, <1>4, PushedProperties DEF IInv, TypeOK, QueuesType
  <2> HIDE DEF delta
  <2>2. ~IsExpired(Head(PushPacket(collections[delta], packet, now)), now)
    BY <1>1, <1>2, <1>3, PushKeepsUnexpiredFront
  <2> QED
    BY <2>1, <2>2 DEF delta
<1>5. CASE delta # packet.slo.delta
  BY <1>1, <1>2, <1>5, PushedProperties DEF IInv, TypeOK, QueuesType
<1> QED
  BY <1>4, <1>5

(* No handler meets an error case if packets reach their queue in the      *)
(* instant they were received: no deleted message, no empty queue, and the *)
(* counter never leaves 0 and 1.                                           *)
THEOREM NoRuntimeErrorWithoutLag ==
  ASSUME MaxLag = 0
  PROVE  Spec => []NoRuntimeError
<1>1. Init => NoDeletedMsg
  BY DEF Init, NoDeletedMsg, NoMsg
<1>2. IInv /\ NoDeletedMsg /\ [Next]_vars => NoDeletedMsg'
  <2> SUFFICES ASSUME IInv, NoDeletedMsg, [Next]_vars PROVE NoDeletedMsg'
    OBVIOUS
  <2>1. ASSUME NEW id \in Id, NEW slo \in Profile, NEW lag \in 0 .. MaxLag,
               HandleMessage(id, slo, lag)
        PROVE  NoDeletedMsg'
    <3> DEFINE packet == [id |-> id, slo |-> slo, tRcv |-> now - lag]
    <3>1. lag = 0 /\ lag <= now
      BY <2>1 DEF HandleMessage
    <3>2. packet \in Packet
      BY <2>1, <3>1, ArrivingPacket DEF IInv, TypeOK
    <3>3. ~IsExpired(packet, now)
      <4>1. packet.slo = slo /\ packet.tRcv = now /\ now \in Nat
        BY <3>1 DEF IInv, TypeOK
      <4>2. slo.dbf /\ slo.finite => slo.lqMax >= 0
        BY ProfileAssumption
      <4>3. packet.slo.lqMax \in Int
        BY <3>2, PacketTypes
      <4> HIDE DEF packet
      <4> QED
        BY <4>1, <4>2, <4>3 DEF IsExpired, IsDBFPacket, HasInfiniteDmax, TMax
    <3>4. AfterPurge(Pushed(packet)) = selfMsg
      BY <3>2, <3>3, PushDeletesNoMsg
    <3>5. PICK fates, idle : Dispatch(Pushed(packet), fates, idle)
      BY <2>1 DEF HandleMessage
    <3> HIDE DEF packet
    <3> QED
      BY <3>4, <3>5, DispatchWithoutFault
  <2>2. CASE HandleSelfMsg
    <3>1. SendFault = "none"
      BY <2>2 DEF HandleSelfMsg, SendFault, IInv, MessageForSendableFront
    <3> QED
      BY <2>2, <3>1 DEF HandleSelfMsg, NoDeletedMsg, NoMsg
  <2>3. CASE ReceiveSignal
    <3>1. txIdleCounter = 0 /\ selfMsg.state # "scheduled"
      BY <2>3 DEF ReceiveSignal, IInv, CounterFollowsMac, MessageForSendableFront
    <3>2. Dispatch(collections, fate, TRUE)
      BY <2>3, <3>1, Zenon DEF ReceiveSignal
    <3>3. AfterPurge(collections) = selfMsg
      BY <3>1 DEF AfterPurge
    <3> QED
      BY <3>2, <3>3, DispatchWithoutFault
  <2>4. CASE Tick
    BY <2>4 DEF Tick, NoDeletedMsg
  <2>5. CASE UNCHANGED vars
    BY <2>5 DEF vars, NoDeletedMsg
  <2> QED
    BY <2>1, <2>2, <2>3, <2>4, <2>5 DEF Next
<1>3. NoDeletedMsg => NoRuntimeError
  BY DEF NoDeletedMsg, NoRuntimeError
<1> QED
  BY <1>1, <1>2, <1>3, InductiveInvariant, PTL DEF Spec
-----------------------------------------------------------------------------
(***************************************************************************)
(* Where the packets are.  A packet stands once in the queue of its class, *)
(* in no other, and only while its fate is "queued".  The lemmas speak of  *)
(* queues in the middle of a handler as well, with the fates their packets *)
(* have met so far.                                                        *)
(***************************************************************************)
WaitingIn(queues) == UNION {ToSet(queues[delta]) : delta \in Delta}

KeptApart(queues, fates) ==
  /\ \A delta \in Delta : Distinct(queues[delta])
  /\ \A delta \in Delta : \A packet \in ToSet(queues[delta]) :
       packet.slo.delta = delta /\ fates[packet.id] = "queued"
  /\ \A p, q \in WaitingIn(queues) : p.id = q.id => p = q
  /\ \A id \in Id : fates[id] = "queued" => \E packet \in WaitingIn(queues) : packet.id = id

InOrderByClass(queues, time) == \A delta \in Delta : QueueInOrder(queues[delta], time)

LEMMA WaitingPackets ==
  ASSUME NEW queues \in QueuesType
  PROVE  /\ WaitingIn(queues) \subseteq Packet
         /\ \A delta \in Delta : ToSet(queues[delta]) \subseteq WaitingIn(queues)
         /\ \A packet \in WaitingIn(queues) : \E delta \in Delta : packet \in ToSet(queues[delta])
  BY SetOfSeq DEF WaitingIn, QueuesType

LEMMA WaitingInItsClass ==
  ASSUME NEW queues \in QueuesType, NEW fates, KeptApart(queues, fates),
         NEW packet \in WaitingIn(queues)
  PROVE  /\ packet.slo.delta \in Delta /\ packet \in ToSet(queues[packet.slo.delta])
         /\ fates[packet.id] = "queued"
  BY WaitingPackets DEF KeptApart

(* What lookForExpiredPackets does to the packets.                         *)
LEMMA PurgeAllContents ==
  ASSUME now \in Nat, NEW queues \in QueuesType
  PROVE  /\ \A delta \in Delta : ToSet(PurgeAll(queues)[delta])
              = {packet \in ToSet(queues[delta]) : ~IsExpired(packet, now)}
         /\ WaitingIn(PurgeAll(queues))
              = {packet \in WaitingIn(queues) : ~IsExpired(packet, now)}
         /\ \A id \in Id : id \in ExpiredIds(queues) <=>
              \E packet \in WaitingIn(queues) : packet.id = id /\ IsExpired(packet, now)
         /\ InOrderByClass(queues, now) => InOrderByClass(PurgeAll(queues), now)
<1>1. ASSUME NEW delta \in Delta
      PROVE  /\ ToSet(PurgeAll(queues)[delta])
                  = {packet \in ToSet(queues[delta]) : ~IsExpired(packet, now)}
             /\ ToSet(queues[delta]) = {queues[delta][i] : i \in 1 .. Len(queues[delta])}
             /\ QueueInOrder(queues[delta], now)
                  => QueueInOrder(PurgeAll(queues)[delta], now)
  <2>1. queues[delta] \in Seq(Packet) /\ PurgeAll(queues)[delta] = Purge(queues[delta], now)
    BY DEF QueuesType, PurgeAll
  <2> QED
    BY <2>1, PurgeContents, PurgeKeepsOrder, SetOfSeq
<1>2. WaitingIn(PurgeAll(queues)) = {packet \in WaitingIn(queues) : ~IsExpired(packet, now)}
  BY <1>1 DEF WaitingIn
<1>3. ASSUME NEW id \in Id
      PROVE  id \in ExpiredIds(queues) <=>
               \E packet \in WaitingIn(queues) : packet.id = id /\ IsExpired(packet, now)
  <2>1. ASSUME id \in ExpiredIds(queues)
        PROVE  \E packet \in WaitingIn(queues) : packet.id = id /\ IsExpired(packet, now)
    <3>1. PICK delta \in Delta : \E i \in 1 .. Len(queues[delta]) :
            queues[delta][i].id = id /\ IsExpired(queues[delta][i], now)
      BY <2>1 DEF ExpiredIds
    <3>2. PICK i \in 1 .. Len(queues[delta]) :
            queues[delta][i].id = id /\ IsExpired(queues[delta][i], now)
      BY <3>1
    <3>3. queues[delta][i] \in WaitingIn(queues)
      BY <1>1 DEF WaitingIn
    <3> QED
      BY <3>2, <3>3
  <2>2. ASSUME NEW packet \in WaitingIn(queues), packet.id = id, IsExpired(packet, now)
        PROVE  id \in ExpiredIds(queues)
    <3>1. PICK delta \in Delta : packet \in ToSet(queues[delta])
      BY DEF WaitingIn
    <3>2. PICK i \in 1 .. Len(queues[delta]) : packet = queues[delta][i]
      BY <1>1, <3>1
    <3> QED
      BY <2>2, <3>2 DEF ExpiredIds
  <2> QED
    BY <2>1, <2>2
<1> QED
  BY <1>1, <1>2, <1>3 DEF InOrderByClass

FatesAfterPurge(queues, fates) ==
  [id \in Id |-> IF id \in ExpiredIds(queues) THEN "expired" ELSE fates[id]]

LEMMA PurgeKeepsApart ==
  ASSUME now \in Nat, NEW queues \in QueuesType, NEW fates, KeptApart(queues, fates)
  PROVE  KeptApart(PurgeAll(queues), FatesAfterPurge(queues, fates))
<1> DEFINE left == PurgeAll(queues)
           after == FatesAfterPurge(queues, fates)
<1>1. \A delta \in Delta : Distinct(left[delta])
  <2> TAKE delta \in Delta
  <2>1. /\ queues[delta] \in Seq(Packet) /\ Distinct(queues[delta])
        /\ left[delta] = Purge(queues[delta], now)
    BY DEF QueuesType, PurgeAll, KeptApart
  <2> QED
    BY <2>1, PurgeContents
<1>2. /\ \A delta \in Delta : ToSet(left[delta])
           = {packet \in ToSet(queues[delta]) : ~IsExpired(packet, now)}
      /\ WaitingIn(left) = {packet \in WaitingIn(queues) : ~IsExpired(packet, now)}
      /\ \A id \in Id : id \in ExpiredIds(queues) <=>
           \E packet \in WaitingIn(queues) : packet.id = id /\ IsExpired(packet, now)
  BY PurgeAllContents
<1>3. \A id \in Id : after[id] = IF id \in ExpiredIds(queues) THEN "expired" ELSE fates[id]
  BY DEF FatesAfterPurge
<1>4. WaitingIn(queues) \subseteq Packet
      /\ \A delta \in Delta : ToSet(queues[delta]) \subseteq WaitingIn(queues)
  BY WaitingPackets
<1> HIDE DEF left, after
<1>5. ASSUME NEW delta \in Delta, NEW packet \in ToSet(left[delta])
      PROVE  packet.slo.delta = delta /\ after[packet.id] = "queued"
  <2>1. /\ packet \in ToSet(queues[delta]) /\ packet \in WaitingIn(queues)
        /\ ~IsExpired(packet, now) /\ packet.id \in Id
    BY <1>2, <1>4, PacketTypes
  <2>2. packet.id \notin ExpiredIds(queues)
    BY <1>2, <2>1 DEF KeptApart
  <2> QED
    BY <1>3, <2>1, <2>2 DEF KeptApart
<1>6. ASSUME NEW id \in Id, after[id] = "queued"
      PROVE  \E packet \in WaitingIn(left) : packet.id = id
  <2>1. id \notin ExpiredIds(queues) /\ fates[id] = "queued"
    BY <1>3, <1>6
  <2> QED
    BY <1>2, <2>1 DEF KeptApart
<1>7. \A p, q \in WaitingIn(left) : p.id = q.id => p = q
  BY <1>2 DEF KeptApart
<1> QED
  BY <1>1, <1>5, <1>6, <1>7 DEF KeptApart, left, after

(***************************************************************************)
(* What a push does: the packet joins the others, and at most one of all   *)
(* is dropped, whose fate is "overflow".                                   *)
(***************************************************************************)
FatesAfterPush(packet) ==
  [id \in Id |-> IF id \in Overflow(packet) THEN "overflow"
                 ELSE [fate EXCEPT ![packet.id] = "queued"][id]]

LEMMA PushedContents ==
  ASSUME now \in Nat, collections \in QueuesType, fate \in [Id -> Fates],
         KeptApart(collections, fate), NEW packet \in Packet, fate[packet.id] = "new"
  PROVE  LET all == WaitingIn(collections) \cup {packet}
         IN  /\ KeptApart(Pushed(packet), FatesAfterPush(packet))
             /\ InOrderByClass(collections, now) => InOrderByClass(Pushed(packet), now)
             /\ \E dropped \in {{}} \cup {{victim} : victim \in all} :
                  /\ PacketCapacity = -1 => dropped = {}
                  /\ WaitingIn(Pushed(packet)) = all \ dropped
                  /\ \A id \in Id : id \in Overflow(packet) <=>
                       \E victim \in dropped : victim.id = id
                  /\ \A p, q \in all : p.id = q.id => p = q
<1> DEFINE all == WaitingIn(collections) \cup {packet}
           class == packet.slo.delta
           queue == collections[class]
           pushed == PushPacket(queue, packet, now)
           queues == Pushed(packet)
           after == FatesAfterPush(packet)
           dropped == (ToSet(queue) \cup {packet}) \ ToSet(pushed)
<1>1. class \in Delta /\ packet.id \in Id /\ queue \in Seq(Packet)
  BY PacketTypes DEF QueuesType
<1>2. /\ queues \in QueuesType
      /\ \A delta \in Delta : queues[delta] = IF delta = class THEN pushed
                                                             ELSE collections[delta]
  BY PushedProperties
<1>3. /\ WaitingIn(collections) \subseteq Packet
      /\ \A delta \in Delta : ToSet(collections[delta]) \subseteq WaitingIn(collections)
      /\ \A p \in WaitingIn(collections) : p.id \in Id /\ p.id # packet.id
  BY WaitingPackets, PacketTypes, WaitingInItsClass
<1>4. \A p, q \in all : p.id = q.id => p = q
  BY <1>3 DEF KeptApart
<1>5. /\ ToSet(pushed) \subseteq ToSet(queue) \cup {packet}
      /\ \E victim \in ToSet(queue) \cup {packet} : dropped \subseteq {victim}
      /\ PacketCapacity = -1 => dropped = {}
      /\ Distinct(pushed)
      /\ QueueInOrder(queue, now) => QueueInOrder(pushed, now)
  <2>1. Distinct(queue) /\ \A other \in ToSet(queue) : other.id # packet.id
    BY <1>1, <1>3 DEF KeptApart
  <2> HIDE DEF queue
  <2> QED
    BY <1>1, <2>1, PushContents, PushPacketKeepsOrder
<1>6. \A id \in Id : id \in Overflow(packet) <=> \E victim \in dropped : victim.id = id
  <2>1. queues[class] = pushed
    BY <1>1, <1>2
  <2>2. ASSUME NEW id \in Id
        PROVE  id \in Overflow(packet) <=>
                 /\ \E other \in ToSet(queue) \cup {packet} : other.id = id
                 /\ \A other \in ToSet(pushed) : other.id # id
    BY <2>1 DEF Overflow
  <2>3. ToSet(queue) \cup {packet} \subseteq all
    BY <1>1, <1>3
  <2> HIDE DEF all, queue, pushed
  <2> QED
    BY <1>4, <1>5, <2>2, <2>3
<1>7. /\ dropped \in {{}} \cup {{victim} : victim \in all}
      /\ dropped \subseteq all
  BY <1>1, <1>3, <1>5
<1>8. \A delta \in Delta \ {class} : \A p \in ToSet(collections[delta]) : p \notin dropped
  BY <1>1, <1>3 DEF KeptApart
<1> HIDE DEF queues, class
<1>9. WaitingIn(queues) = all \ dropped
  <2>1. ASSUME NEW p \in WaitingIn(queues)
        PROVE  p \in all \ dropped
    <3>1. PICK delta \in Delta : p \in ToSet(queues[delta])
      BY <1>2, WaitingPackets
    <3>2. CASE delta = class
      BY <1>2, <1>3, <1>5, <3>1, <3>2
    <3>3. CASE delta # class
      BY <1>2, <1>3, <1>8, <3>1, <3>3
    <3> QED
      BY <3>2, <3>3
  <2>2. ASSUME NEW p \in all \ dropped
        PROVE  p \in WaitingIn(queues)
    <3>1. CASE p \in ToSet(queue) \cup {packet}
      <4>1. p \in ToSet(queues[class])
        BY <1>1, <1>2, <2>2, <3>1
      <4> QED
        BY <1>1, <1>2, <4>1, WaitingPackets
    <3>2. CASE p \notin ToSet(queue) \cup {packet}
      <4>1. PICK delta \in Delta : p \in ToSet(collections[delta])
        BY <2>2, <3>2, WaitingPackets
      <4>2. queues[delta] = collections[delta]
        BY <1>2, <3>2, <4>1
      <4> QED
        BY <1>2, <4>1, <4>2, WaitingPackets
    <3> QED
      BY <3>1, <3>2
  <2> QED
    BY <2>1, <2>2
<1>10. \A id \in Id : after[id] = IF id \in Overflow(packet) THEN "overflow"
                                  ELSE IF id = packet.id THEN "queued" ELSE fate[id]
  BY <1>1 DEF FatesAfterPush
<1> HIDE DEF pushed, after
<1>11. KeptApart(queues, after)
  <2>1. \A delta \in Delta : Distinct(queues[delta])
    BY <1>2, <1>5 DEF KeptApart
  <2>2. ASSUME NEW delta \in Delta, NEW p \in ToSet(queues[delta])
        PROVE  p.slo.delta = delta /\ after[p.id] = "queued"
    <3>1. p \in all \ dropped
      BY <1>2, <1>9, WaitingPackets
    <3>2. p.id \in Id /\ p.id \notin Overflow(packet)
      BY <1>1, <1>3, <1>4, <1>6, <1>7, <3>1
    <3>3. after[p.id] = "queued"
      BY <1>3, <1>10, <3>1, <3>2, WaitingInItsClass
    <3>4. p.slo.delta = delta
      <4>1. CASE delta = class
        BY <1>1, <1>2, <1>5, <4>1 DEF KeptApart, class
      <4>2. CASE delta # class
        BY <1>2, <4>2 DEF KeptApart
      <4> QED
        BY <4>1, <4>2
    <3> QED
      BY <3>3, <3>4
  <2>3. ASSUME NEW id \in Id, after[id] = "queued"
        PROVE  \E p \in WaitingIn(queues) : p.id = id
    <3>1. id \notin Overflow(packet) /\ (id = packet.id \/ fate[id] = "queued")
      BY <1>10, <2>3
    <3>2. \E p \in all : p.id = id
      BY <3>1 DEF KeptApart
    <3> QED
      BY <1>6, <1>9, <3>1, <3>2
  <2>4. \A p, q \in WaitingIn(queues) : p.id = q.id => p = q
    BY <1>4, <1>9
  <2> QED
    BY <2>1, <2>2, <2>3, <2>4 DEF KeptApart
<1>12. InOrderByClass(collections, now) => InOrderByClass(queues, now)
  BY <1>1, <1>2, <1>5 DEF InOrderByClass
<1> QED
  BY <1>4, <1>5, <1>6, <1>7, <1>9, <1>11, <1>12 DEF queues, after

(* What is left of the queues when a packet is taken out and sent.         *)
LEMMA TakenOut ==
  ASSUME collections \in QueuesType, fate \in [Id -> Fates],
         KeptApart(collections, fate),
         NEW delta \in Delta, NEW packet \in ToSet(collections[delta]),
         NEW rest \in Seq(Packet), Distinct(rest),
         ToSet(rest) = ToSet(collections[delta]) \ {packet}
  PROVE  LET queues == [collections EXCEPT ![delta] = rest]
         IN  /\ KeptApart(queues, [fate EXCEPT ![packet.id] = "sent"])
             /\ WaitingIn(queues) = WaitingIn(collections) \ {packet}
<1> DEFINE queues == [collections EXCEPT ![delta] = rest]
           after == [fate EXCEPT ![packet.id] = "sent"]
<1>1. /\ queues \in QueuesType
      /\ \A d \in Delta : queues[d] = IF d = delta THEN rest ELSE collections[d]
  BY DEF QueuesType
<1>2. /\ WaitingIn(collections) \subseteq Packet
      /\ \A d \in Delta : ToSet(collections[d]) \subseteq WaitingIn(collections)
      /\ packet \in Packet /\ packet.id \in Id
  BY WaitingPackets, PacketTypes
<1>3. \A id \in Id : after[id] = IF id = packet.id THEN "sent" ELSE fate[id]
  BY <1>2
<1> HIDE DEF queues, after
<1>4. /\ \A d \in Delta : ToSet(queues[d]) \subseteq WaitingIn(queues)
      /\ \A p \in WaitingIn(queues) : \E d \in Delta : p \in ToSet(queues[d])
  BY <1>1, WaitingPackets
<1>5. \A d \in Delta : ToSet(queues[d]) = ToSet(collections[d]) \ {packet}
  BY <1>1 DEF KeptApart
<1>6. WaitingIn(queues) = WaitingIn(collections) \ {packet}
  <2>1. ASSUME NEW p
        PROVE  p \in WaitingIn(queues) <=> p \in WaitingIn(collections) \ {packet}
    <3>1. /\ p \in WaitingIn(queues) <=> \E d \in Delta : p \in ToSet(queues[d])
          /\ p \in WaitingIn(collections) <=> \E d \in Delta : p \in ToSet(collections[d])
      BY DEF WaitingIn
    <3> QED
      BY <1>5, <3>1
  <2> QED
    BY <2>1
<1>7. KeptApart(queues, after)
  <2>1. \A d \in Delta : Distinct(queues[d])
    BY <1>1 DEF KeptApart
  <2>2. ASSUME NEW d \in Delta, NEW p \in ToSet(queues[d])
        PROVE  p.slo.delta = d /\ after[p.id] = "queued"
    <3>1. p \in ToSet(collections[d]) /\ p \in WaitingIn(collections) /\ p # packet
      BY <1>2, <1>5
    <3>2. p.id # packet.id /\ p.id \in Id
      BY <1>2, <3>1, PacketTypes DEF KeptApart
    <3> QED
      BY <1>3, <3>1, <3>2 DEF KeptApart
  <2>3. ASSUME NEW id \in Id, after[id] = "queued"
        PROVE  \E p \in WaitingIn(queues) : p.id = id
    <3>1. id # packet.id /\ fate[id] = "queued"
      BY <1>3, <2>3
    <3> QED
      BY <1>6, <3>1 DEF KeptApart
  <2>4. \A p, q \in WaitingIn(queues) : p.id = q.id => p = q
    BY <1>6 DEF KeptApart
  <2> QED
    BY <2>1, <2>2, <2>3, <2>4 DEF KeptApart
<1> QED
  BY <1>6, <1>7 DEF queues, after

(* Kept apart, every packet has the one place PacketsAccounted gives it.   *)
LEMMA PlacesOfPacket ==
  ASSUME collections \in QueuesType, KeptApart(collections, fate), NEW id \in Id
  PROVE  /\ Cardinality(Places(id)) = IF fate[id] = "queued" THEN 1 ELSE 0
         /\ \A place \in Places(id) :
              collections[place[1]][place[2]].slo.delta = place[1]
<1>1. \A d \in Delta :
        ToSet(collections[d]) = {collections[d][i] : i \in 1 .. Len(collections[d])}
  BY SetOfSeq DEF QueuesType
<1>2. \A d \in Delta : ToSet(collections[d]) \subseteq WaitingIn(collections)
  BY WaitingPackets
<1>3. ASSUME NEW place \in Places(id)
      PROVE  \E d \in Delta : \E i \in 1 .. Len(collections[d]) :
               /\ place = <<d, i>> /\ place[1] = d /\ place[2] = i
               /\ collections[d][i].id = id
               /\ collections[d][i] \in ToSet(collections[d])
  <2>1. PICK d \in Delta : place \in {d} \X (1 .. Len(collections[d]))
    BY DEF Places
  <2>2. /\ place = <<d, place[2]>> /\ place[2] \in 1 .. Len(collections[d])
        /\ collections[place[1]][place[2]].id = id
    BY <2>1 DEF Places
  <2>3. place[1] = d
    BY <2>2
  <2>4. /\ collections[d][place[2]].id = id
        /\ collections[d][place[2]] \in ToSet(collections[d])
    BY <1>1, <2>2, <2>3
  <2> QED
    BY <2>2, <2>3, <2>4
<1>4. \A place \in Places(id) : collections[place[1]][place[2]].slo.delta = place[1]
  BY <1>3 DEF KeptApart
<1>5. CASE fate[id] = "queued"
  <2>1. PICK p \in WaitingIn(collections) : p.id = id
    BY <1>5 DEF KeptApart
  <2>2. PICK d \in Delta : p \in ToSet(collections[d])
    BY WaitingPackets
  <2>3. PICK i \in 1 .. Len(collections[d]) : p = collections[d][i]
    BY <1>1, <2>2
  <2>4. <<d, i>> \in Places(id)
    BY <2>1, <2>2, <2>3 DEF Places
  <2>5. ASSUME NEW place \in Places(id)
        PROVE  place = <<d, i>>
    <3>0. PICK e \in Delta : \E j \in 1 .. Len(collections[e]) :
            /\ place = <<e, j>> /\ collections[e][j].id = id
            /\ collections[e][j] \in ToSet(collections[e])
      BY <1>3
    <3>1. PICK j \in 1 .. Len(collections[e]) :
            /\ place = <<e, j>> /\ collections[e][j].id = id
            /\ collections[e][j] \in ToSet(collections[e])
      BY <3>0
    <3>2. collections[e][j] = p
      BY <1>2, <2>1, <3>1 DEF KeptApart
    <3>3. e = d
      BY <2>2, <3>1, <3>2 DEF KeptApart
    <3>4. j = i
      BY <2>3, <3>2, <3>3 DEF KeptApart, Distinct
    <3> QED
      BY <3>1, <3>3, <3>4
  <2>6. Places(id) = {<<d, i>>}
    BY <2>4, <2>5
  <2> QED
    BY <1>4, <1>5, <2>6, FS_Singleton
<1>6. CASE fate[id] # "queued"
  <2>1. Places(id) = {}
    BY <1>3, <1>6 DEF KeptApart
  <2> QED
    BY <1>6, <2>1, FS_EmptySet
<1> QED
  BY <1>5, <1>6

(***************************************************************************)
(* Every handler keeps the packets apart and the queues in order, so every *)
(* packet is in exactly one place.                                         *)
(***************************************************************************)
WellKept == KeptApart(collections, fate) /\ InOrderByClass(collections, now)

LEMMA InitWellKept == Init => WellKept
<1> SUFFICES ASSUME Init PROVE WellKept
  OBVIOUS
<1>1. \A delta \in Delta : collections[delta] = <<>> /\ Len(collections[delta]) = 0
  BY DEF Init
<1>2. WaitingIn(collections) = {}
  <2>1. ToSet(<<>>) = {}
    BY DEF ToSet
  <2> QED
    BY <1>1, <2>1 DEF WaitingIn
<1>3. \A delta \in Delta : ToSet(collections[delta]) = {}
  BY <1>2 DEF WaitingIn
<1>4. \A id \in Id : fate[id] = "new"
  BY DEF Init
<1> QED
  BY <1>1, <1>2, <1>3, <1>4
     DEF WellKept, KeptApart, InOrderByClass, Distinct, QueueInOrder

(* The purge that ends a handler keeps them so. *)
LEMMA PurgeWellKept ==
  ASSUME now \in Nat, now' = now, NEW queues \in QueuesType, NEW fates,
         KeptApart(queues, fates), InOrderByClass(queues, now),
         collections' = PurgeAll(queues), fate' = FatesAfterPurge(queues, fates)
  PROVE  WellKept'
  BY PurgeKeepsApart, PurgeAllContents DEF WellKept

(* A packet that is sent leaves the rest of its queue as it was. *)
LEMMA SendWellKept ==
  ASSUME now \in Nat, now' = now, collections \in QueuesType, fate \in [Id -> Fates],
         WellKept, NEW delta \in Delta, NEW packet \in ToSet(collections[delta]),
         NEW rest \in Seq(Packet), Distinct(rest),
         ToSet(rest) = ToSet(collections[delta]) \ {packet}, QueueInOrder(rest, now),
         collections' = [collections EXCEPT ![delta] = rest],
         fate' = [fate EXCEPT ![packet.id] = "sent"]
  PROVE  WellKept'
<1>1. KeptApart(collections, fate)'
  BY TakenOut DEF WellKept
<1>2. \A d \in Delta : collections'[d] = IF d = delta THEN rest ELSE collections[d]
  BY DEF QueuesType
<1> QED
  BY <1>1, <1>2 DEF WellKept, InOrderByClass

LEMMA WellKeptInTime ==
  ASSUME now \in Nat, now' \in Nat, now <= now', collections \in QueuesType,
         collections' = collections, fate' = fate, WellKept
  PROVE  WellKept'
  BY OrderInTime DEF WellKept, InOrderByClass, QueuesType

LEMMA NextWellKept == ASSUME IInv, WellKept, [Next]_vars PROVE WellKept'
<1>1. now \in Nat /\ collections \in QueuesType /\ fate \in [Id -> Fates]
  BY DEF IInv, TypeOK, QueuesType
<1>2. ASSUME NEW id \in Id, NEW slo \in Profile, NEW lag \in 0 .. MaxLag,
             HandleMessage(id, slo, lag)
      PROVE  WellKept'
  <2> DEFINE packet == [id |-> id, slo |-> slo, tRcv |-> now - lag]
  <2>1. packet \in Packet /\ fate[packet.id] = "new" /\ now' = now /\ packet.id = id
    BY <1>1, <1>2, ArrivingPacket DEF HandleMessage
  <2>2. /\ collections' = PurgeAll(Pushed(packet))
        /\ fate' = FatesAfterPurge(Pushed(packet), FatesAfterPush(packet))
    BY <1>2 DEF HandleMessage, Dispatch, FatesAfterPurge, FatesAfterPush
  <2> HIDE DEF packet
  <2>3. /\ Pushed(packet) \in QueuesType
        /\ KeptApart(Pushed(packet), FatesAfterPush(packet))
        /\ InOrderByClass(Pushed(packet), now)
    BY <1>1, <2>1, PushedProperties, PushedContents DEF WellKept
  <2> QED
    BY <1>1, <2>1, <2>2, <2>3, PurgeWellKept
<1>3. CASE HandleSelfMsg
  <2> DEFINE delta == selfMsg.collectionIdx
             queue == collections[delta]
  <2>1. delta \in Delta /\ queue \in Seq(Packet) /\ queue # <<>>
    BY <1>3 DEF HandleSelfMsg, IInv, TypeOK, MessageForSendableFront, Msg, NoMsg
  <2>2. SendFault = "none"
    BY <1>3 DEF HandleSelfMsg, IInv, MessageForSendableFront, SendFault
  <2>3. /\ collections' = [collections EXCEPT ![delta] = Tail(queue)]
        /\ fate' = [fate EXCEPT ![Head(queue).id] = "sent"] /\ now' = now
    BY <1>3, <2>2 DEF HandleSelfMsg
  <2>4. Distinct(queue) /\ QueueInOrder(queue, now)
    BY <2>1 DEF WellKept, KeptApart, InOrderByClass
  <2> HIDE DEF delta
  <2>5. /\ Tail(queue) \in Seq(Packet) /\ Distinct(Tail(queue))
        /\ ToSet(Tail(queue)) = ToSet(queue) \ {Head(queue)}
        /\ QueueInOrder(Tail(queue), now) /\ Head(queue) \in ToSet(queue)
    <3> HIDE DEF queue
    <3> QED
      BY <1>1, <2>1, <2>4, TailContents, TailKeepsOrder, SetOfSeq
  <2> QED
    BY <1>1, <2>1, <2>3, <2>5, SendWellKept
<1>4. CASE ReceiveSignal
  <2>1. txIdleCounter = 0
    BY <1>4 DEF ReceiveSignal, IInv, CounterFollowsMac
  <2>2. Dispatch(collections, fate, TRUE) /\ now' = now
    BY <1>4, <2>1, Zenon DEF ReceiveSignal
  <2>3. collections' = PurgeAll(collections) /\ fate' = FatesAfterPurge(collections, fate)
    BY <2>2 DEF Dispatch, FatesAfterPurge
  <2> QED
    BY <1>1, <2>2, <2>3, PurgeWellKept DEF WellKept
<1>5. CASE Tick
  <2>1. now' = now + 1 /\ collections' = collections /\ fate' = fate
    BY <1>5 DEF Tick
  <2>2. now' \in Nat /\ now <= now'
    BY <1>1, <2>1
  <2> QED
    BY <1>1, <2>1, <2>2, WellKeptInTime
<1>6. CASE UNCHANGED vars
  BY <1>6 DEF vars, WellKept
<1> QED
  BY <1>2, <1>3, <1>4, <1>5, <1>6 DEF Next

(* At all times identities are apart, a packet is where its fate says, and *)
(* every queue is in order.                                                *)
THEOREM AlwaysWellKept == Spec => [](IInv /\ WellKept)
<1>1. IInv /\ WellKept /\ [Next]_vars => WellKept'
  BY NextWellKept
<1> QED
  BY InitWellKept, <1>1, InductiveInvariant, PTL DEF Spec

(* Every packet is in exactly one place: queued once, or gone.             *)
THEOREM EveryPacketAccounted == Spec => []PacketsAccounted
<1>1. IInv /\ WellKept => PacketsAccounted
  BY PlacesOfPacket DEF IInv, TypeOK, QueuesType, WellKept, PacketsAccounted
<1> QED
  BY <1>1, AlwaysWellKept, PTL

-----------------------------------------------------------------------------
(***************************************************************************)
(* The class that is served.  The scheduler looks at the fronts only; as a *)
(* queue is in order, its front is ready if any of its packets is.         *)
(***************************************************************************)
LEMMA ReadyClass ==
  ASSUME now \in Nat, NEW queues \in QueuesType, InOrderByClass(queues, now),
         NEW delta \in Delta, HasReady(queues, delta)
  PROVE  delta \in ReadyToSend(queues)
<1> DEFINE queue == queues[delta]
<1>1. queue \in Seq(Packet) /\ QueueInOrder(queue, now)
  BY DEF QueuesType, InOrderByClass
<1>2. PICK i \in 1 .. Len(queue) : IsPacketReadyToSend(queue[i], now)
  BY DEF HasReady
<1> HIDE DEF queue
<1>3. queue # <<>> /\ Head(queue) = queue[1] /\ 1 \in 1 .. Len(queue)
  BY <1>1, <1>2
<1>4. IsPacketReadyToSend(queue[1], now)
  <2>1. ReadyPacketsFirst(queue, now)
    BY <1>1, OrderGivesReadyPrefix
  <2>2. CASE i = 1
    BY <1>2, <2>2
  <2>3. CASE 1 < i
    BY <1>2, <1>3, <2>1, <2>3 DEF ReadyPacketsFirst
  <2> QED
    BY <1>2, <2>2, <2>3
<1> QED
  BY <1>3, <1>4 DEF ReadyToSend, Backlogged, queue

LEMMA LeastReadyClass ==
  ASSUME NEW queues, ReadyToSend(queues) # {}
  PROVE  /\ Min(ReadyToSend(queues)) \in ReadyToSend(queues)
         /\ \A delta \in ReadyToSend(queues) : Min(ReadyToSend(queues)) <= delta
<1>1. ReadyToSend(queues) \in SUBSET Nat
  BY DeltaAssumption DEF ReadyToSend, Backlogged
<1> QED
  BY <1>1, MinOfNaturals

LEMMA DispatchArmsHighest ==
  ASSUME now \in Nat, NEW queues \in QueuesType, InOrderByClass(queues, now),
         NEW fates, NEW idle, Dispatch(queues, fates, idle)
  PROVE  ArmsHighestReady
<1> DEFINE left == PurgeAll(queues)
<1> SUFFICES ASSUME selfMsg' # selfMsg, selfMsg'.state = "scheduled",
                    NEW delta \in Delta, HasReady(collections', delta)
             PROVE  selfMsg'.at = now /\ selfMsg'.collectionIdx <= delta
  BY DEF ArmsHighestReady
<1>1. selfMsg' = NewMsg(left)
  <2>1. AfterPurge(queues).state = "scheduled" => AfterPurge(queues) = selfMsg
    BY DEF AfterPurge
  <2> QED
    BY <2>1 DEF Dispatch
<1>2. left \in QueuesType /\ InOrderByClass(left, now) /\ collections' = left
  BY PurgeAllProperties, PurgeAllContents DEF Dispatch
<1> HIDE DEF left
<1>3. delta \in ReadyToSend(left)
  BY <1>2, ReadyClass
<1> DEFINE class == Min(ReadyToSend(left))
           front == Head(left[class])
<1>4. class \in ReadyToSend(left) /\ class <= delta
  BY <1>3, LeastReadyClass
<1>5. NewMsg(left) = [state |-> "scheduled", collectionIdx |-> class,
                      at |-> ScheduleTime(front)]
  BY <1>3 DEF NewMsg, DetermineCollection
<1>6. front \in Packet /\ IsPacketReadyToSend(front, now)
  <2> HIDE DEF class
  <2>1. class \in Delta /\ left[class] \in Seq(Packet) /\ left[class] # <<>>
    BY <1>2, <1>4 DEF ReadyToSend, Backlogged, QueuesType
  <2>2. IsPacketReadyToSend(front, now)
    BY <1>4 DEF ReadyToSend
  <2> QED
    BY <2>1, <2>2
<1> HIDE DEF front, class
<1>7. ScheduleTime(front) = now
  BY <1>6, PacketTypes DEF ScheduleTime, IsPacketReadyToSend
<1> QED
  BY <1>1, <1>4, <1>5, <1>7

LEMMA NextArmsHighest == ASSUME IInv, WellKept, [Next]_vars PROVE [ArmsHighestReady]_vars
<1>1. now \in Nat /\ collections \in QueuesType /\ fate \in [Id -> Fates]
  BY DEF IInv, TypeOK, QueuesType
<1>2. ASSUME NEW id \in Id, NEW slo \in Profile, NEW lag \in 0 .. MaxLag,
             HandleMessage(id, slo, lag)
      PROVE  ArmsHighestReady
  <2> DEFINE packet == [id |-> id, slo |-> slo, tRcv |-> now - lag]
  <2>1. packet \in Packet /\ fate[packet.id] = "new"
    BY <1>1, <1>2, ArrivingPacket DEF HandleMessage
  <2>2. PICK fates, idle : Dispatch(Pushed(packet), fates, idle)
    BY <1>2 DEF HandleMessage
  <2> HIDE DEF packet
  <2>3. Pushed(packet) \in QueuesType /\ InOrderByClass(Pushed(packet), now)
    BY <1>1, <2>1, PushedProperties, PushedContents DEF WellKept
  <2> QED
    BY <1>1, <2>2, <2>3, DispatchArmsHighest
<1>3. CASE HandleSelfMsg
  BY <1>3 DEF HandleSelfMsg, NoMsg, ArmsHighestReady
<1>4. CASE ReceiveSignal
  <2>1. txIdleCounter = 0
    BY <1>4 DEF ReceiveSignal, IInv, CounterFollowsMac
  <2>2. Dispatch(collections, fate, TRUE)
    BY <1>4, <2>1, Zenon DEF ReceiveSignal
  <2> QED
    BY <1>1, <2>2, DispatchArmsHighest DEF WellKept
<1>5. CASE Tick
  BY <1>5 DEF Tick, ArmsHighestReady
<1> QED
  BY <1>2, <1>3, <1>4, <1>5 DEF Next

(* A message armed while some packet may be sent is due at once, and for   *)
(* the class of highest priority that has such a packet.                   *)
THEOREM ArmsHighestPriority == Spec => HighestReadyArmed
<1>1. IInv /\ WellKept /\ [Next]_vars => [ArmsHighestReady]_vars
  BY NextArmsHighest
<1> QED
  BY <1>1, AlwaysWellKept, PTL DEF Spec, HighestReadyArmed

-----------------------------------------------------------------------------
(***************************************************************************)
(* The refinement: each handler is a step of TimedEgress.  The lemmas that *)
(* speak of collections' and fate' alone hold for either scheduler.        *)
(***************************************************************************)
LEMMA SameWindows ==
  ASSUME NEW packet, NEW time
  PROVE  /\ Egress!IsExpired(packet, time) <=> IsExpired(packet, time)
         /\ Egress!IsPacketReadyToSend(packet, time) <=> IsPacketReadyToSend(packet, time)
  BY DEF Egress!IsExpired, IsExpired, Egress!IsPacketReadyToSend, IsPacketReadyToSend,
         Egress!IsDBFPacket, IsDBFPacket, Egress!HasInfiniteDmax, HasInfiniteDmax,
         Egress!TMin, TMin, Egress!TMax, TMax

LEMMA WaitingIsWaitingIn ==
  Waiting = WaitingIn(collections) /\ Waiting' = WaitingIn(collections')
  BY DEF Waiting, WaitingIn

LEMMA InitRefined == Init => Egress!Init
<1> SUFFICES ASSUME Init PROVE Egress!Init
  OBVIOUS
<1>1. Waiting = {}
  <2>1. ToSet(<<>>) = {}
    BY DEF ToSet
  <2> QED
    BY <2>1 DEF Init, Waiting
<1> QED
  BY <1>1 DEF Init, Egress!Init

(* A packet that is pushed, and the purge that follows, is an Accept.      *)
LEMMA AcceptRefined ==
  ASSUME now \in Nat, now' = now, mac' = mac, onWire' = onWire,
         collections \in QueuesType, fate \in [Id -> Fates],
         KeptApart(collections, fate),
         NEW id \in Id, NEW slo \in Profile, NEW lag \in 0 .. MaxLag,
         lag <= now, fate[id] = "new",
         NEW packet, packet = [id |-> id, slo |-> slo, tRcv |-> now - lag],
         collections' = PurgeAll(Pushed(packet)),
         fate' = FatesAfterPurge(Pushed(packet), FatesAfterPush(packet))
  PROVE  Egress!Accept(id, slo, lag)
<1> DEFINE all == Waiting \cup {packet}
           queues == Pushed(packet)
<1>1. packet \in Packet /\ packet.id = id
  BY ArrivingPacket
<1>2. PICK dropped \in {{}} \cup {{victim} : victim \in all} :
        /\ PacketCapacity = -1 => dropped = {}
        /\ WaitingIn(queues) = all \ dropped
        /\ \A i \in Id : i \in Overflow(packet) <=> \E victim \in dropped : victim.id = i
        /\ \A p, q \in all : p.id = q.id => p = q
  <2>1. Waiting = WaitingIn(collections)
    BY WaitingIsWaitingIn
  <2>2. packet \in Packet /\ fate[packet.id] = "new"
    BY <1>1
  <2> DEFINE every == WaitingIn(collections) \cup {packet}
  <2>3. \E dropped \in {{}} \cup {{victim} : victim \in every} :
          /\ PacketCapacity = -1 => dropped = {}
          /\ WaitingIn(Pushed(packet)) = every \ dropped
          /\ \A i \in Id : i \in Overflow(packet) <=> \E victim \in dropped : victim.id = i
          /\ \A p, q \in every : p.id = q.id => p = q
    BY <2>2, PushedContents, Zenon
  <2>4. all = every
    BY <2>1
  <2> HIDE DEF all, every
  <2> QED
    BY <2>3, <2>4
<1>3. queues \in QueuesType
  BY <1>1, PushedProperties
<1> HIDE DEF queues
<1>4. /\ WaitingIn(PurgeAll(queues)) = {p \in WaitingIn(queues) : ~IsExpired(p, now)}
      /\ \A i \in Id : i \in ExpiredIds(queues) <=>
           \E p \in WaitingIn(queues) : p.id = i /\ IsExpired(p, now)
  BY <1>3, PurgeAllContents
<1>5. Waiting' = Egress!Unexpired(all \ dropped)
  <2>1. Waiting' = {p \in all \ dropped : ~IsExpired(p, now)}
    BY <1>2, <1>4, WaitingIsWaitingIn DEF queues
  <2> QED
    BY <2>1, SameWindows DEF Egress!Unexpired
<1>6. fate' = Egress!Discarding([fate EXCEPT ![id] = "queued"],
                                all \ Egress!Unexpired(all), dropped)
  <2>1. all \ Egress!Unexpired(all) = {p \in all : IsExpired(p, now)}
    BY SameWindows DEF Egress!Unexpired
  <2>2. fate' = [i \in Id |->
                   IF i \in ExpiredIds(queues) THEN "expired"
                   ELSE IF i \in Overflow(packet) THEN "overflow"
                   ELSE [fate EXCEPT ![id] = "queued"][i]]
    BY <1>1 DEF FatesAfterPurge, FatesAfterPush, queues
  <2>3. ASSUME NEW i \in Id
        PROVE  /\ (\E p \in dropped : p.id = i) => i \notin ExpiredIds(queues)
               /\ ~(\E p \in dropped : p.id = i) =>
                    (i \in ExpiredIds(queues)
                       <=> \E p \in all : p.id = i /\ IsExpired(p, now))
    BY <1>2, <1>4
  <2> HIDE DEF all
  <2> QED
    BY <1>2, <2>1, <2>2, <2>3 DEF Egress!Discarding
<1> QED
  BY <1>2, <1>5, <1>6 DEF Egress!Accept, all

(* The end of a frame, and the purge that follows, is a LinkFree.          *)
LEMMA LinkFreeRefined ==
  ASSUME now \in Nat, now' = now, mac # "idle", mac' = "idle", onWire' = {},
         collections \in QueuesType,
         collections' = PurgeAll(collections),
         fate' = FatesAfterPurge(collections, fate)
  PROVE  Egress!LinkFree
<1>1. /\ Waiting' = {p \in Waiting : ~IsExpired(p, now)}
      /\ \A i \in Id : i \in ExpiredIds(collections) <=>
           \E p \in Waiting : p.id = i /\ IsExpired(p, now)
  BY PurgeAllContents, WaitingIsWaitingIn
<1>2. Waiting' = Egress!Unexpired(Waiting)
  BY <1>1, SameWindows DEF Egress!Unexpired
<1>3. Waiting \ Egress!Unexpired(Waiting) = {p \in Waiting : IsExpired(p, now)}
  BY SameWindows DEF Egress!Unexpired
<1>4. fate' = Egress!Discarding(fate, Waiting \ Egress!Unexpired(Waiting), {})
  BY <1>1, <1>3 DEF FatesAfterPurge, Egress!Discarding
<1> QED
  BY <1>2, <1>4 DEF Egress!LinkFree

(* A packet in its window that is taken out and sent is a Transmit.        *)
LEMMA TransmitRefined ==
  ASSUME now' = now, mac = "idle", mac' = "transmitting",
         collections \in QueuesType, fate \in [Id -> Fates],
         KeptApart(collections, fate),
         NEW delta \in Delta, NEW packet \in ToSet(collections[delta]),
         IsPacketReadyToSend(packet, now), ~IsExpired(packet, now),
         NEW rest \in Seq(Packet), Distinct(rest),
         ToSet(rest) = ToSet(collections[delta]) \ {packet},
         collections' = [collections EXCEPT ![delta] = rest],
         fate' = [fate EXCEPT ![packet.id] = "sent"],
         onWire' = {FrameOf(packet)}
  PROVE  packet \in Waiting /\ Egress!Transmit(packet)
<1>1. packet \in Waiting
  BY WaitingPackets, WaitingIsWaitingIn
<1>2. Waiting' = Waiting \ {packet}
  BY TakenOut, WaitingIsWaitingIn
<1>3. {frame.packet : frame \in onWire'} = {packet}
  BY DEF FrameOf
<1> QED
  BY <1>1, <1>2, <1>3, SameWindows DEF Egress!Transmit

(***************************************************************************)
(* A message that is not due yet waits for the tMin of its packet, so time *)
(* that passes over an idle MAC leaves a packet that may not be sent.      *)
(***************************************************************************)
MessageForTMin ==
  fault = "none" /\ selfMsg.state = "scheduled" /\ selfMsg.at # now =>
    LET front == Head(collections[selfMsg.collectionIdx])
    IN  IsDBFPacket(front) /\ TMin(front) = selfMsg.at

LEMMA DispatchForTMin ==
  ASSUME now \in Nat, now' = now, fault = "none", NEW queues, NEW fates,
         NEW idle \in BOOLEAN, Dispatch(queues, fates, idle),
         ~idle => selfMsg.state # "scheduled",
         selfMsg.state = "scheduled" => Backlogged(PurgeAll(queues)) # {}
  PROVE  MessageForTMin'
<1> SUFFICES ASSUME selfMsg'.state = "scheduled", selfMsg'.at # now
             PROVE  LET front == Head(collections'[selfMsg'.collectionIdx])
                    IN  IsDBFPacket(front) /\ TMin(front) = selfMsg'.at
  BY DEF MessageForTMin
<1>1. collections' = PurgeAll(queues) /\ selfMsg' = NewMsg(PurgeAll(queues))
  <2>1. AfterPurge(queues).state = "scheduled" => selfMsg.state = "scheduled"
    BY DEF AfterPurge
  <2> QED
    BY <2>1 DEF Dispatch
<1> QED
  BY <1>1 DEF NewMsg, ScheduleTime

LEMMA NextForTMin == ASSUME IInv, MessageForTMin, [Next]_vars PROVE MessageForTMin'
<1>1. now \in Nat
  BY DEF IInv, TypeOK
<1>2. ASSUME NEW id \in Id, NEW slo \in Profile, NEW lag \in 0 .. MaxLag,
             HandleMessage(id, slo, lag)
      PROVE  MessageForTMin'
  <2> DEFINE packet == [id |-> id, slo |-> slo, tRcv |-> now - lag]
             idle == txIdleCounter = 1
  <2>1. packet \in Packet /\ now' = now /\ fault = "none"
    BY <1>1, <1>2, ArrivingPacket DEF HandleMessage
  <2>2. PICK fates : Dispatch(Pushed(packet), fates, idle)
    BY <1>2 DEF HandleMessage
  <2> HIDE DEF packet
  <2>3. selfMsg.state = "scheduled" => idle /\ Backlogged(PurgeAll(Pushed(packet))) # {}
    BY <2>1, ArmedClassNotEmptied DEF IInv, MessageForSendableFront
  <2> QED
    BY <1>1, <2>1, <2>2, <2>3, DispatchForTMin
<1>3. CASE HandleSelfMsg
  BY <1>3 DEF HandleSelfMsg, NoMsg, MessageForTMin
<1>4. CASE ReceiveSignal
  <2>1. txIdleCounter = 0 /\ fault = "none" /\ now' = now
    BY <1>4 DEF ReceiveSignal, IInv, CounterFollowsMac
  <2>2. Dispatch(collections, fate, TRUE)
    BY <1>4, <2>1, Zenon DEF ReceiveSignal
  <2>3. selfMsg.state # "scheduled"
    BY <2>1 DEF IInv, MessageForSendableFront
  <2> QED
    BY <1>1, <2>1, <2>2, <2>3, DispatchForTMin
<1>5. CASE Tick
  <2>1. ASSUME selfMsg.state = "scheduled" PROVE selfMsg.at # now
    BY <1>1, <1>5, <2>1 DEF Tick, MessageDue
  <2> QED
    BY <1>5, <2>1 DEF Tick, MessageForTMin
<1>6. CASE UNCHANGED vars
  BY <1>6 DEF vars, MessageForTMin
<1> QED
  BY <1>2, <1>3, <1>4, <1>5, <1>6 DEF Next

LEMMA TickRefined == ASSUME IInv, MessageForTMin, Tick PROVE Egress!Tick
<1>1. /\ fault = "none" /\ ~MessageDue /\ now' = now + 1 /\ now \in Nat
      /\ UNCHANGED <<collections, mac, onWire, fate>>
  BY DEF Tick, IInv, TypeOK
<1>2. ASSUME mac = "idle", Waiting # {}
      PROVE  \E packet \in Waiting : ~IsPacketReadyToSend(packet, now)
  <2> DEFINE delta == selfMsg.collectionIdx
             queue == collections[delta]
             front == Head(queue)
  <2>1. Backlogged(collections) # {}
    <3>1. PICK d \in Delta : ToSet(collections[d]) # {}
      BY <1>2 DEF Waiting
    <3>2. collections[d] # <<>>
      BY <3>1, SetOfSeq DEF IInv, TypeOK
    <3> QED
      BY <3>2 DEF Backlogged
  <2>2. selfMsg.state = "scheduled"
    BY <1>1, <1>2, <2>1 DEF IInv, CounterFollowsMac, ArmedWhenIdle
  <2>3. delta \in Delta /\ selfMsg.at \in Nat
    BY <2>2 DEF IInv, TypeOK, Msg, NoMsg
  <2>4. queue \in Seq(Packet) /\ queue # <<>> /\ now <= selfMsg.at
    BY <1>1, <2>2, <2>3 DEF IInv, TypeOK, MessageForSendableFront
  <2>5. selfMsg.at # now
    BY <1>1, <2>2, <2>3 DEF MessageDue
  <2>6. IsDBFPacket(front) /\ TMin(front) = selfMsg.at
    BY <1>1, <2>2, <2>5 DEF MessageForTMin
  <2>7. ~IsPacketReadyToSend(front, now)
    BY <1>1, <2>3, <2>4, <2>5, <2>6 DEF IsPacketReadyToSend
  <2> HIDE DEF queue, delta
  <2>8. front \in ToSet(queue)
    BY <2>4, SetOfSeq
  <2>9. front \in Waiting
    BY <2>3, <2>8 DEF queue, Waiting
  <2> QED
    BY <2>7, <2>9
<1>3. ~(mac = "idle" /\ Egress!AllReady)
  BY <1>2, SameWindows DEF Egress!AllReady
<1>4. Waiting' = Waiting
  BY <1>1 DEF Waiting
<1> QED
  BY <1>1, <1>3, <1>4 DEF Egress!Tick

LEMMA NextRefined ==
  ASSUME IInv, WellKept, MessageForTMin, [Next]_vars
  PROVE  [Egress!Next]_Egress!vars
<1>1. now \in Nat /\ collections \in QueuesType /\ fate \in [Id -> Fates]
  BY DEF IInv, TypeOK, QueuesType
<1>2. ASSUME NEW id \in Id, NEW slo \in Profile, NEW lag \in 0 .. MaxLag,
             HandleMessage(id, slo, lag)
      PROVE  Egress!Next
  <2> DEFINE packet == [id |-> id, slo |-> slo, tRcv |-> now - lag]
  <2>1. /\ fate[id] = "new" /\ lag <= now /\ packet.id = id
        /\ now' = now /\ mac' = mac /\ onWire' = onWire
        /\ collections' = PurgeAll(Pushed(packet))
        /\ fate' = FatesAfterPurge(Pushed(packet), FatesAfterPush(packet))
    BY <1>2 DEF HandleMessage, Dispatch, FatesAfterPurge, FatesAfterPush
  <2>2. Egress!Accept(id, slo, lag)
    BY <1>1, <2>1, AcceptRefined DEF WellKept
  <2> QED
    BY <2>2 DEF Egress!Next
<1>3. ASSUME HandleSelfMsg PROVE Egress!Next
  <2> DEFINE delta == selfMsg.collectionIdx
             queue == collections[delta]
  <2>0. PICK packet : packet = Head(queue)
    OBVIOUS
  <2>1. /\ fault = "none" /\ selfMsg.state = "scheduled" /\ selfMsg.at = now
        /\ now' = now
    BY <1>3 DEF HandleSelfMsg
  <2>2. /\ delta \in Delta /\ queue \in Seq(Packet) /\ queue # <<>>
        /\ IsPacketReadyToSend(packet, now) /\ ~IsExpired(packet, now)
        /\ txIdleCounter = 1
    BY <2>0, <2>1 DEF IInv, TypeOK, MessageForSendableFront, Msg, NoMsg
  <2>3. mac = "idle"
    BY <2>1, <2>2 DEF IInv, CounterFollowsMac
  <2>4. SendFault = "none"
    BY <2>2 DEF SendFault
  <2>5. /\ mac' = "transmitting" /\ onWire' = {FrameOf(packet)}
        /\ collections' = [collections EXCEPT ![delta] = Tail(queue)]
        /\ fate' = [fate EXCEPT ![packet.id] = "sent"]
    BY <1>3, <2>0, <2>4 DEF HandleSelfMsg
  <2>6. Distinct(queue)
    BY <2>2 DEF WellKept, KeptApart
  <2> HIDE DEF delta
  <2>7. /\ Tail(queue) \in Seq(Packet) /\ Distinct(Tail(queue))
        /\ ToSet(Tail(queue)) = ToSet(queue) \ {packet} /\ packet \in ToSet(queue)
    <3> HIDE DEF queue
    <3> QED
      BY <2>0, <2>2, <2>6, TailContents, SetOfSeq
  <2>8. packet \in Waiting /\ Egress!Transmit(packet)
    BY <1>1, <2>1, <2>2, <2>3, <2>5, <2>7, TransmitRefined DEF WellKept
  <2> QED
    BY <2>8 DEF Egress!Next
<1>4. ASSUME ReceiveSignal PROVE Egress!Next
  <2>1. txIdleCounter = 0
    BY <1>4 DEF ReceiveSignal, IInv, CounterFollowsMac
  <2>2. Dispatch(collections, fate, TRUE)
    BY <1>4, <2>1, Zenon DEF ReceiveSignal
  <2>3. now' = now /\ mac # "idle" /\ mac' = "idle" /\ onWire' = {}
    BY <1>4 DEF ReceiveSignal
  <2>4. collections' = PurgeAll(collections) /\ fate' = FatesAfterPurge(collections, fate)
    BY <2>2 DEF Dispatch, FatesAfterPurge
  <2>5. Egress!LinkFree
    BY <1>1, <2>3, <2>4, LinkFreeRefined
  <2> QED
    BY <2>5 DEF Egress!Next
<1>5. ASSUME Tick PROVE Egress!Next
  BY <1>5, TickRefined DEF Egress!Next
<1>6. ASSUME UNCHANGED vars PROVE UNCHANGED Egress!vars
  BY <1>6 DEF vars, Egress!vars, Waiting
<1> QED
  BY <1>2, <1>3, <1>4, <1>5, <1>6 DEF Next

(***************************************************************************)
(* The scheduler, with its queues, classes and messages, does nothing that *)
(* TimedEgress, which has none of them, would not do.                      *)
(***************************************************************************)
THEOREM RefinesTimedEgress == Spec => ImplementsTimedEgress
<1>1. Init => MessageForTMin
  BY DEF Init, NoMsg, MessageForTMin
<1>2. IInv /\ MessageForTMin /\ [Next]_vars => MessageForTMin'
  BY NextForTMin
<1>3. IInv /\ WellKept /\ MessageForTMin /\ [Next]_vars => [Egress!Next]_Egress!vars
  BY NextRefined
<1> QED
  BY InitRefined, <1>1, <1>2, <1>3, AlwaysWellKept, PTL
     DEF Spec, Egress!Spec, ImplementsTimedEgress
=============================================================================
