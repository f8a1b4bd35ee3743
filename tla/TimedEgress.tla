---------------------------- MODULE TimedEgress ----------------------------
(***************************************************************************)
(* What an egress interface with delay-based forwarding promises, without  *)
(* queues, classes or timers: a set of waiting packets and a link.  A DBF  *)
(* packet is handed to the link only within [tMin, tMax]; a packet is      *)
(* discarded only when it has expired, or (at most one per arrival) when   *)
(* the buffers are limited; and time does not pass over a free link while  *)
(* packets wait that may all be sent.                                      *)
(*                                                                         *)
(* The last promise is weaker than work conservation: with several classes *)
(* a packet that may be sent can wait for one of another class that may    *)
(* not (see HighestPriorityReadyFirst of DBFPriorityScheduler).            *)
(***************************************************************************)
EXTENDS DBFPacket

CONSTANTS
  PacketCapacity, (* -1: no packet is ever dropped for want of room.       *)
  MaxLag          (* How long after tRcv a packet may arrive here.         *)

VARIABLES
  now,      (* The time.                                                   *)
  waiting,  (* The packets that wait for the link.                         *)
  link,     (* "starting", "idle" or "transmitting".                       *)
  frames,   (* The packet on the link, if any.                             *)
  fate      (* What became of each packet.                                 *)

vars == <<now, waiting, link, frames, fate>>

Init ==
  /\ now = 0
  /\ waiting = {}
  /\ link = "starting"
  /\ frames = {}
  /\ fate = [id \in Id |-> "new"]

(* What remains of these packets when the expired ones are discarded. *)
Unexpired(packets) == {packet \in packets : ~IsExpired(packet, now)}

(* Fates after packets have left without being sent. *)
Discarding(before, expired, dropped) ==
  [id \in Id |->
     IF \E packet \in dropped : packet.id = id THEN "overflow"
     ELSE IF \E packet \in expired : packet.id = id THEN "expired"
     ELSE before[id]]

Accept(id, slo, lag) ==
  LET packet == [id |-> id, slo |-> slo, tRcv |-> now - lag]
      all == waiting \cup {packet}
  IN  /\ fate[id] = "new"
      /\ lag <= now
      /\ \E dropped \in {{}} \cup {{victim} : victim \in all} :
           /\ PacketCapacity = -1 => dropped = {}
           /\ waiting' = Unexpired(all \ dropped)
           /\ fate' = Discarding([fate EXCEPT ![id] = "queued"],
                                 all \ Unexpired(all), dropped)
      /\ UNCHANGED <<now, link, frames>>

Transmit(packet) ==
  /\ link = "idle"
  /\ IsPacketReadyToSend(packet, now) /\ ~IsExpired(packet, now)
  /\ waiting' = waiting \ {packet}
  /\ link' = "transmitting"
  /\ frames' = {packet}
  /\ fate' = [fate EXCEPT ![packet.id] = "sent"]
  /\ UNCHANGED now

LinkFree ==
  /\ link # "idle"
  /\ link' = "idle"
  /\ frames' = {}
  /\ waiting' = Unexpired(waiting)
  /\ fate' = Discarding(fate, waiting \ Unexpired(waiting), {})
  /\ UNCHANGED now

AllReady ==
  waiting # {} /\ \A packet \in waiting : IsPacketReadyToSend(packet, now)

Tick ==
  /\ ~(link = "idle" /\ AllReady)
  /\ now' = now + 1
  /\ UNCHANGED <<waiting, link, frames, fate>>

Next ==
  \/ \E id \in Id, slo \in Profile, lag \in 0 .. MaxLag : Accept(id, slo, lag)
  \/ \E packet \in waiting : Transmit(packet)
  \/ LinkFree
  \/ Tick

Spec == Init /\ [][Next]_vars

-----------------------------------------------------------------------------
(* The same without the last promise: time may pass over a free link. *)
Idle ==
  /\ now' = now + 1
  /\ UNCHANGED <<waiting, link, frames, fate>>

SafeSpec == Init /\ [][Next \/ Idle]_vars
=============================================================================
