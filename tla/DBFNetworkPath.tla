--------------------------- MODULE DBFNetworkPath ---------------------------
(***************************************************************************)
(* One packet on its way through nodes 0 .. Hops.  The source adds the     *)
(* service level objectives, every node on the way recomputes the budget   *)
(* for its own queueing from the delay the packet carries in its header    *)
(* and from its own FIB, and the queueing part of the egress interface     *)
(* keeps that budget (which is what SentInWindow of DBFPriorityScheduler   *)
(* says) or loses the packet.  The FIBs are read from files that may be    *)
(* incomplete or wrong; what is promised depends on them.                  *)
(***************************************************************************)
EXTENDS Integers, Sequences, FiniteSetsExt

CONSTANTS
  Hops,     (* The number of links from the source to the receiver.        *)
  LinkTime, (* What the link that leaves a node really takes, transmission *)
            (* and propagation.                                            *)
  Bits,     (* The length of the packet.                                   *)
  Datarate, (* The parameter _datarate of the network; 0: it has none.     *)
  Slo,      (* The pairs dMin, dMax the sender may be configured with.     *)
  FibFiles, (* The XML files the nodes may be configured with.             *)
  MaxDelay, (* Bound: how long a packet stays in a queue.                  *)
  MaxLag    (* Bound: how long a packet waits for an ARP reply.            *)

Node == 0 .. Hops

(* Of the nodes in a FIB only the two ends of the packet's way matter. *)
Address == {"source", "destination"}

(***************************************************************************)
(* DbfFibEntry; hDelay and fromDelay are copied to the tag and never used. *)
(* Nobody checks the numbers in a file, so they may be negative.           *)
(***************************************************************************)
FibEntry == [hops : Int, lDelay : Int, toDelay : Int]

FibLine == [ip : Address, entry : FibEntry]

ASSUME PathAssumption ==
  /\ Hops \in Nat \ {0}
  /\ LinkTime \in [0 .. Hops - 1 -> Nat]
  /\ Bits \in Nat /\ Datarate \in Nat
  /\ MaxDelay \in Nat /\ MaxLag \in Nat

ASSUME SloAssumption == Slo \subseteq [dMin : Int, dMax : Int]

ASSUME FibAssumption == FibFiles \subseteq [Node -> Seq(FibLine)]

VARIABLES
  now,     (* The time since the packet was encapsulated.                  *)
  node,    (* Where the packet is, or the node it leaves.                  *)
  phase,   (* Which part of the node has the packet, or what became of it. *)
  slo,     (* dMin and dMax of the sender.                                 *)
  fib,     (* The dbfFIB of every node: a map from addresses to entries.   *)
  options, (* The DBFIpv4Options of the packet's header.                   *)
  tag      (* Its DBFHeaderTag, if one is attached.                        *)

vars == <<now, node, phase, slo, fib, options, tag>>

Option == [dMin : Int, dMax : Int, eDelay : Int]

Tag == [attached : BOOLEAN, tRcv : Nat, fromNetwork : BOOLEAN,
        dMin : Int, dMax : Int, eDelay : Int, lqMin : Int, lqMax : Int]

Phases == {"start", "app", "network", "queue", "link",
           "delivered", "expired", "lost", "failed"}

TypeOK ==
  /\ now \in Nat
  /\ node \in Node
  /\ phase \in Phases
  /\ slo \in [dMin : Int, dMax : Int]
  /\ DOMAIN fib = Node
  /\ \A n \in Node : /\ DOMAIN fib[n] \subseteq Address
                     /\ \A ip \in DOMAIN fib[n] : fib[n][ip] \in FibEntry
  /\ options \in Seq(Option)
  /\ tag \in Tag
  /\ phase \in {"network", "queue", "link"} => node < Hops

NewTag(attached, tRcv, fromNetwork) ==
  [attached |-> attached, tRcv |-> tRcv, fromNetwork |-> fromNetwork,
   dMin |-> 0, dMax |-> 0, eDelay |-> 0, lqMin |-> 0, lqMax |-> 0]

NoTag == NewTag(FALSE, 0, FALSE)

Init ==
  /\ now = 0
  /\ node = 0
  /\ phase = "start"
  /\ slo = [dMin |-> 0, dMax |-> 0]
  /\ fib = [n \in Node |-> <<>>]
  /\ options = <<>>
  /\ tag = NoTag

-----------------------------------------------------------------------------
(* DBFComputer::initialize, on every node. *)
IsRefused(params) ==
  \/ params.dMin > 0 /\ params.dMax > 0 /\ params.dMin > params.dMax
  \/ params.dMin < 0
  \/ params.dMax < 0

(* std::map::insert keeps the entry an address already has. *)
ReadFib(lines) ==
  [ip \in {lines[i].ip : i \in DOMAIN lines} |->
     lines[Min({i \in DOMAIN lines : lines[i].ip = ip})].entry]

Initialize(params, files) ==
  /\ phase = "start"
  /\ slo' = params
  /\ fib' = [n \in Node |-> ReadFib(files[n])]
  /\ phase' = IF IsRefused(params) THEN "failed" ELSE "app"
  /\ UNCHANGED <<now, node, options, tag>>

IsBEMode == slo.dMin = 0 /\ slo.dMax = 0

(* DBFIpv4::encapsulate with addSLOParameters, where the packet is sent. *)
Encapsulate ==
  /\ phase = "app"
  /\ IF IsBEMode
     THEN UNCHANGED <<options, tag>>
     ELSE /\ tag' = NewTag(TRUE, now, FALSE)
          /\ options' = Append(options, [dMin |-> slo.dMin, dMax |-> slo.dMax,
                                         eDelay |-> 0])
  /\ phase' = "network"
  /\ UNCHANGED <<now, node, slo, fib>>

-----------------------------------------------------------------------------
(* Short packets are padded to 46 bytes; a frame adds 26 bytes. *)
CalculateTransmissionTime ==
  IF Datarate = 0 THEN 0
  ELSE ((IF Bits >= 368 THEN Bits ELSE 368) + 208) \div Datarate

Entry(n, ip) == fib[n][ip]

GetDelay(entry) == entry.hops * CalculateTransmissionTime + entry.toDelay

(* The tag is filled from the option and from the FIB. *)
PrepareDBFTag ==
  [tag EXCEPT !.dMin = options[1].dMin, !.dMax = options[1].dMax,
              !.eDelay = options[1].eDelay]

WrongNoTransmission(t) ==
  IF t.fromNetwork THEN [t EXCEPT !.eDelay = @ + Entry(node, "source").lDelay]
                   ELSE t

(* The link the packet came over. *)
UpdateEdelay(t) ==
  IF t.fromNetwork
  THEN [t EXCEPT !.eDelay =
          @ + (Entry(node, "source").lDelay + CalculateTransmissionTime)]
  ELSE t

WrongNoToDelay(dBound, t) == dBound - t.eDelay

CalculateFqDelay(dBound, t) ==
  dBound - GetDelay(Entry(node, "destination")) - t.eDelay

HasInfiniteDmax(t) == t.dMax = 0

FqMin(t) == IF t.dMin # 0 THEN CalculateFqDelay(t.dMin, t) ELSE 0

FqMax(t) == IF HasInfiniteDmax(t) THEN 0 ELSE CalculateFqDelay(t.dMax, t)

(* 0/0 is no number; its conversion to 64 bits is undefined in C++. *)
LongAgo == -1000000

ToHops == Entry(node, "destination").hops

(* A fraction with a negative divisor, written with a positive one. *)
Dividend(fqDelay) == IF ToHops < 0 THEN -fqDelay ELSE fqDelay
Divisor == IF ToHops < 0 THEN -ToHops ELSE ToHops

(***************************************************************************)
(* calculateLqBudget: an equal share for every node that is left.  The     *)
(* quotient of two doubles is converted to a simulation time, the tick     *)
(* below or above it; 0/0 to 0 or to the least number.                     *)
(***************************************************************************)
CalculateLqBudget(fqDelay, up) ==
  IF ToHops = 0 THEN IF up THEN 0 ELSE LongAgo
  ELSE IF up THEN -((-Dividend(fqDelay)) \div Divisor)
             ELSE Dividend(fqDelay) \div Divisor

(***************************************************************************)
(* Each quotient is converted on its own, but by the same conversion: of   *)
(* two between the same two ticks, the greater is not rounded down if the  *)
(* smaller is rounded up.                                                  *)
(***************************************************************************)
RoundsInOrder(fqDelay, up, otherDelay, otherUp) ==
  /\ Dividend(fqDelay) \div Divisor = Dividend(otherDelay) \div Divisor
  /\ Dividend(fqDelay) <= Dividend(otherDelay)
  /\ up
  => otherUp

RoundsAlike(upMin, upMax) ==
  LET t == UpdateEdelay(PrepareDBFTag)
  IN  ToHops # 0 => /\ RoundsInOrder(FqMin(t), upMin, FqMax(t), upMax)
                    /\ RoundsInOrder(FqMax(t), upMax, FqMin(t), upMin)

Processed(upMin, upMax) ==
  LET t == UpdateEdelay(PrepareDBFTag)
  IN  [t EXCEPT !.lqMin = CalculateLqBudget(FqMin(t), upMin),
                !.lqMax = CalculateLqBudget(FqMax(t), upMax)]

(***************************************************************************)
(* What ends the simulation here: an address that is not in the map, and a *)
(* budget divided by 0 hops, which is out of the range of a SimTime.       *)
(***************************************************************************)
ProcessingThrows ==
  \/ DOMAIN fib[node] # Address
  \/ /\ ToHops = 0
     /\ LET t == UpdateEdelay(PrepareDBFTag) IN FqMin(t) # 0 \/ FqMax(t) # 0

(* removeDBFIpv4Options removes all of them, addOption appends. *)
WrongAppends(opts, eDelay) == Append(opts, [opts[1] EXCEPT !.eDelay = eDelay])

WithEDelay(opts, eDelay) == <<[opts[1] EXCEPT !.eDelay = eDelay]>>

WrongNegation(t) == HasInfiniteDmax(t) /\ t.tRcv + t.lqMax < t.tRcv

IsAlreadyExpired(t) == ~HasInfiniteDmax(t) /\ t.tRcv + t.lqMax < t.tRcv

(***************************************************************************)
(* DBFIpv4::sendPacketToNIC with DBFComputer::processDBFPacket, once the   *)
(* hardware address of the next node is known.  All is computed for tRcv.  *)
(***************************************************************************)
SendPacketToNIC(upMin, upMax, lag) ==
  /\ phase = "network"
  /\ now' = now + lag
  /\ IF ~tag.attached THEN phase' = "queue" /\ UNCHANGED <<options, tag>>
     ELSE IF ProcessingThrows THEN phase' = "failed" /\ UNCHANGED <<options, tag>>
     ELSE /\ RoundsAlike(upMin, upMax)
          /\ tag' = Processed(upMin, upMax)
          /\ options' = WithEDelay(options, tag'.eDelay)
          /\ phase' = IF IsAlreadyExpired(tag') THEN "expired" ELSE "queue"
  /\ UNCHANGED <<node, slo, fib>>

-----------------------------------------------------------------------------
(***************************************************************************)
(* The contract of the scheduler, see SentInWindow, for the packets it is  *)
(* given for (ProfileAssumption).  A packet with lqMin > lqMax, which only *)
(* a FIB with negative hops makes, may leave at any time.                  *)
(***************************************************************************)
InBudget(at) ==
  HasInfiniteDmax(tag) \/ tag.lqMin <= tag.lqMax =>
    /\ tag.tRcv + tag.lqMin <= at
    /\ HasInfiniteDmax(tag) \/ at <= tag.tRcv + tag.lqMax

WrongKeepsTag(t) == t

(* removeTag. *)
Untagged(t) == NoTag

(***************************************************************************)
(* The scheduler's handleMessage sends the packet within its budget, adds  *)
(* the time it spent on this node to the option and removes the tag.       *)
(***************************************************************************)
Schedule(at) ==
  /\ phase = "queue"
  /\ tag.attached => InBudget(at)
  /\ now' = at
  /\ options' = IF tag.attached THEN WithEDelay(options, tag.eDelay + at - tag.tRcv)
                                ELSE options
  /\ tag' = Untagged(tag)
  /\ phase' = "link"
  /\ UNCHANGED <<node, slo, fib>>

(* The queue drops the packet, or finds it expired. *)
Lose ==
  /\ phase = "queue"
  /\ phase' = "lost"
  /\ UNCHANGED <<now, node, slo, fib, options, tag>>

ContainsDBFOptions == options # <<>>

WrongForwards(n) == "network"

(* INET's Ipv4: the receiver delivers the packet, other nodes forward it. *)
Routed(n) == IF n = Hops THEN "delivered" ELSE "network"

(***************************************************************************)
(* The frame reaches the IngressForwarder of the next node, which attaches *)
(* the tag (INET's addTag throws if the packet has one already).           *)
(***************************************************************************)
Receive ==
  /\ phase = "link"
  /\ now' = now + LinkTime[node]
  /\ node' = node + 1
  /\ tag' = IF ContainsDBFOptions THEN NewTag(TRUE, now', TRUE) ELSE tag
  /\ phase' = IF ContainsDBFOptions /\ tag.attached THEN "failed"
              ELSE Routed(node')
  /\ UNCHANGED <<slo, fib, options>>

Next ==
  \/ \E params \in Slo, files \in FibFiles : Initialize(params, files)
  \/ Encapsulate
  \/ \E upMin, upMax \in BOOLEAN, lag \in 0 .. MaxLag :
       SendPacketToNIC(upMin, upMax, lag)
  \/ \E at \in now .. now + MaxDelay : Schedule(at)
  \/ Lose
  \/ Receive

Spec == Init /\ [][Next]_vars

-----------------------------------------------------------------------------
(* What the FIBs say: of the link to a node, and of the rest of the way.   *)
CompleteAt(n) == DOMAIN fib[n] = Address

CompleteFib == \A n \in 0 .. Hops - 1 : CompleteAt(n)

LinkEstimate(n) == Entry(n, "source").lDelay + CalculateTransmissionTime

RestEstimate(n) == GetDelay(Entry(n, "destination"))

LinksOverestimated ==
  CompleteFib /\ \A n \in 1 .. Hops - 1 : LinkEstimate(n) >= LinkTime[n - 1]

LinksUnderestimated ==
  CompleteFib /\ \A n \in 1 .. Hops - 1 : LinkEstimate(n) <= LinkTime[n - 1]

LastHop == Entry(Hops - 1, "destination").hops = 1

(***************************************************************************)
(* The service the project is about, and what it takes: every node decides *)
(* by itself, yet a packet arrives by dMax if no FIB is too optimistic     *)
(* about the link to its node, and the last one not about the link that is *)
(* left; and not before dMin if they are not too pessimistic.  The hops    *)
(* and delays the other nodes know of the rest of the way do not matter.   *)
(***************************************************************************)
ArrivesInTime ==
  phase = "delivered" =>
    /\ LinksOverestimated /\ LastHop /\ slo.dMax # 0
         /\ RestEstimate(Hops - 1) >= LinkTime[Hops - 1]
       => now <= slo.dMax
    /\ LinksUnderestimated /\ LastHop
         /\ RestEstimate(Hops - 1) <= LinkTime[Hops - 1]
       => slo.dMin <= now

(***************************************************************************)
(* The delay in the header is the time that has really passed, counted at  *)
(* three places (ingress tag, DBFComputer, scheduler) on every node; it    *)
(* errs only in the direction in which the FIBs err, and not at all if     *)
(* they are right.                                                         *)
(***************************************************************************)
Elapsed == IF phase = "queue" THEN tag.tRcv ELSE now

EDelayIsElapsed ==
  phase \in {"queue", "link"} /\ ~IsBEMode =>
    /\ LinksOverestimated => options[1].eDelay >= Elapsed
    /\ LinksUnderestimated => options[1].eDelay <= Elapsed

(***************************************************************************)
(* Sharing the budget equally never starves a later node: if the FIBs fit  *)
(* together, right or wrong, no node finds a packet already expired whose  *)
(* objective the source deemed feasible, as long as queues keep budgets.   *)
(***************************************************************************)
ConsistentFib ==
  /\ CompleteFib
  /\ \A n \in 0 .. Hops - 1 : Entry(n, "destination").hops > 0
  /\ \A n \in 0 .. Hops - 2 :
       RestEstimate(n) >= LinkEstimate(n + 1) + RestEstimate(n + 1)

OnlyInfeasibleExpire ==
  phase = "expired" /\ ConsistentFib => slo.dMax < RestEstimate(0)

(***************************************************************************)
(* The budgets a queue is given are ordered and not in the past, which is  *)
(* what ProfileAssumption of DBFPacket takes for granted, whatever else    *)
(* the FIBs say, unless hops are negative on this node.                    *)
(***************************************************************************)
BudgetsOrdered ==
  phase = "queue" /\ tag.attached /\ ~HasInfiniteDmax(tag) =>
    /\ tag.lqMax >= 0
    /\ ToHops >= 0 => tag.lqMin <= tag.lqMax

(***************************************************************************)
(* Header and tag keep in step: a DBF packet has exactly one option with   *)
(* the objectives of its sender although every node removes and adds it    *)
(* twice, and it has a tag on a node and none on a link; a BE packet has   *)
(* neither.                                                                *)
(***************************************************************************)
HeaderConsistent ==
  phase \in {"network", "queue", "link", "delivered"} =>
    /\ tag.attached <=> ~IsBEMode /\ phase # "link"
    /\ Len(options) = IF IsBEMode THEN 0 ELSE 1
    /\ \A i \in 1 .. Len(options) :
         options[i].dMin = slo.dMin /\ options[i].dMax = slo.dMax

(***************************************************************************)
(* A node ends the simulation only if it refuses its objectives, or has to *)
(* process a DBF packet with a FIB that lacks one end of the path or has   *)
(* 0 hops to the receiver.                                                 *)
(***************************************************************************)
OnlyBadConfigurationFails ==
  phase = "failed" =>
    \/ IsRefused(slo)
    \/ ~IsBEMode /\ (~CompleteAt(node) \/ ToHops = 0)
=============================================================================
