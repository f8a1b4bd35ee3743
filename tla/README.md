# A verification model of DelayBasedForwarding

DelayBasedForwarding (DBF) is an OMNeT++/INET simulation of a network in which
a packet carries its service level objectives (SLO) in an IPv4 option: it shall
be delivered no earlier than `dMin` and no later than `dMax` after it was sent.
Every node computes from the header, and from its forwarding information base
(FIB), how long the packet may stay in its own egress queue, and an egress
queueing module with many queues and a scheduler sees to it that the packet
leaves in that window.

This directory holds TLA+ modules of that program, TLC configurations that
check them on small instances, and TLAPS proofs. Paths below are relative to
`src/src/delaybasedforwarding/`.

## 1. The system

### Components, their state and their operations

| Component | State | Operations | What makes it correct |
|---|---|---|---|
| `DBFIpv4`, `DBFComputer`, `DbfFibEntry` (network layer) | `dMin`, `dMax`, `admit` of this node, the FIB (`toDelay`, `fromDelay`, `hops`, ... per destination) | `encapsulate` adds the option at the source; `sendPacketToNIC` adds link delays to `eDelay`, computes `lqMin`, `lqMax`, `tMin`, `tMax`, and deletes a packet that is already too late; `initialize` reads the FIB file and refuses bad objectives | the delay in the header is the time that passed; the shares of all nodes add up to a delivery in [dMin, dMax] |
| `IngressForwarder` (ingress traffic conditioner) | none | attaches a tag with `tRcv` to a packet with the DBF option | one tag per node and packet |
| `EgressForwarder` (egress traffic conditioner) | `txPktToPortSignals` and the recorders added at run time | forwards to the classifier, and from the scheduler to the MAC, where it records every frame under its destination port | every frame is recorded once |
| `DBFPriorityClassifier` | `deltaQueueMap`, the queues it created | `classifyPacket` finds the class (delta) of a packet from the width of its local budget, creates the queue of a new class, pushes the packet | one queue per class, the same index at classifier and scheduler |
| `DynamicModuleHandling` | the submodules of the queueing module | `createDynamicModule`, `finalizeModuleAndSchedule` | a queue is initialized only when it is connected |
| `DBFPacketQueue` with `DBFPacketComparator` and `DBFPacketDropper` | a `cPacketQueue` | ordered insertion, drop on overflow, pop, removal from any position | sorted although the order depends on the clock; the right packet is dropped |
| `DBFPriorityScheduler` | `selfMsg`, `txIdleCounter`, the list of queues | `handleMessage` (send), `handleCanPopPacket` (a packet was pushed), `receiveSignal` (the MAC is idle), `lookForExpiredPackets`, `schedule`, `determineCollection` | every packet leaves in its window, best class first, none is forgotten |
| `DBFDynamicPriorityScheduler` | in addition `scheduledPacket` | overrides `handleMessage`, `schedule`, `prepareSelfMsg`, `lookForExpiredPackets` | as above, by the largest part of the window that has passed |
| MAC (INET's `EtherMacFullDuplex`) | transmitting or idle | transmits one frame, emits `transmissionStateChanged` | external |
| OMNeT++ event loop | the future event set | runs the earliest event to completion | external |
| `TcpEchoAppStatistics` (example application) | `bitsRcvdRate`, the `captureRate` message | `dataArrived` counts bits, the message reports and resets them | every bit is reported once |
| NED, ini, examples, tests | | | not modelled |

### How they interact

```
 app -> DBFIpv4/DBFComputer -> EgressForwarder -> classifier -> queue(delta) ... -> scheduler -> MAC -> link
          ^    (tag: budgets)                       |  push        |  handleCanPopPacket   ^  |
          |                                         +--------------+---------------------->+  | self message
          +------- IngressForwarder (tag: tRcv) <---- link                                    | TX_IDLE signal
```

Everything inside a node between the network layer and the queue happens by
method calls and messages without delay, i.e. at one simulation time. Three
things are asynchronous: packets arrive, the scheduler's self message arrives
at a time chosen earlier, and the MAC reports that it is idle. They may fall on
the same simulation time in any order. One more delay is possible: INET's
`Ipv4` calls `sendPacketToNIC`, where the budgets are computed, after the
packet has waited for an ARP reply, but `tRcv` was taken on arrival and
`isAlreadyExpired` compares `tMax` with `tRcv`; so a packet may reach its queue
at any time after `tRcv`, even after `tMax`. `MaxLag` is the longest such delay.

### What is hard here

* A message is armed for a *position* (the front of a queue, by index), or for
  a *pointer* to a packet. Until it arrives, packets are inserted ahead of the
  front, dropped for overflow and purged.
* The comparator and the dropper read the clock: the order of two packets
  depends on the time at which the second one was inserted.
* Nothing looks at the queues unless a packet is pushed or the MAC becomes
  idle: a message that is cancelled and not armed again is a lost wakeup.
* `lookForExpiredPackets` deletes the self message but keeps the pointer.
* Boundaries: ready is `tMin <= now`, expired is `tMax < now`, ahead of a Best
  Effort (BE) packet is `tMin < now`; a window may be one instant; a `dMin` or
  `dMax` of 0 means that there is none; budgets are rounded at every hop and
  may be negative.
* `eDelay` is summed up at three places on every node, and the option that
  carries it is taken out of the header and put back twice.
* The FIBs are files nobody checks: an address may be missing or listed twice,
  hops and delays may be wrong or negative, and every node has a file of its
  own.
* Queues, gates and recorders are created while the simulation runs; classifier
  and scheduler keep the same list twice.
* Statistics are taken inside the signals of modules that are just changing,
  and data arrive at the very time at which a counter is reported and reset.

`PROJECT.json` lists each of these at its line, with the properties that watch it.

## 2. Modules

| Module | Models | Built on |
|---|---|---|
| `DBFPacket` | the tag of a packet, `isExpired`, `isPacketReadyToSend`, `tMin`, `tMax` | |
| `DBFQueueOps` | `comparePackets`, `cQueue::insert`, `selectPacket`, `pushPacket`, the purge, as operators on a sequence and a time | `DBFPacket` |
| `DBFPacketQueue` | one queue, all its operations in any order while time passes | `DBFQueueOps` |
| `DBFClassifierOps` | `classifyPacket`: the class of a packet | |
| `DBFPriorityQueue` | queues created on demand and addressed by index, `deltaQueueMap`, the loops in their order; with scheduler, MAC and clock | `DBFQueueOps`, `DBFClassifierOps` |
| `TimedEgress` | abstract: what an egress interface promises | `DBFPacket` |
| `DBFPriorityScheduler` | the static scheduler with its queues, MAC and clock | `DBFQueueOps` |
| `DBFDynamicPriorityScheduler` | the dynamic scheduler in its place | `DBFPriorityScheduler` |
| `DBFNetworkPath` | one packet through all nodes: configuration, FIBs, budgets, header and tag | |
| `DynamicModuleHandling` | the creation of modules at run time | |
| `DBFEgress` | the structure behind an interface, connected step by step, and what scheduler and `EgressForwarder` record | `DynamicModuleHandling` |
| `TcpEchoAppStatistics` | the echo server's counter and its periodic message | |
| `DBFStatistics` | a host with both: data are counted, echoed and sent | `DBFEgress`, `TcpEchoAppStatistics` |
| `NumberLemmas` | lemmas on minimum, maximum, quotient and fractions | `TLAPS` |
| `*Proofs` | the TLAPS proofs about the module of that name | `TLAPS` |
| `MC*` | constants for TLC | |

Three levels describe the egress interface with the static scheduler:
`DBFPriorityQueue` (indices, order of creation) implements
`DBFPriorityScheduler` (queues by class), which implements `TimedEgress` (a set
of waiting packets and a link). `DBFDynamicPriorityScheduler` extends
`DBFPriorityScheduler` as the C++ class does: queues, classes, MAC and clock are
shared definitions; it implements `TimedEgress!SafeSpec`, the same promises
without the one about time. `DBFEgress` looks at the same interface from
another side: it keeps modules, gates and lists apart that the other modules
identify, and leaves open when packets expire and which is sent. `DBFNetworkPath`
is composed with the schedulers by contract: its `Schedule` lets a packet stay
for any time in its budget, which is what `SentInWindow` states (and
`BudgetsKept` proves) of the scheduler; in return `QueueBudgets` proves of
the network layer what `ProfileAssumption` takes for granted in the queueing
modules.

### How state and actions correspond to the code

**Time.** `now` is `simTime()` in ticks. Handlers run to completion, so an
action is one event with everything that is called in it. `Tick` is guarded by
"no event is due" (`MessageDue`); events due at the same time interleave freely.

**Packets.** A packet is an identity, a profile (the fields of `DBFHeaderTag`
that the queueing code reads, and its class) and `tRcv`; `tMin` and `tMax` are
`tRcv` plus the local budgets, as `calculateSendTime` computes them. `dMin` and
`dMax` appear only as "has a deadline" (`finite`).

**One queue.** `Precedes` is `comparePackets(...) = -1`. `cQueue::insert` scans
from the back for the first packet that the new one does not precede.
`PushPacket` is INET's `PacketQueue::pushPacket`: insert, then drop what
`SelectPacket` selects while the queue is over its capacity. `Purge` is written
with the enumeration of the kept positions, because `SelectSeq` is recursive
and the prover could not use it.

**The static scheduler.**

| Code | Action or variable |
|---|---|
| classifier `handleMessage` + `pushPacket` + `handleCanPopPacket` + `lookForExpiredPackets` + `schedule` | `HandleMessage`, one step |
| scheduler `handleMessage` (self message) | `HandleSelfMsg` |
| `receiveSignal` with `TX_IDLE_STATE` | `ReceiveSignal` |
| `lookForExpiredPackets`; `schedule` | `Dispatch` |
| `determineCollection` | `DetermineCollection` |
| `selfMsg` | `NoMsg`, or a record whose `state` is `"scheduled"`, or `"deleted"` after `cancelAndDelete` without a new message |
| `cRuntimeError`, use of a deleted message | `fault`; the simulation stops there, no action is enabled |

The use of the deleted message is undefined behaviour; the model ends the run
with `fault = "deletedSelfMsg"` instead of guessing what the build makes of it.
Queues are named by their class, not by their index: a queue not yet created is
an empty one. Whether a *second* expired packet in the same purge meets the
deleted message depends on the order in which the queues were created;
`DispatchFaults` therefore allows both, and `DBFPriorityQueue` decides. `fate` and `onWire` are history: what became of each packet, and
how much `eDelay` grew on this node.

**Queues by index.** In `DBFPriorityQueue` a packet of a new class appends a
queue (`GetIndexOfQueueForDelta`, `WithQueue`, `WithIndex` for
`getIndexOfQueueForDelta`, `createDBFQueue`, `addDBFQueue` and the insertion in
the map). `DetermineCollection` runs `Loop`, a recursive function that repeats the
loop body `Round`, over the classes in increasing order; `UsedInPurge` follows the order of the queues. The refinement
mapping reads queue `d` through the map (`QueueOf`) and turns the index in the
message into its class (`ClassOf`).

**The dynamic scheduler.** `scheduledPacket` is the pointer, as a set with at
most one packet. The dynamic priority is a fraction (`passed`/`window`),
compared by cross multiplication; a window of one instant has priority 0, as
the clamped NaN has in the code, so `MostUrgentSent` takes the code's ranking of
such a packet for granted.

**The path.** A node's part is three steps: `SendPacketToNIC` (with all of
`processDBFPacket`), `Schedule` (or `Lose`), `Receive`; before them `Initialize`
configures all nodes and `Encapsulate` makes the packet. `CalculateFqDelay`,
`CalculateLqBudget`, `UpdateEdelay`, `GetDelay` and `CalculateTransmissionTime`
are the formulas of `DBFComputer`. The two quotients are rounded each on its own,
up or down (`upMin`, `upMax`), which the code leaves to `double`; since one
conversion does both, and no conversion reverses an order, `RoundsAlike` keeps
them from crossing. Hops and delays of a FIB are integers of either sign, as
`atoi` and `SimTime::parse` return them. Negative hops reverse the budgets, and
`ProfileAssumption` says nothing of a packet with `lqMin > lqMax`: `InBudget` lets
it leave at any time. `fib` is what `ReadFib` makes of the lines of each
node's file, with the entry inserted first winning. `options` is a sequence,
since a header may hold several options of a type; `tag` has a flag for being
attached. The exceptions (`std::map::at`, a `SimTime` out of range after a
division by 0 hops, refused objectives, a second `addTag`) lead to the phase
`"failed"`. `LinkTime` is what a link really takes, whatever the FIBs say.

**The egress structure.** `net` holds the submodules and what connects them:
the classifier's gates and `consumers`, the scheduler's gates, `providers` and
`collections`, the signals it subscribed to, and the queues that have found
their collector. `Connected` composes the steps of `createDBFQueue` in their
order. `HandleMessage` is the classifier's handler with the push and the purge
it leads to; `Transmit` is the scheduler's message up to the MAC, announced as a
pop (priority scheduler) or as a removal (dynamic one); the purge on
an idle MAC is `LookForExpiredPackets`. Which packets expire, which is dropped
and which is sent is left open, so what is shown holds for both schedulers and
any timing. `Counts` gives both values a signal in the middle of a change may
see. Of a packet's headers only what `emitPacket` looks at remains.

**The echo server.** `bitsRcvdRate` and `untilCapture` (the time left until the
`captureRate` message); `rxBitsRate` and `bitsArrived` are sums kept for the
properties.

## 3. What is checked

`tlc -config X.cfg M` checks the configuration `X.cfg` with module `M`.

| Run | Configuration | Shows |
|---|---|---|
| `packet_queue` | `PacketQueue.cfg` | One full low priority queue: `QueueOrder` (sorted although the comparator reads the clock), `ReadyPrefix` (no ready packet behind a waiting one, on which both schedulers' scans rely), `ArrivalOrderKept` (ties in order of arrival), `ExpiredDroppedFirst`, `LatestDbfPacketDropped` |
| `scheduler_on_time` | `SchedulerOnTime.cfg` | Packets reach their queue at `tRcv`: `NoRuntimeError`, and `EveryPacketLeaves` under fairness |
| `scheduler_late` | `SchedulerLate.cfg` | Packets reach queues of two packets up to two ticks late: `SentInWindow`, `MessageForSendableFront`, `ArmedWhenIdle`, `PacketsAccounted`, `HighestReadyArmed`, and the refinement `ImplementsTimedEgress` |
| `dynamic_scheduler` | `DynamicScheduler.cfg` | the dynamic scheduler, late packets and drops included: `ScheduledPacketSendable` (the pointer never dangles), `SentInWindow`, `PacketsAccounted`, `NoRuntimeError`, `HighestPriorityReadyFirst`, `MostUrgentSent`, and the refinement `ImplementsTimedSafety` |
| `priority_queue` | `PriorityQueue.cfg` | Queues of two packets created on demand, late packets: `OneQueuePerClass`, `DeadlinesAboveBestEffort`, and the refinement `ImplementsScheduler` |
| `network_path` | `NetworkPath.cfg` | Three links, all objectives up to 12 ticks and eight sets of FIB files: `ArrivesInTime`, `EDelayIsElapsed`, `OnlyInfeasibleExpire`, `BudgetsOrdered`, `HeaderConsistent` (one option, and a tag on nodes only), `OnlyBadConfigurationFails` |
| `statistics` | `Statistics.cfg` | Queues created while packets arrive, expire, overflow and leave: `SameQueueEverywhere`, `QueuesInUseOffByOne`, `EveryFrameSampledOnce`; data and captures in any order: `BitsConserved`, `EveryBitReported` |

`ArrivesInTime` also says what a wrong FIB costs: only the delay of the link to
each node and what the last node believes of the last link matter. A FIB too
optimistic there can make packets late, one too pessimistic makes them early,
and no error in the hops or delays of the rest of the way does either.
`BudgetsOrdered` needs hops that are not negative on the node itself: with a
negative number the quotients change their order, which TLC shows at once
without that condition. No configuration of the repository has one.
`QueuesInUseOffByOne` is as strong as it gets: the scheduler counts while a
queue announces a change it may not have made yet, and no signal follows that
would correct the value; but neither a drop nor a purge of several queues makes
it worse.

### Runs that find a disagreement

Each of these checks one sentence of a comment, and TLC finds a state or
behaviour of the code that contradicts it.

* `scheduler_priority`: `DBFPriorityScheduler.h` says that the highest priority
  collection with a ready packet is determined. When no front is ready the
  loop ends with the *lowest* class that has a packet; the idle MAC is reserved
  for it, and it goes first even if a higher class becomes ready at the same
  time. `HighestReadyArmed` states what does hold: whenever `schedule()` looks
  and somebody is ready, it arms the highest such class for now.
* `scheduler_deleted_message`: a packet that arrives late, already expired, and
  sorts ahead of the armed packet makes the purge delete the self message, and
  `schedule()` in the same handler deletes it again. The proof of
  `NoRuntimeErrorWithoutLag` shows that lateness is the only way.
* `queue_drops_highest_tmin`: in the low priority queue the last packet may be a
  BE packet, so it is not "the packet with the highest Tmin" that is dropped.
  `LatestDbfPacketDropped` is the part that holds.
* `queue_ready_dbf_first`: a DBF packet whose `tMin` is exactly now is ready for
  the scheduler and not for the comparator, which puts it behind BE packets.
* `dynamic_lost_wakeup`: the dynamic scheduler arms only packets that are ready
  already; nothing wakes it at the `tMin` of a waiting packet, although
  `schedule()` has a branch that computes that future time.

### Bounds, and why they are enough

* `Id`: four packets (three where the state space demands it): the one on the
  wire, the armed one, the one overtaking it, and one to overflow a queue of two.
* `MCProfile`: five profiles, one of each kind the code distinguishes: BE,
  without deadline, an exact instant, a window, and a late flow whose `lqMin` is
  negative; with the class the classifier computes. `DeltaSteps = 1` separates
  them into three classes for the static scheduler; `DeltaSteps = 2` lets
  windows of different width share a class for the dynamic one.
* `PriorityQueue`: `DeltaSteps = 2`, `MaximumDelta = 4` and budgets 0, 2, 3 and 6:
  on, below and above the edges of classes, two of which are created in either
  order. `LoopAssumption` compares `BestDelta`, the `while` loop of
  `classifyPacket`, with the smallest multiple that fits for budgets up to 20.
* `MaxArrival = 3` and `MaxTime = 5`: the last window closes at 6 at the latest,
  so messages are armed for the future, frames block the MAC through whole
  windows, and packets expire before the end.
* The liveness run `scheduler_on_time` is smaller, because temporal checking
  cannot use symmetry: three packets, `MaxArrival = 2`, `MaxTime = 4`,
  `MaxLag = 0`. Every window opens by 4, so the bound on time keeps no packet
  from leaving.
* `MaxLag = 2`: a packet may arrive after its `tMax`, or between `tMin` and `tMax`.
* `PacketCapacity` -1 and 2: without drops, and with a drop that hits the armed
  packet.
* `NetworkPath`: links that take 2, 1 and 3 ticks (a transmission time of one
  included) and objectives 0 .. 12 cover infeasible, just feasible and generous
  budgets, with division remainders at every hop, and three pairs are refused;
  `MaxDelay = 7` exceeds the largest budget of the first node. The FIB files
  are right, wrong in either direction, greedy (every node takes itself for the
  last), list addresses twice, lack one, have no hops, or have a negative number
  of them and a negative delay (on the second node, with a rest so
  overestimated that the packet is not expired at once).
* `Statistics`: five packets of three classes, so three queues of capacity 1 are
  created in any order, overflow, and are purged together; two packets share a
  port, one has none, one is not IP. Two pieces of data of different length and
  a capture every two ticks.
* Symmetry: packet identities are interchangeable (not used with liveness, and
  not where headers tell packets apart).
* `CHECK_DEADLOCK FALSE`: the simulation ends, at `MaxTime`, with a fault, or
  when the packet is delivered.

### Fairness

`FairSpec` asks for weak fairness of `HandleSelfMsg` (the event loop runs every
scheduled event), of `ReceiveSignal` (the MAC comes up and a frame ends) and of
`Tick` (time advances when nothing is due). Arrivals are not fair: nobody has
to send. All three are enabled continuously until they happen, so weak fairness
is what OMNeT++'s event loop gives. `FairSpec` of `DBFStatistics` asks the same
for `CaptureMessage` and `Tick`, whose time stops for a message that is due.

## 4. What is proved

`tlapm` checks all of these for every value of the constants that satisfies the
named assumptions: any number of packets, classes and profiles, any capacity.

| Module | Theorems |
|---|---|
| `DBFQueueOpsProofs` | lemmas: what an insertion, a removal, a push and a purge do to positions and contents, and what is dropped; each keeps `QueueInOrder`, `ReadyPacketsFirst` and `Distinct`; time keeps the order; a finite set of naturals is enumerated in increasing order |
| `DBFPacketQueueProofs` | `TypeCorrect`, `AlwaysInOrder`, `ReadyPacketsInFront`, `FirstComeFirstServed`, `ExpiredFirst`, `LatestDropped` |
| `DBFPrioritySchedulerProofs` | `InductiveInvariant`, `TypeCorrect`, `BudgetsKept`, `ArmedMessagesStayGood`, `NoLostWakeup`, `NoRuntimeErrorWithoutLag`, `AlwaysWellKept`, `EveryPacketAccounted`, `ArmsHighestPriority`, `RefinesTimedEgress` |
| `DBFDynamicPrioritySchedulerProofs` | `DynamicInductiveInvariant`, `DynamicTypeCorrect`, `DynamicBudgetsKept`, `PointerStaysGood`, `DynamicPacketsAccounted`, `DynamicNoRuntimeError`, `DynamicHighestPriorityFirst`, `MostUrgentFirst`, `RefinesTimedSafety` |
| `DBFPriorityQueueProofs` | `LoopFindsSmallest`, `ClassInvariant`, `QueuesKeepClass`, `DeadlinesFirst`, `QueueInvariant`, `QueueTypeCorrect`, `RefinesScheduler`, and carried over by it `QueueBudgetsKept`, `QueueNoLostWakeup`, `QueuePacketsAccounted`, `QueueArmsHighestPriority`, `QueueNoRuntimeErrorWithoutLag`, `QueueRefinesTimedEgress` |
| `DBFNetworkPathProofs` | `PathInvariant`, `TypeCorrect`, `EndToEndDelay`, `HeaderAccounts`, `NoLateNode`, `QueueBudgets`, `OneOptionOneTag`, `NoOtherFailure` |
| `DBFStatisticsProofs` | `StatInvariant`, `TypeCorrect`, `QueuesAgree`, `CountNearTruth`, `FramesRecorded`, `EchoInvariant`, `BitsAccounted` |
| `NumberLemmas` | `MinOfNaturals`, `MaxOfNaturals`, `Division`, `NaturalQuotient`, `ProductKeepsOrder`, `FractionsTransitive` |

Every invariant, action property and refinement that a passing run checks is
stated by a theorem; the two liveness properties are not (see below).

Assumptions: `DeltaAssumption`, `ProfileAssumption`, `PacketCapacityAssumption`,
`ClassifierAssumption`, `ClassAssumption`, `TimeAssumption` (`MaxLag = 0` in
addition for `NoRuntimeErrorWithoutLag` and its form by index), and
`PathAssumption`, `SloAssumption`, `FibAssumption` for the path (which only type
the FIBs: they may say anything, negative numbers included), `EgressAssumption`, `TypesAssumption`,
`CaptureAssumption`, `BitLengthAssumption` for the statistics. TLC evaluates
them in every run.

**The queue.** `QueueInOrder` speaks of pairs, and the comparator is not
transitive over time: a BE packet is "not preceded" by a waiting DBF packet
today and is tomorrow. The key is that order at insertion implies order ever
after (`tMin <= t` stays true), and that the scan from the back stops at a
packet that is in order before the new one while everything behind it is in
order after it. `ReadyPrefix` follows from the order. `ArrivalOrderKept` has the
same shape: a new packet is inserted behind every one it ties with, and removing
packets keeps the order of the rest; it needs that no packet stands twice in the
queue (`Distinct`). The two properties of drops follow from what `SelectPacket`
returns, and `LatestDropped` from the order: the packet dropped without being
expired is the last one.

**The scheduler.** `IInv` is the conjunction of `TypeOK`, `CounterFollowsMac`,
`MessageForSendableFront`, `ArmedWhenIdle` and `SentInWindow`. None of the last
three is inductive alone: that a frame leaves in its window needs the armed
front to be sendable when the message arrives; that it is needs every signal
of the MAC to find the counter at 0 (`CounterFollowsMac`: 1 exactly when the MAC
is idle). A push or a signal goes through `Dispatch`, whose lemmas carry the
weight: whatever it was given, it leaves purged queues, and with an idle MAC a
fresh message for a front that may be sent when the message arrives
(`DispatchArms`); with the MAC busy no message is pending. The order of the
queues is not needed: the scheduler's safety rests on arming again at every
push. For `NoRuntimeErrorWithoutLag`, a packet that comes without lag is not
expired, and an armed front does not expire before its message, so the purge
never deletes the message.

A second invariant, `WellKept`, speaks of contents: no identity is queued twice,
in one queue or in two, a packet is queued exactly if its `fate` says so, and
every queue is in order. `PacketsAccounted` counts what it says. The order
makes `HighestReadyArmed` true: `determineCollection` looks at fronts only, and a
ready packet anywhere means a ready front. `RefinesTimedEgress` maps each handler
to one step of the abstract specification: a push to an arrival, the message to
a transmission, a signal to a free link. The promise about time is the hard
part: a message that is not due yet was armed for the `tMin` of its front
(`MessageForTMin`, one more invariant), so a packet waits that is not ready, and
a message that is due stops the clock; without a message nothing waits.

**The dynamic scheduler.** `DynamicIInv` replaces the scheduler's part about the
message by `ArmedForMostUrgent`: an armed message is due now, for the highest class
with a ready packet, and `scheduledPacket` is a packet of that class, ready, not
expired, that none outranks. The message stays true to the pointer for two
reasons, both from `WellKept`. The purge, which deletes the message if the armed
packet has expired, never finds it expired, since identities are apart and no
time passes while a message is armed (`Tick` is not enabled). And a push that
makes the dropper take the armed packet leaves another ready one in that queue,
because only the last packet of a queue in order is dropped (`PushKeepsReady`), so
`schedule()` arms anew (`ArmedPacketSurvives`); had nothing been ready it would
have scheduled the old message a second time, an error. Hence
`DynamicNoRuntimeError` holds with any lag. That a most urgent packet exists
needs `Outranks` to be transitive, that is, comparison of fractions by cross
multiplication (`FractionsTransitive`) with windows that are not empty. The
lemmas on pushes, purges and places are those of the base class.

**The classes.** `ClassInv` says that the map is a bijection onto the indices
and that each queue holds packets of the class that leads to it.
`DeadlinesFirst` rests on arithmetic: a multiple of the step that is above the
budget is not below the class (`BestDeltaBounded`). The two loops are recursive
functions over rounds. That such a function exists, and what it returns, is
proved by a least counterexample (`MinOfNaturals`) instead of an induction
theorem: `LoopFindsSmallest` for `classifyPacket`, `LoopResult` for
`determineCollection`, which returns the first index with a ready front, without
one the last with a packet.

`RefinesScheduler` needs `QueueIInv`: the classes, an armed index that is that of
a queue, identities apart, and MAC and counter in step. Its heart is
`ChosenClass`: since the map is visited in increasing order and is a bijection,
the index the loop returns is that of the class the scheduler by class chooses.
The purge by index is the purge by class (`PurgeByClass`), and whether it uses the
deleted message is one of the outcomes `DispatchFaults` allows: two expired
places belong to two packets only because identities are apart (`TwoExpired`).
A class without a queue has no message and an empty queue before and after.

The last section instantiates `DBFPrioritySchedulerProofs` with the refinement
mapping and carries its theorems over, so what is proved by class (budgets,
wakeups, accounting, priorities, and the refinement of `TimedEgress`) is proved
of queues created on demand and found by index.

**The path.** `PathInv` ties header, tag and configuration together
(`HeaderConsistent` and what each phase knows of the tag) and adds three facts:
the header accounts for the time that passed in every phase, from above if the
links are overestimated and from below if they are underestimated; the queue of
the last node is given exactly the budget that is left (the last share is
divided by one, so no rounding survives), which is why only the last hop's
estimate matters; the budgets are ordered because shares rounded in order do not
cross (`SharesInOrder`); and, if the FIBs fit together, a packet whose `dMax` the bare
path can meet can still be in time after every node (a share of the slack is
never more than the slack).

**The egress structure.** `StatInv` says that the three lists are one list
(`Agree`), that the map numbers it, that there are no queues but those of known
classes (so a new queue is the first of its name, `FirstOfItsName`), and that
every packet is in the queue of its class. The count of queues in use is near
the truth because every change of a queue's content is followed by a signal of
that queue: of all queues a purge empties, the last one sets the count right,
up to the packet it is just removing (`PurgeNear`); and a victim of an overflow
leaves a packet behind (`VictimLeavesQueueInUse`). A port has one recorder as
soon as it has a signal (`RecordedOnce`). `EchoInv` is `BitsConserved` itself with
types.

### Model-checked only

* `EveryPacketLeaves`, `EveryBitReported`: liveness under fairness is out of the
  prover's reach.
* The five runs that find a disagreement: a counterexample is its own proof.

## 5. What is not modelled, and why

* The dynamic scheduler on queues by index: its queues are those of
  `DBFPriorityScheduler`; the purge of the dynamic scheduler compares packets,
  not fronts, and does not depend on the order of the queues.
* FIB files that are no XML or lack an attribute: the parser stops before the
  first event.
* The values of the per-port samples (ages of packets): their number is checked.
* Fragments of IP packets, whose second fragment has no transport header for
  `emitPacket` to peek at: the examples send datagrams below the MTU.
* The registration of services and protocols the traffic conditioners pass
  through, the destructors at the end of a simulation, and
  `createFinalizeAndScheduleDynamicModule`, which nothing calls.
* `handleMessage` of `DBFComputer`, which does nothing; `admit`, `hDelay` and
  `fromDelay`, which are copied and never used.
* NED files and examples: configuration. TCP and ARP themselves: INET. ARP
  appears as `MaxLag`, TCP as data that arrive at any time.

## 6. Plan

Done, in this order: packet and queue; static scheduler with its abstract
specification; dynamic scheduler; network path; queues by index and classifier;
wrong and incomplete FIBs on the path, header and tag; the egress structure and
the statistics; the abstract specification of the dynamic scheduler; proofs of
the safety properties and of the three refinements. Next:

1. Several packets on one path, composed with the queues they share.
2. The dynamic scheduler on queues by index, as section 5 says what it leaves out.
3. Theorems about the composition of path and queues, now linked by contract.
