------------------------ MODULE DBFNetworkPathProofs ------------------------
(***************************************************************************)
(* The end-to-end service for paths of any length, any delays, objectives  *)
(* and FIBs.                                                               *)
(***************************************************************************)
EXTENDS DBFNetworkPath, NumberLemmas, SequenceTheorems

-----------------------------------------------------------------------------
(* Shares of a budget.                                                     *)

Share(f, h, up) == IF up THEN -((-f) \div h) ELSE f \div h

(* A share is at most one tick per node away from the exact quotient.      *)
LEMMA ShareBounds ==
  ASSUME NEW f \in Int, NEW h \in Nat \ {0}, NEW up \in BOOLEAN
  PROVE  /\ Share(f, h, up) \in Int
         /\ ~up => h * Share(f, h, up) <= f /\ f < h * Share(f, h, up) + h
         /\ up => h * Share(f, h, up) >= f /\ f > h * Share(f, h, up) - h
<1>1. CASE up
  <2> DEFINE q == (-f) \div h
  <2>1. q \in Int /\ h * q <= -f /\ -f < h * q + h
    BY Division
  <2>2. Share(f, h, up) = -q
    BY <1>1 DEF Share
  <2> HIDE DEF q
  <2>3. h * (-q) = -(h * q) /\ h * q \in Int
    BY <2>1
  <2>4. h * (-q) >= f /\ f > h * (-q) - h
    BY <2>1, <2>3
  <2>5. -q \in Int
    BY <2>1
  <2> QED
    BY <1>1, <2>2, <2>4, <2>5
<1>2. CASE ~up
  BY <1>2, Division DEF Share
<1> QED
  BY <1>1, <1>2

(* The last node keeps the whole budget.                                   *)
LEMMA LastShare ==
  ASSUME NEW f \in Int, NEW up \in BOOLEAN
  PROVE  Share(f, 1, up) = f
  BY DEF Share

LEMMA ShareMonotone ==
  ASSUME NEW f \in Int, NEW g \in Int, f <= g, NEW h \in Nat \ {0}, NEW up \in BOOLEAN
  PROVE  Share(f, h, up) <= Share(g, h, up)
<1> DEFINE s == Share(f, h, up)
           t == Share(g, h, up)
<1>1. /\ s \in Int /\ t \in Int
      /\ ~up => h * s <= f /\ g < h * t + h
      /\ up => h * t >= g /\ f > h * s - h
  BY ShareBounds
<1> HIDE DEF s, t
<1> SUFFICES ASSUME t + 1 <= s PROVE FALSE
  BY <1>1 DEF s, t
<1>2. h * (t + 1) <= h * s
  BY <1>1
<1>3. h * (t + 1) = h * t + h
  BY <1>1
<1>4. h * t \in Int /\ h * s \in Int
  BY <1>1
<1> QED
  BY <1>1, <1>2, <1>3, <1>4

LEMMA ShareIsNextTick ==
  ASSUME NEW f \in Int, NEW h \in Nat \ {0}, NEW up \in BOOLEAN
  PROVE  f \div h <= Share(f, h, up) /\ Share(f, h, up) <= f \div h + 1
<1> DEFINE q == f \div h
           s == Share(f, h, TRUE)
<1>1. /\ q \in Int /\ s \in Int
      /\ h * q <= f /\ f < h * q + h
      /\ h * s >= f /\ f > h * s - h
  BY Division, ShareBounds
<1>2. Share(f, h, FALSE) = q
  BY DEF Share
<1> HIDE DEF q, s
<1>3. h * q \in Int /\ h * s \in Int
  BY <1>1
<1>4. ASSUME s + 1 <= q PROVE FALSE
  <2>1. h * (s + 1) <= h * q /\ h * (s + 1) = h * s + h
    BY <1>1, <1>4
  <2> QED
    BY <1>1, <1>3, <2>1
<1>5. ASSUME q + 2 <= s PROVE FALSE
  <2>1. h * (q + 2) <= h * s /\ h * (q + 2) = h * q + h + h
    BY <1>1, <1>5
  <2> QED
    BY <1>1, <1>3, <2>1
<1>6. q <= s /\ s <= q + 1
  BY <1>1, <1>4, <1>5
<1>7. CASE up
  BY <1>6, <1>7 DEF q, s
<1>8. CASE ~up
  <2>1. Share(f, h, up) = q
    BY <1>8 DEF Share, q
  <2>2. q <= q /\ q <= q + 1
    BY <1>1
  <2> QED
    BY <2>1, <2>2 DEF q
<1> QED
  BY <1>7, <1>8

(* Two shares rounded on their own, but by the same conversion.            *)
LEMMA SharesInOrder ==
  ASSUME NEW f \in Int, NEW g \in Int, f <= g, NEW h \in Nat \ {0},
         NEW upF \in BOOLEAN, NEW upG \in BOOLEAN,
         f \div h = g \div h /\ upF => upG
  PROVE  Share(f, h, upF) <= Share(g, h, upG)
<1> DEFINE s == Share(f, h, upF)
           t == Share(g, h, upG)
           p == f \div h
           q == g \div h
<1>1. p \in Int /\ q \in Int /\ s \in Int /\ t \in Int
  BY Division, ShareBounds
<1>2. p <= q
  <2>1. Share(f, h, FALSE) <= Share(g, h, FALSE)
    BY ShareMonotone
  <2> QED
    BY <2>1 DEF Share
<1>3. s <= p + 1 /\ q <= t
  BY ShareIsNextTick
<1>4. p = q /\ ~upF => s <= t
  <2>1. ~upF => s = p
    BY DEF Share
  <2> QED
    BY <1>1, <1>3, <2>1
<1>5. p = q /\ upF => s <= t
  <2>1. Share(f, h, TRUE) <= Share(g, h, TRUE)
    BY ShareMonotone
  <2> QED
    BY <2>1
<1>6. p # q => s <= t
  <2> HIDE DEF s, t, p, q
  <2> QED
    BY <1>1, <1>2, <1>3
<1> QED
  BY <1>4, <1>5, <1>6

LEMMA ShareOfNatural ==
  ASSUME NEW f \in Nat, NEW h \in Nat \ {0}, NEW up \in BOOLEAN
  PROVE  0 <= Share(f, h, up) /\ Share(f, h, up) <= f
<1> DEFINE s == Share(f, h, up)
<1>1. /\ s \in Int
      /\ ~up => h * s <= f /\ f < h * s + h
      /\ up => h * s >= f /\ f > h * s - h
  BY ShareBounds
<1> HIDE DEF s
<1>2. h * s \in Int
  BY <1>1
<1>3. ASSUME s <= -1 PROVE FALSE
  <2>1. h * s <= h * (-1)
    BY <1>1, <1>3
  <2> QED
    BY <1>1, <1>2, <2>1
<1>4. ASSUME f + 1 <= s PROVE FALSE
  <2>1. h * s - h = h * (s - 1)
    BY <1>1
  <2>2. h * (s - 1) >= s - 1
    BY <1>1, <1>4
  <2>3. h * s >= s
    BY <1>1, <1>4
  <2> QED
    BY <1>1, <1>2, <1>4, <2>1, <2>2, <2>3
<1> QED
  BY <1>1, <1>3, <1>4 DEF s

-----------------------------------------------------------------------------
(* What the FIBs say are delays.                                           *)

LEMMA TransmissionTimeType == CalculateTransmissionTime \in Nat
<1> DEFINE bits == (IF Bits >= 368 THEN Bits ELSE 368) + 208
<1>1. bits \in Nat /\ Datarate \in Nat
  BY PathAssumption
<1> HIDE DEF bits
<1>2. CASE Datarate = 0
  BY <1>2 DEF CalculateTransmissionTime
<1>3. CASE Datarate # 0
  <2>1. bits \div Datarate \in Nat
    BY <1>1, <1>3, NaturalQuotient
  <2> QED
    BY <1>3, <2>1 DEF CalculateTransmissionTime, bits
<1> QED
  BY <1>2, <1>3

LEMMA EstimateTypes ==
  ASSUME TypeOK, NEW n \in Node, DOMAIN fib[n] = Address
  PROVE  /\ Entry(n, "source").lDelay \in Int
         /\ Entry(n, "destination").hops \in Int
         /\ LinkEstimate(n) \in Int /\ RestEstimate(n) \in Int
         /\ LinkEstimate(n) = Entry(n, "source").lDelay + CalculateTransmissionTime
<1>1. fib[n]["source"] \in FibEntry /\ fib[n]["destination"] \in FibEntry
  BY DEF TypeOK, Address
<1>2. /\ Entry(n, "source").lDelay \in Int
      /\ Entry(n, "destination").hops \in Int
      /\ Entry(n, "destination").toDelay \in Int
  BY <1>1 DEF Entry, FibEntry
<1>3. CalculateTransmissionTime \in Nat
  BY TransmissionTimeType
<1>4. Entry(n, "destination").hops * CalculateTransmissionTime \in Int
  BY <1>2, <1>3
<1> QED
  BY <1>2, <1>3, <1>4 DEF LinkEstimate, RestEstimate, GetDelay

(* Reading a file gives each address the entry of one of its lines.        *)
LEMMA ReadFibType ==
  ASSUME NEW lines \in Seq(FibLine)
  PROVE  /\ DOMAIN ReadFib(lines) \subseteq Address
         /\ \A ip \in DOMAIN ReadFib(lines) : ReadFib(lines)[ip] \in FibEntry
<1>1. \A i \in DOMAIN lines : /\ i \in Nat
                              /\ lines[i].ip \in Address
                              /\ lines[i].entry \in FibEntry
  <2>1. DOMAIN lines = 1 .. Len(lines) /\ Len(lines) \in Nat
    BY LenProperties
  <2>2. \A i \in DOMAIN lines : i \in Nat /\ lines[i] \in FibLine
    BY <2>1, ElementOfSeq
  <2> QED
    BY <2>2 DEF FibLine
<1>2. DOMAIN ReadFib(lines) = {lines[i].ip : i \in DOMAIN lines}
  BY DEF ReadFib
<1>3. ASSUME NEW ip \in DOMAIN ReadFib(lines) PROVE ReadFib(lines)[ip] \in FibEntry
  <2> DEFINE I == {i \in DOMAIN lines : lines[i].ip = ip}
  <2>1. I \in SUBSET Nat /\ I # {}
    BY <1>1, <1>2, <1>3
  <2>2. Min(I) \in I
    BY <2>1, MinOfNaturals
  <2>3. ReadFib(lines)[ip] = lines[Min(I)].entry
    BY <1>2, <1>3 DEF ReadFib
  <2> QED
    BY <1>1, <2>2, <2>3
<1> QED
  BY <1>1, <1>2, <1>3

(* Only DBFComputer::initialize changes what the FIBs say.                 *)
LEMMA FibUnchanged ==
  ASSUME slo' = slo, fib' = fib
  PROVE  /\ IsBEMode' <=> IsBEMode
         /\ IsRefused(slo)' <=> IsRefused(slo)
         /\ CompleteFib' <=> CompleteFib
         /\ LinksOverestimated' <=> LinksOverestimated
         /\ LinksUnderestimated' <=> LinksUnderestimated
         /\ ConsistentFib' <=> ConsistentFib
         /\ LastHop' <=> LastHop
         /\ \A n \in Int : /\ CompleteAt(n)' <=> CompleteAt(n)
                           /\ LinkEstimate(n)' = LinkEstimate(n)
                           /\ RestEstimate(n)' = RestEstimate(n)
<1>1. /\ IsBEMode' <=> IsBEMode
      /\ IsRefused(slo)' <=> IsRefused(slo)
      /\ LastHop' <=> LastHop
  BY DEF IsBEMode, IsRefused, LastHop, Entry
<1>2. \A n \in Int : /\ CompleteAt(n)' <=> CompleteAt(n)
                     /\ LinkEstimate(n)' = LinkEstimate(n)
                     /\ RestEstimate(n)' = RestEstimate(n)
  BY DEF CompleteAt, LinkEstimate, RestEstimate, GetDelay, Entry,
         CalculateTransmissionTime
<1>3. CompleteFib' <=> CompleteFib
  BY <1>2 DEF CompleteFib
<1>4. /\ LinksOverestimated' <=> LinksOverestimated
      /\ LinksUnderestimated' <=> LinksUnderestimated
  BY <1>2, <1>3 DEF LinksOverestimated, LinksUnderestimated
<1>5. ConsistentFib' <=> ConsistentFib
  <2>1. \A n \in 0 .. Hops - 2 : n \in Int /\ n + 1 \in Int
    OBVIOUS
  <2>2. \A n \in 0 .. Hops - 1 : Entry(n, "destination").hops' = Entry(n, "destination").hops
    BY DEF Entry
  <2> QED
    BY <1>2, <1>3, <2>1, <2>2 DEF ConsistentFib
<1> QED
  BY <1>1, <1>2, <1>3, <1>4, <1>5

-----------------------------------------------------------------------------
(* The delay a node that has to forward the packet will find it has.       *)
NetworkDelay ==
  options[1].eDelay + (IF node = 0 THEN 0 ELSE LinkEstimate(node))

(***************************************************************************)
(* The inductive invariant: header and tag account for the time that       *)
(* passed in every phase, the queue of the last node is given the budget   *)
(* that is left, and a packet the source deems feasible stays so.          *)
(***************************************************************************)
Accounting ==
  /\ phase \in {"start", "app"} =>
       now = 0 /\ node = 0 /\ tag = NoTag /\ options = <<>>
  /\ phase \in {"app", "network", "queue", "link"} => ~IsRefused(slo)
  /\ phase = "network" /\ ~IsBEMode =>
       /\ tag.tRcv = now
       /\ tag.fromNetwork <=> node # 0
       /\ node = 0 => now = 0 /\ options[1].eDelay = 0
       /\ LinksOverestimated => NetworkDelay >= now
       /\ LinksUnderestimated => NetworkDelay <= now
  /\ phase = "queue" /\ ~IsBEMode =>
       /\ DOMAIN fib[node] = Address
       /\ tag.eDelay = options[1].eDelay
       /\ tag.dMin = slo.dMin /\ tag.dMax = slo.dMax
  /\ phase = "link" => tag = NoTag
  /\ EDelayIsElapsed

LastNode ==
  node = Hops - 1 /\ ~IsBEMode /\ CompleteFib /\ LastHop =>
    /\ phase = "queue" =>
         /\ slo.dMin # 0 => tag.lqMin = slo.dMin - RestEstimate(node) - tag.eDelay
         /\ slo.dMax # 0 => tag.lqMax = slo.dMax - RestEstimate(node) - tag.eDelay
    /\ phase = "link" =>
         /\ slo.dMin # 0 => slo.dMin <= options[1].eDelay + RestEstimate(node)
         /\ slo.dMax # 0 => options[1].eDelay + RestEstimate(node) <= slo.dMax

StillFeasible ==
  ~IsBEMode /\ slo.dMax # 0 /\ ConsistentFib /\ slo.dMax >= RestEstimate(0) =>
    /\ phase = "network" => NetworkDelay + RestEstimate(node) <= slo.dMax
    /\ phase = "queue" => /\ tag.eDelay + RestEstimate(node) <= slo.dMax
                          /\ tag.lqMax <= slo.dMax - RestEstimate(node) - tag.eDelay
    /\ phase = "link" => options[1].eDelay + RestEstimate(node) <= slo.dMax

PathInv ==
  /\ TypeOK /\ HeaderConsistent /\ Accounting /\ LastNode /\ StillFeasible
  /\ ArrivesInTime /\ OnlyInfeasibleExpire /\ BudgetsOrdered
  /\ OnlyBadConfigurationFails

LEMMA InitPathInv == Init => PathInv
<1> SUFFICES ASSUME Init PROVE PathInv
  OBVIOUS
<1>1. /\ now = 0 /\ node = 0 /\ phase = "start" /\ tag = NoTag /\ options = <<>>
      /\ slo = [dMin |-> 0, dMax |-> 0] /\ fib = [n \in Node |-> <<>>]
  BY DEF Init
<1>2. NoTag \in Tag
  BY DEF NoTag, NewTag, Tag
<1>3. TypeOK
  <2>1. options \in Seq(Option) /\ 0 \in Node
    BY <1>1, PathAssumption DEF Node
  <2>2. \A n \in Node : DOMAIN fib[n] = {}
    BY <1>1
  <2> QED
    BY <1>1, <1>2, <2>1, <2>2 DEF TypeOK, Phases
<1> QED
  BY <1>1, <1>3
     DEF PathInv, HeaderConsistent, Accounting, EDelayIsElapsed, LastNode,
         StillFeasible, ArrivesInTime, OnlyInfeasibleExpire, BudgetsOrdered,
         OnlyBadConfigurationFails

LEMMA InitializePathInv ==
  ASSUME PathInv, NEW params \in Slo, NEW files \in FibFiles,
         Initialize(params, files)
  PROVE  PathInv'
<1>1. /\ phase = "start" /\ now' = now /\ node' = node /\ options' = options
      /\ tag' = tag /\ slo' = params
      /\ fib' = [n \in Node |-> ReadFib(files[n])]
      /\ phase' = IF IsRefused(params) THEN "failed" ELSE "app"
  BY DEF Initialize
<1>2. params \in [dMin : Int, dMax : Int]
  BY SloAssumption
<1>3. TypeOK'
  <2>1. \A n \in Node : files[n] \in Seq(FibLine)
    BY FibAssumption
  <2>2. \A n \in Node : /\ DOMAIN fib'[n] \subseteq Address
                        /\ \A ip \in DOMAIN fib'[n] : fib'[n][ip] \in FibEntry
    BY <1>1, <2>1, ReadFibType
  <2>3. DOMAIN fib' = Node
    BY <1>1
  <2>4. phase' \in {"failed", "app"}
    BY <1>1
  <2> QED
    BY <1>1, <1>2, <2>2, <2>3, <2>4 DEF PathInv, TypeOK, Phases
<1>4. /\ now' = 0 /\ node' = 0 /\ tag' = NoTag /\ options' = <<>>
      /\ phase' = "failed" <=> IsRefused(slo')
      /\ phase' \in {"failed", "app"}
  BY <1>1 DEF PathInv, Accounting
<1> QED
  BY <1>3, <1>4
     DEF PathInv, HeaderConsistent, Accounting, EDelayIsElapsed, LastNode,
         StillFeasible, ArrivesInTime, OnlyInfeasibleExpire, BudgetsOrdered,
         OnlyBadConfigurationFails, IsRefused

(* A header with one option has it in front.                               *)
LEMMA OneOption ==
  ASSUME options \in Seq(Option), Len(options) = 1
  PROVE  /\ options[1] \in Option
         /\ options[1].dMin \in Int /\ options[1].dMax \in Int
         /\ options[1].eDelay \in Int
<1>1. options[1] \in Option
  <2>1. 1 \in 1 .. Len(options)
    OBVIOUS
  <2> QED
    BY <2>1, ElementOfSeq
<1> QED
  BY <1>1 DEF Option

LEMMA WithEDelayType ==
  ASSUME options \in Seq(Option), Len(options) = 1, NEW d \in Int
  PROVE  /\ WithEDelay(options, d) \in Seq(Option)
         /\ Len(WithEDelay(options, d)) = 1
         /\ WithEDelay(options, d)[1].eDelay = d
         /\ WithEDelay(options, d)[1].dMin = options[1].dMin
         /\ WithEDelay(options, d)[1].dMax = options[1].dMax
<1> DEFINE o == [options[1] EXCEPT !.eDelay = d]
<1>1. /\ o \in Option /\ o.eDelay = d
      /\ o.dMin = options[1].dMin /\ o.dMax = options[1].dMax
  BY OneOption DEF Option
<1> HIDE DEF o
<1>2. WithEDelay(options, d) = <<o>>
  BY DEF WithEDelay, o
<1>3. <<o>> \in Seq(Option) /\ Len(<<o>>) = 1 /\ <<o>>[1] = o
  BY <1>1
<1> QED
  BY <1>1, <1>2, <1>3

LEMMA EncapsulatePathInv == ASSUME PathInv, Encapsulate PROVE PathInv'
<1>1. /\ phase = "app" /\ phase' = "network" /\ now' = now /\ node' = node
      /\ slo' = slo /\ fib' = fib
  BY DEF Encapsulate
<1>2. /\ now = 0 /\ node = 0 /\ tag = NoTag /\ options = <<>> /\ ~IsRefused(slo)
      /\ TypeOK /\ slo.dMin \in Int /\ slo.dMax \in Int
  BY <1>1 DEF PathInv, Accounting, TypeOK
<1>3. 0 \in Node /\ 0 < Hops /\ Hops \in Nat
  BY PathAssumption DEF Node
<1>4. CASE IsBEMode
  <2>1. tag' = NoTag /\ options' = <<>>
    BY <1>2, <1>4 DEF Encapsulate
  <2>2. TypeOK'
    BY <1>1, <1>2, <1>3, <2>1 DEF TypeOK, Phases
  <2>3. IsBEMode' /\ ~IsRefused(slo)'
    BY <1>1, <1>2, <1>4, FibUnchanged
  <2>4. HeaderConsistent'
    BY <1>1, <2>1, <2>3 DEF HeaderConsistent, NoTag, NewTag
  <2> QED
    BY <1>1, <2>2, <2>3, <2>4
       DEF PathInv, Accounting, EDelayIsElapsed, LastNode, StillFeasible,
           ArrivesInTime, OnlyInfeasibleExpire, BudgetsOrdered,
           OnlyBadConfigurationFails
<1>5. CASE ~IsBEMode
  <2> DEFINE o == [dMin |-> slo.dMin, dMax |-> slo.dMax, eDelay |-> 0]
  <2>1. tag' = NewTag(TRUE, 0, FALSE) /\ options' = Append(options, o)
    BY <1>2, <1>5 DEF Encapsulate
  <2>2. /\ options' = <<o>> /\ o \in Option /\ o.eDelay = 0
        /\ o.dMin = slo.dMin /\ o.dMax = slo.dMax
    BY <1>2, <2>1 DEF Option
  <2> HIDE DEF o
  <2>3. options' \in Seq(Option) /\ Len(options') = 1 /\ options'[1] = o
    BY <2>2
  <2>4. /\ tag' \in Tag /\ tag'.attached = TRUE /\ tag'.tRcv = 0
        /\ tag'.fromNetwork = FALSE
    BY <2>1 DEF NewTag, Tag
  <2>5. TypeOK'
    BY <1>1, <1>2, <1>3, <2>3, <2>4 DEF TypeOK, Phases
  <2>6. ~IsBEMode' /\ ~IsRefused(slo)'
    BY <1>1, <1>2, <1>5, FibUnchanged
  <2>7. HeaderConsistent'
    BY <1>1, <2>2, <2>3, <2>4, <2>6 DEF HeaderConsistent
  <2>8. NetworkDelay' = 0
    BY <1>1, <1>2, <2>2, <2>3 DEF NetworkDelay
  <2>9. Accounting'
    BY <1>1, <1>2, <2>2, <2>3, <2>4, <2>6, <2>8 DEF Accounting, EDelayIsElapsed
  <2>10. StillFeasible'
    <3> SUFFICES ASSUME ConsistentFib, slo.dMax >= RestEstimate(0)
                 PROVE  0 + RestEstimate(0) <= slo.dMax
      BY <1>1, <1>2, <1>3, <2>8, FibUnchanged DEF StillFeasible
    <3>1. DOMAIN fib[0] = Address
      BY <1>3 DEF ConsistentFib, CompleteFib, CompleteAt
    <3>2. RestEstimate(0) \in Int
      BY <1>2, <1>3, <3>1, EstimateTypes
    <3> QED
      BY <1>2, <3>2
  <2> QED
    BY <1>1, <2>5, <2>7, <2>9, <2>10
       DEF PathInv, LastNode, ArrivesInTime, OnlyInfeasibleExpire, BudgetsOrdered,
           OnlyBadConfigurationFails
<1> QED
  BY <1>4, <1>5

(* What is left of the objective for queueing on the way.                  *)
LeftMin ==
  IF slo.dMin # 0 THEN slo.dMin - RestEstimate(node) - NetworkDelay ELSE 0

LeftMax ==
  IF slo.dMax = 0 THEN 0 ELSE slo.dMax - RestEstimate(node) - NetworkDelay

(* The budgets are shares of it, rounded in order.                         *)
LEMMA ProcessedTag ==
  ASSUME PathInv, phase = "network", ~IsBEMode, ~ProcessingThrows,
         NEW upMin \in BOOLEAN, NEW upMax \in BOOLEAN
  PROVE  /\ Processed(upMin, upMax) \in Tag
         /\ Processed(upMin, upMax).attached = TRUE /\ Processed(upMin, upMax).tRcv = now
         /\ Processed(upMin, upMax).dMin = slo.dMin /\ Processed(upMin, upMax).dMax = slo.dMax
         /\ Processed(upMin, upMax).eDelay = NetworkDelay
         /\ Processed(upMin, upMax).lqMin = CalculateLqBudget(LeftMin, upMin)
         /\ Processed(upMin, upMax).lqMax = CalculateLqBudget(LeftMax, upMax)
         /\ RoundsAlike(upMin, upMax) /\ ToHops # 0 =>
              RoundsInOrder(LeftMin, upMin, LeftMax, upMax)
         /\ NetworkDelay \in Int
<1> DEFINE p == PrepareDBFTag
           t == UpdateEdelay(p)
           min == CalculateLqBudget(FqMin(t), upMin)
           max == CalculateLqBudget(FqMax(t), upMax)
<1>1. /\ TypeOK /\ tag \in Tag /\ tag.attached = TRUE /\ tag.tRcv = now
      /\ Len(options) = 1 /\ options \in Seq(Option)
      /\ options[1].dMin = slo.dMin /\ options[1].dMax = slo.dMax
      /\ tag.fromNetwork <=> node # 0
      /\ slo.dMin \in Int /\ slo.dMax \in Int
      /\ node \in Node /\ now \in Nat
  <2>1. TypeOK /\ HeaderConsistent
    BY DEF PathInv
  <2>2. tag \in Tag /\ tag.attached \in BOOLEAN /\ options \in Seq(Option)
    BY <2>1 DEF TypeOK, Tag
  <2>3. tag.attached = TRUE /\ Len(options) = 1
    BY <2>1, <2>2 DEF HeaderConsistent
  <2>4. options[1].dMin = slo.dMin /\ options[1].dMax = slo.dMax
    BY <2>1, <2>3 DEF HeaderConsistent
  <2> QED
    BY <2>1, <2>2, <2>3, <2>4 DEF PathInv, Accounting, TypeOK
<1>2. DOMAIN fib[node] = Address
  BY DEF ProcessingThrows
<1>3. /\ Entry(node, "source").lDelay \in Int
      /\ Entry(node, "destination").hops \in Int
      /\ LinkEstimate(node) \in Int /\ RestEstimate(node) \in Int
      /\ LinkEstimate(node) = Entry(node, "source").lDelay + CalculateTransmissionTime
  BY <1>1, <1>2, EstimateTypes
<1>4. options[1].eDelay \in Int
  BY <1>1, OneOption
<1>5. /\ p \in Tag /\ p.attached = TRUE /\ p.tRcv = now
      /\ p.dMin = slo.dMin /\ p.dMax = slo.dMax /\ p.eDelay = options[1].eDelay
      /\ p.fromNetwork = tag.fromNetwork
  BY <1>1, <1>4 DEF PrepareDBFTag, Tag
<1> HIDE DEF p
<1>6. NetworkDelay \in Int
  BY <1>3, <1>4 DEF NetworkDelay
<1>7. /\ t \in Tag /\ t.attached = TRUE /\ t.tRcv = now
      /\ t.dMin = slo.dMin /\ t.dMax = slo.dMax /\ t.eDelay = NetworkDelay
  <2>1. CASE node = 0
    <3>1. t = p
      BY <1>1, <1>5, <2>1 DEF UpdateEdelay
    <3>2. NetworkDelay = options[1].eDelay
      BY <1>4, <2>1 DEF NetworkDelay
    <3> QED
      BY <1>5, <3>1, <3>2
  <2>2. CASE node # 0
    <3>1. t = [p EXCEPT !.eDelay = @ + LinkEstimate(node)]
      BY <1>1, <1>3, <1>5, <2>2 DEF UpdateEdelay
    <3>2. NetworkDelay = options[1].eDelay + LinkEstimate(node)
      BY <2>2 DEF NetworkDelay
    <3> QED
      BY <1>3, <1>4, <1>5, <3>1, <3>2 DEF Tag
  <2> QED
    BY <2>1, <2>2
<1>8. /\ Processed(upMin, upMax) = [t EXCEPT !.lqMin = min, !.lqMax = max]
      /\ RoundsAlike(upMin, upMax) /\ ToHops # 0 =>
           RoundsInOrder(FqMin(t), upMin, FqMax(t), upMax)
  BY DEF Processed, RoundsAlike, p
<1> HIDE DEF t
<1>9. FqMin(t) = LeftMin
  BY <1>7 DEF FqMin, CalculateFqDelay, RestEstimate, LeftMin
<1>10. FqMax(t) = LeftMax
  BY <1>7 DEF FqMax, CalculateFqDelay, RestEstimate, HasInfiniteDmax, LeftMax
<1>11. min \in Int /\ max \in Int
  <2>1. ASSUME NEW f \in Int, NEW up \in BOOLEAN PROVE CalculateLqBudget(f, up) \in Int
    <3>1. CASE ToHops = 0
      BY <3>1 DEF CalculateLqBudget, LongAgo
    <3>2. CASE ToHops # 0
      <4>1. Dividend(f) \in Int /\ Divisor \in Nat \ {0}
        BY <1>3, <3>2 DEF ToHops, Dividend, Divisor
      <4>2. CalculateLqBudget(f, up) = Share(Dividend(f), Divisor, up)
        BY <3>2 DEF CalculateLqBudget, Share
      <4> QED
        BY <4>1, <4>2, ShareBounds
    <3> QED
      BY <3>1, <3>2
  <2>2. FqMin(t) \in Int /\ FqMax(t) \in Int
    BY <1>1, <1>3, <1>6, <1>9, <1>10 DEF LeftMin, LeftMax
  <2> QED
    BY <2>1, <2>2
<1> QED
  <2> HIDE DEF min, max
  <2>1. /\ Processed(upMin, upMax) \in Tag /\ Processed(upMin, upMax).attached = t.attached
        /\ Processed(upMin, upMax).tRcv = t.tRcv /\ Processed(upMin, upMax).eDelay = t.eDelay
        /\ Processed(upMin, upMax).dMin = t.dMin /\ Processed(upMin, upMax).dMax = t.dMax
        /\ Processed(upMin, upMax).lqMin = min /\ Processed(upMin, upMax).lqMax = max
    BY <1>7, <1>8, <1>11 DEF Tag
  <2> QED
    BY <1>6, <1>7, <1>8, <1>9, <1>10, <2>1 DEF min, max

(***************************************************************************)
(* What the budgets are, however the quotients are rounded: ordered unless *)
(* the packet is too late or hops are negative, all of what is left on the *)
(* last node, and never more than what is left.                            *)
(***************************************************************************)
LEMMA BudgetFacts ==
  ASSUME PathInv, phase = "network", ~IsBEMode, ~ProcessingThrows,
         NEW upMin \in BOOLEAN, NEW upMax \in BOOLEAN, RoundsAlike(upMin, upMax)
  PROVE  /\ ToHops >= 0 /\ slo.dMax # 0 /\ Processed(upMin, upMax).lqMax >= 0
              => Processed(upMin, upMax).lqMin <= Processed(upMin, upMax).lqMax
         /\ ToHops = 1 =>
              /\ slo.dMin # 0 => Processed(upMin, upMax).lqMin = LeftMin
              /\ slo.dMax # 0 => Processed(upMin, upMax).lqMax = LeftMax
         /\ ToHops > 0 /\ slo.dMax # 0
              /\ NetworkDelay + RestEstimate(node) <= slo.dMax =>
                   /\ 0 <= Processed(upMin, upMax).lqMax
                   /\ Processed(upMin, upMax).lqMax <= LeftMax
<1> DEFINE rest == RestEstimate(node)
           min == Processed(upMin, upMax).lqMin
           max == Processed(upMin, upMax).lqMax
<1>1. /\ min = CalculateLqBudget(LeftMin, upMin) /\ max = CalculateLqBudget(LeftMax, upMax)
      /\ NetworkDelay \in Int /\ min \in Int /\ max \in Int
      /\ ToHops # 0 => RoundsInOrder(LeftMin, upMin, LeftMax, upMax)
  BY ProcessedTag DEF Tag
<1>2. /\ TypeOK /\ slo.dMin \in Int /\ slo.dMax \in Int /\ node \in Node
      /\ ~IsRefused(slo)
  BY DEF PathInv, Accounting, TypeOK
<1>3. ToHops \in Int /\ rest \in Int
  <2>1. DOMAIN fib[node] = Address
    BY DEF ProcessingThrows
  <2> QED
    BY <1>2, <2>1, EstimateTypes DEF ToHops
<1>4. LeftMin \in Int /\ LeftMax \in Int
  BY <1>1, <1>2, <1>3 DEF LeftMin, LeftMax
<1>5. slo.dMin >= 0 /\ slo.dMax >= 0
      /\ (slo.dMin > 0 /\ slo.dMax > 0 => slo.dMin <= slo.dMax)
  BY <1>2 DEF IsRefused
<1>6. /\ slo.dMin = 0 => LeftMin = 0
      /\ slo.dMin # 0 => LeftMin = slo.dMin - rest - NetworkDelay
      /\ slo.dMax # 0 => LeftMax = slo.dMax - rest - NetworkDelay
  BY DEF LeftMin, LeftMax
<1>7. CASE ToHops = 0
  <2>1. min \in {0, LongAgo} /\ max \in {0, LongAgo}
    BY <1>1, <1>7 DEF CalculateLqBudget
  <2> HIDE DEF min, max
  <2>2. max >= 0 => min <= max
    BY <2>1 DEF LongAgo
  <2> QED
    BY <1>7, <2>2 DEF min, max
<1>8. CASE ToHops > 0
  <2> DEFINE h == ToHops
  <2>1. /\ min = Share(LeftMin, h, upMin) /\ max = Share(LeftMax, h, upMax)
        /\ h \in Nat \ {0}
    BY <1>1, <1>3, <1>8 DEF CalculateLqBudget, Share, Dividend, Divisor
  <2>2. LeftMin <= LeftMax /\ LeftMin \div h = LeftMax \div h /\ upMin => upMax
    BY <1>1, <1>3, <1>8 DEF RoundsInOrder, Dividend, Divisor
  <2> HIDE DEF h, rest, min, max
  <2>3. ASSUME slo.dMax # 0, max >= 0 PROVE min <= max
    <3>1. CASE slo.dMin = 0
      <4>1. min <= 0
        BY <1>6, <2>1, <3>1, ShareOfNatural
      <4> QED
        BY <1>1, <2>3, <4>1 DEF min, max
    <3>2. CASE slo.dMin # 0
      <4>1. LeftMin <= LeftMax
        BY <1>1, <1>2, <1>3, <1>5, <1>6, <2>3, <3>2 DEF rest
      <4> QED
        BY <1>4, <2>1, <2>2, <4>1, SharesInOrder
    <3> QED
      BY <3>1, <3>2
  <2>4. ASSUME h = 1 PROVE min = LeftMin /\ max = LeftMax
    BY <1>4, <2>1, <2>4, LastShare
  <2>5. ASSUME slo.dMax # 0, NetworkDelay + rest <= slo.dMax
        PROVE  0 <= max /\ max <= LeftMax
    <3>1. LeftMax \in Nat
      BY <1>1, <1>2, <1>3, <1>6, <2>5 DEF rest
    <3> QED
      BY <2>1, <3>1, ShareOfNatural
  <2> QED
    BY <2>3, <2>4, <2>5 DEF h, rest, min, max
<1>9. CASE ToHops < 0
  BY <1>3, <1>9
<1> QED
  BY <1>3, <1>7, <1>8, <1>9

LEMMA SendPacketToNICPathInv ==
  ASSUME PathInv, NEW upMin \in BOOLEAN, NEW upMax \in BOOLEAN,
         NEW lag \in 0 .. MaxLag, SendPacketToNIC(upMin, upMax, lag)
  PROVE  PathInv'
<1>1. /\ phase = "network" /\ now' = now + lag /\ node' = node
      /\ slo' = slo /\ fib' = fib
      /\ TypeOK /\ HeaderConsistent /\ now \in Nat /\ lag \in Nat
      /\ node \in Node /\ tag \in Tag /\ node < Hops
  BY PathAssumption DEF SendPacketToNIC, PathInv, TypeOK
<1>2. tag.attached \in BOOLEAN /\ (tag.attached <=> ~IsBEMode)
  BY <1>1 DEF HeaderConsistent, Tag
<1>3. now' \in Nat /\ slo.dMin \in Int /\ slo.dMax \in Int /\ ~IsRefused(slo)'
  BY <1>1, FibUnchanged DEF TypeOK, PathInv, Accounting
<1>4. CASE IsBEMode
  <2>1. phase' = "queue" /\ options' = options /\ tag' = tag
    BY <1>2, <1>4 DEF SendPacketToNIC
  <2>2. TypeOK' /\ IsBEMode'
    BY <1>1, <1>3, <1>4, <2>1, FibUnchanged DEF TypeOK, Phases
  <2>3. HeaderConsistent'
    BY <1>1, <2>1, <2>2, <1>4 DEF HeaderConsistent
  <2>4. BudgetsOrdered'
    BY <1>2, <1>4, <2>1 DEF BudgetsOrdered
  <2> QED
    BY <1>3, <2>1, <2>2, <2>3, <2>4
       DEF PathInv, Accounting, EDelayIsElapsed, LastNode, StillFeasible,
           ArrivesInTime, OnlyInfeasibleExpire, OnlyBadConfigurationFails
<1>5. CASE ~IsBEMode /\ ProcessingThrows
  <2>1. phase' = "failed" /\ options' = options /\ tag' = tag
    BY <1>2, <1>5 DEF SendPacketToNIC
  <2>2. TypeOK'
    BY <1>1, <1>3, <2>1 DEF TypeOK, Phases
  <2>3. ~IsBEMode' /\ (~CompleteAt(node)' \/ ToHops' = 0)
    <3>1. ~CompleteAt(node) \/ ToHops = 0
      BY <1>5 DEF ProcessingThrows, CompleteAt
    <3>2. ToHops' = ToHops /\ (CompleteAt(node)' <=> CompleteAt(node))
      BY <1>1 DEF ToHops, Entry, CompleteAt
    <3> QED
      BY <1>1, <1>5, <3>1, <3>2, FibUnchanged
  <2> QED
    BY <2>1, <2>2, <2>3
       DEF PathInv, HeaderConsistent, Accounting, EDelayIsElapsed, LastNode,
           StillFeasible, ArrivesInTime, OnlyInfeasibleExpire, BudgetsOrdered,
           OnlyBadConfigurationFails
<1>6. CASE ~IsBEMode /\ ~ProcessingThrows
  <2> DEFINE p == Processed(upMin, upMax)
             rest == RestEstimate(node)
  <2>1. /\ tag' = p /\ options' = WithEDelay(options, p.eDelay)
        /\ phase' = IF IsAlreadyExpired(p) THEN "expired" ELSE "queue"
        /\ RoundsAlike(upMin, upMax)
    BY <1>2, <1>6 DEF SendPacketToNIC
  <2>2. /\ p \in Tag /\ p.attached = TRUE /\ p.tRcv = now
        /\ p.dMin = slo.dMin /\ p.dMax = slo.dMax
        /\ p.eDelay = NetworkDelay /\ NetworkDelay \in Int
        /\ p.lqMin \in Int /\ p.lqMax \in Int
    BY <1>1, <1>6, ProcessedTag DEF Tag
  <2>3. /\ ToHops >= 0 /\ slo.dMax # 0 /\ p.lqMax >= 0 => p.lqMin <= p.lqMax
        /\ ToHops = 1 =>
             /\ slo.dMin # 0 => p.lqMin = slo.dMin - rest - NetworkDelay
             /\ slo.dMax # 0 => p.lqMax = slo.dMax - rest - NetworkDelay
        /\ ToHops > 0 /\ slo.dMax # 0 /\ NetworkDelay + rest <= slo.dMax =>
             0 <= p.lqMax /\ p.lqMax <= slo.dMax - rest - NetworkDelay
    <3> HIDE DEF p
    <3>1. /\ slo.dMin # 0 => LeftMin = slo.dMin - rest - NetworkDelay
          /\ slo.dMax # 0 => LeftMax = slo.dMax - rest - NetworkDelay
      BY DEF LeftMin, LeftMax
    <3> QED
      BY <1>1, <1>6, <2>1, <3>1, BudgetFacts DEF p
  <2> HIDE DEF p
  <2>4. /\ Len(options) = 1 /\ options \in Seq(Option)
        /\ options[1].dMin = slo.dMin /\ options[1].dMax = slo.dMax
    <3>1. Len(options) = 1 /\ options \in Seq(Option)
      BY <1>1, <1>6 DEF HeaderConsistent, TypeOK
    <3>2. 1 \in 1 .. Len(options)
      BY <3>1
    <3> QED
      BY <1>1, <3>1, <3>2 DEF HeaderConsistent
  <2>5. /\ options' \in Seq(Option) /\ Len(options') = 1
        /\ options'[1].eDelay = NetworkDelay
        /\ options'[1].dMin = slo.dMin /\ options'[1].dMax = slo.dMax
    BY <2>1, <2>2, <2>4, WithEDelayType
  <2>6. phase' \in {"expired", "queue"} /\ ~IsBEMode'
    BY <1>1, <1>6, <2>1, FibUnchanged
  <2>7. TypeOK'
    BY <1>1, <1>3, <2>1, <2>2, <2>5, <2>6 DEF TypeOK, Phases
  <2>8. HeaderConsistent'
    <3>1. \A i \in 1 .. Len(options') : i = 1
      BY <2>5
    <3>2. tag'.attached <=> ~IsBEMode' /\ phase' # "link"
      BY <2>1, <2>2, <2>6
    <3> QED
      BY <1>1, <2>5, <2>6, <3>1, <3>2 DEF HeaderConsistent
  <2>9. EDelayIsElapsed'
    <3> SUFFICES ASSUME phase' = "queue"
                 PROVE  /\ LinksOverestimated => NetworkDelay >= now
                        /\ LinksUnderestimated => NetworkDelay <= now
      BY <1>1, <2>1, <2>2, <2>5, <2>6, FibUnchanged DEF EDelayIsElapsed, Elapsed
    <3> QED
      BY <1>1, <1>6 DEF PathInv, Accounting
  <2>10. Accounting'
    <3>1. DOMAIN fib[node] = Address
      BY <1>6 DEF ProcessingThrows
    <3> QED
      BY <1>1, <1>3, <2>1, <2>2, <2>5, <2>6, <2>9, <3>1 DEF Accounting
  <2>11. LastNode'
    <3> SUFFICES ASSUME node = Hops - 1, LastHop
                 PROVE  /\ slo.dMin # 0 => p.lqMin = slo.dMin - rest - NetworkDelay
                        /\ slo.dMax # 0 => p.lqMax = slo.dMax - rest - NetworkDelay
      BY <1>1, <2>1, <2>2, <2>6, FibUnchanged DEF LastNode, Node
    <3> QED
      BY <2>3 DEF LastHop, ToHops
  <2>12. ASSUME slo.dMax # 0, ConsistentFib, slo.dMax >= RestEstimate(0)
         PROVE  /\ NetworkDelay + rest <= slo.dMax
                /\ 0 <= p.lqMax /\ p.lqMax <= slo.dMax - rest - NetworkDelay
    <3>1. NetworkDelay + rest <= slo.dMax
      BY <1>1, <1>6, <2>12 DEF PathInv, StillFeasible
    <3>2. ToHops > 0
      BY <1>1, <2>12, PathAssumption DEF ConsistentFib, CompleteFib, CompleteAt, ToHops, Node
    <3> QED
      BY <2>3, <2>12, <3>1, <3>2
  <2>13. 0 \in Int /\ node \in Int /\ RestEstimate(0)' = RestEstimate(0)
         /\ RestEstimate(node)' = rest
    BY <1>1, FibUnchanged DEF Node, RestEstimate, GetDelay, Entry,
       CalculateTransmissionTime
  <2>14. StillFeasible'
    BY <1>1, <2>1, <2>2, <2>6, <2>12, <2>13, FibUnchanged DEF StillFeasible
  <2>15. OnlyInfeasibleExpire'
    <3> SUFFICES ASSUME IsAlreadyExpired(p), ConsistentFib
                 PROVE  slo.dMax < RestEstimate(0)
      BY <1>1, <2>1, <2>13, FibUnchanged DEF OnlyInfeasibleExpire
    <3>1. slo.dMax # 0 /\ p.lqMax < 0
      BY <1>1, <2>2 DEF IsAlreadyExpired, HasInfiniteDmax
    <3>2. RestEstimate(0) \in Int
      <4>1. DOMAIN fib[0] = Address /\ 0 \in Node
        BY PathAssumption DEF ConsistentFib, CompleteFib, CompleteAt, Node
      <4> QED
        BY <1>1, <4>1, EstimateTypes
    <3> QED
      BY <1>3, <2>2, <2>12, <3>1, <3>2
  <2>16. BudgetsOrdered'
    <3>1. ToHops' = ToHops
      BY <1>1 DEF ToHops, Entry
    <3> SUFFICES ASSUME ~IsAlreadyExpired(p), slo.dMax # 0
                 PROVE  (ToHops >= 0 => p.lqMin <= p.lqMax) /\ p.lqMax >= 0
      BY <2>1, <2>2, <3>1 DEF BudgetsOrdered, HasInfiniteDmax
    <3> QED
      BY <1>1, <2>2, <2>3 DEF IsAlreadyExpired, HasInfiniteDmax
  <2> QED
    BY <2>6, <2>7, <2>8, <2>10, <2>11, <2>14, <2>15, <2>16
       DEF PathInv, ArrivesInTime, OnlyBadConfigurationFails
<1> QED
  BY <1>4, <1>5, <1>6

LEMMA SchedulePathInv ==
  ASSUME PathInv, NEW at \in now .. now + MaxDelay, Schedule(at)
  PROVE  PathInv'
<1>1. /\ phase = "queue" /\ phase' = "link" /\ now' = at /\ node' = node
      /\ slo' = slo /\ fib' = fib /\ tag' = NoTag
      /\ tag.attached => InBudget(at)
  BY DEF Schedule, Untagged
<1>2. /\ TypeOK /\ HeaderConsistent /\ now \in Nat /\ at \in Nat /\ node \in Node
      /\ tag \in Tag /\ options \in Seq(Option)
      /\ slo.dMin \in Int /\ slo.dMax \in Int /\ ~IsRefused(slo)
  BY <1>1, PathAssumption DEF PathInv, TypeOK, Accounting
<1>3. tag.attached \in BOOLEAN /\ (tag.attached <=> ~IsBEMode)
  BY <1>1, <1>2 DEF HeaderConsistent, Tag
<1>4. /\ NoTag \in Tag /\ NoTag.attached = FALSE /\ ~IsRefused(slo)'
      /\ IsBEMode' <=> IsBEMode
  BY <1>1, <1>2, FibUnchanged DEF NoTag, NewTag, Tag
<1>5. CASE IsBEMode
  <2>1. options' = options
    BY <1>3, <1>5 DEF Schedule
  <2>2. TypeOK'
    BY <1>1, <1>2, <1>4, <2>1 DEF TypeOK, Phases
  <2>3. HeaderConsistent'
    BY <1>1, <1>2, <1>4, <1>5, <2>1 DEF HeaderConsistent
  <2> QED
    BY <1>1, <1>4, <1>5, <2>2, <2>3
       DEF PathInv, Accounting, EDelayIsElapsed, LastNode, StillFeasible,
           ArrivesInTime, OnlyInfeasibleExpire, BudgetsOrdered,
           OnlyBadConfigurationFails
<1>6. CASE ~IsBEMode
  <2> DEFINE d == tag.eDelay + at - tag.tRcv
             rest == RestEstimate(node)
  <2>1. options' = WithEDelay(options, d)
    BY <1>3, <1>6 DEF Schedule
  <2>2. /\ tag.eDelay \in Int /\ tag.tRcv \in Nat /\ tag.lqMin \in Int
        /\ tag.lqMax \in Int /\ d \in Int
    BY <1>2 DEF Tag
  <2>3. /\ ToHops >= 0 => /\ tag.lqMin <= at - tag.tRcv
                          /\ slo.dMax # 0 => at - tag.tRcv <= tag.lqMax
        /\ tag.eDelay = options[1].eDelay
        /\ DOMAIN fib[node] = Address
    <3>1. InBudget(at) /\ tag.dMax = slo.dMax /\ tag.eDelay = options[1].eDelay
      BY <1>1, <1>3, <1>6 DEF PathInv, Accounting
    <3>2. ToHops >= 0 => HasInfiniteDmax(tag) \/ tag.lqMin <= tag.lqMax
      BY <1>1, <1>3, <1>6 DEF PathInv, BudgetsOrdered
    <3> QED
      BY <1>1, <1>2, <1>6, <2>2, <3>1, <3>2
         DEF InBudget, HasInfiniteDmax, PathInv, Accounting
  <2>4. rest \in Int
    BY <1>2, <2>3, EstimateTypes
  <2>5. /\ Len(options) = 1
        /\ options[1].dMin = slo.dMin /\ options[1].dMax = slo.dMax
    <3>1. Len(options) = 1
      BY <1>1, <1>2, <1>6 DEF HeaderConsistent
    <3>2. 1 \in 1 .. Len(options)
      BY <3>1
    <3> QED
      BY <1>1, <1>2, <3>1, <3>2 DEF HeaderConsistent
  <2>6. /\ options' \in Seq(Option) /\ Len(options') = 1 /\ options'[1].eDelay = d
        /\ options'[1].dMin = slo.dMin /\ options'[1].dMax = slo.dMax
    BY <1>2, <2>1, <2>2, <2>5, WithEDelayType
  <2>7. TypeOK'
    BY <1>1, <1>2, <1>4, <2>6 DEF TypeOK, Phases
  <2>8. HeaderConsistent'
    <3>1. \A i \in 1 .. Len(options') : i = 1
      BY <2>6
    <3> QED
      BY <1>1, <1>4, <1>6, <2>6, <3>1 DEF HeaderConsistent
  <2>9. Accounting'
    <3>1. /\ LinksOverestimated => tag.eDelay >= tag.tRcv
          /\ LinksUnderestimated => tag.eDelay <= tag.tRcv
      BY <1>1, <1>6, <2>3 DEF PathInv, Accounting, EDelayIsElapsed, Elapsed
    <3>2. EDelayIsElapsed'
      <4> HIDE DEF d
      <4>1. /\ LinksOverestimated => d >= at
            /\ LinksUnderestimated => d <= at
        BY <1>2, <2>2, <3>1 DEF d
      <4> QED
        BY <1>1, <2>6, <4>1, FibUnchanged DEF EDelayIsElapsed, Elapsed
    <3> QED
      BY <1>1, <1>4, <3>2 DEF Accounting
  <2>10. rest' = rest /\ RestEstimate(0)' = RestEstimate(0)
    BY <1>1, FibUnchanged DEF RestEstimate, GetDelay, Entry, CalculateTransmissionTime
  <2>11. LastNode'
    <3> SUFFICES ASSUME node = Hops - 1, CompleteFib, LastHop
                 PROVE  /\ slo.dMin # 0 => slo.dMin <= d + rest
                        /\ slo.dMax # 0 => d + rest <= slo.dMax
      BY <1>1, <1>6, <2>6, <2>10, FibUnchanged DEF LastNode
    <3>1. /\ slo.dMin # 0 => tag.lqMin = slo.dMin - rest - tag.eDelay
          /\ slo.dMax # 0 => tag.lqMax = slo.dMax - rest - tag.eDelay
      BY <1>1, <1>6 DEF PathInv, LastNode
    <3>4. ToHops >= 0
      BY DEF LastHop, ToHops
    <3> HIDE DEF rest
    <3>2. ASSUME slo.dMin # 0 PROVE slo.dMin <= d + rest
      <4>1. slo.dMin = tag.lqMin + rest + tag.eDelay
        BY <1>2, <2>2, <2>4, <3>1, <3>2
      <4> QED
        BY <1>2, <2>2, <2>3, <2>4, <3>4, <4>1
    <3>3. ASSUME slo.dMax # 0 PROVE d + rest <= slo.dMax
      <4>1. slo.dMax = tag.lqMax + rest + tag.eDelay
        BY <1>2, <2>2, <2>4, <3>1, <3>3
      <4> QED
        BY <1>2, <2>2, <2>3, <2>4, <3>3, <3>4, <4>1
    <3> QED
      BY <3>2, <3>3
  <2>12. StillFeasible'
    <3> SUFFICES ASSUME slo.dMax # 0, ConsistentFib, slo.dMax >= RestEstimate(0)
                 PROVE  d + rest <= slo.dMax
      BY <1>1, <2>6, <2>10, FibUnchanged DEF StillFeasible
    <3>1. tag.lqMax <= slo.dMax - rest - tag.eDelay
      BY <1>1, <1>6 DEF PathInv, StillFeasible
    <3>2. ToHops > 0 /\ ToHops \in Int
      <4>1. node \in 0 .. Hops - 1
        BY <1>1, <1>2, PathAssumption DEF TypeOK, Node
      <4> QED
        BY <1>2, <2>3, <4>1, EstimateTypes
           DEF ConsistentFib, CompleteFib, CompleteAt, ToHops
    <3>3. ToHops >= 0
      BY <3>2
    <3> QED
      BY <1>2, <2>2, <2>3, <2>4, <3>1, <3>3
  <2> QED
    BY <1>1, <2>7, <2>8, <2>9, <2>11, <2>12
       DEF PathInv, ArrivesInTime, OnlyInfeasibleExpire, BudgetsOrdered,
           OnlyBadConfigurationFails
<1> QED
  BY <1>5, <1>6

LEMMA LosePathInv == ASSUME PathInv, Lose PROVE PathInv'
<1>1. /\ phase' = "lost" /\ now' = now /\ node' = node /\ options' = options
      /\ tag' = tag /\ slo' = slo /\ fib' = fib
  BY DEF Lose
<1> QED
  BY <1>1 DEF PathInv, TypeOK, Phases, HeaderConsistent, Accounting, EDelayIsElapsed,
              LastNode, StillFeasible, ArrivesInTime, OnlyInfeasibleExpire,
              BudgetsOrdered, OnlyBadConfigurationFails

LEMMA ReceivePathInv == ASSUME PathInv, Receive PROVE PathInv'
<1>1. /\ phase = "link" /\ now' = now + LinkTime[node] /\ node' = node + 1
      /\ options' = options /\ slo' = slo /\ fib' = fib
  BY DEF Receive
<1>2. /\ TypeOK /\ HeaderConsistent /\ now \in Nat /\ node \in 0 .. Hops - 1
      /\ options \in Seq(Option) /\ slo.dMin \in Int /\ slo.dMax \in Int
      /\ tag = NoTag /\ ~IsRefused(slo) /\ Hops \in Nat
  BY <1>1, PathAssumption DEF PathInv, TypeOK, Accounting, Node
<1>3. LinkTime[node] \in Nat /\ now' \in Nat /\ node' \in Node
  BY <1>1, <1>2, PathAssumption DEF Node
<1>4. NoTag \in Tag /\ NoTag.attached = FALSE
  BY DEF NoTag, NewTag, Tag
<1>5. phase' = Routed(node + 1)
  BY <1>1, <1>2, <1>4 DEF Receive
<1>6. /\ phase' \in {"network", "delivered"}
      /\ phase' = "delivered" <=> node + 1 = Hops
  BY <1>5 DEF Routed
<1>7. IsBEMode' <=> IsBEMode
  BY <1>1, FibUnchanged
<1>8. ~IsRefused(slo)'
  BY <1>1, <1>2, FibUnchanged
<1>9. CASE IsBEMode
  <2>1. Len(options) = 0 /\ ~ContainsDBFOptions
    <3>1. Len(options) = 0
      BY <1>1, <1>2, <1>9 DEF HeaderConsistent
    <3> QED
      BY <1>2, <3>1, EmptySeq DEF ContainsDBFOptions
  <2>2. tag' = NoTag
    BY <1>2, <2>1 DEF Receive
  <2>3. TypeOK'
    BY <1>1, <1>2, <1>3, <1>4, <1>6, <2>2 DEF TypeOK, Phases
  <2>4. HeaderConsistent'
    BY <1>1, <1>4, <1>7, <1>9, <2>1, <2>2 DEF HeaderConsistent
  <2>5. ArrivesInTime'
    <3>1. slo.dMin = 0 /\ slo.dMax = 0
      BY <1>9 DEF IsBEMode
    <3> QED
      BY <1>1, <1>3, <3>1 DEF ArrivesInTime
  <2> QED
    BY <1>6, <1>7, <1>8, <1>9, <2>3, <2>4, <2>5
       DEF PathInv, Accounting, EDelayIsElapsed, LastNode, StillFeasible,
           OnlyInfeasibleExpire, BudgetsOrdered, OnlyBadConfigurationFails
<1>10. CASE ~IsBEMode
  <2> DEFINE e == options[1].eDelay
  <2>1. Len(options) = 1 /\ ContainsDBFOptions
    <3>1. Len(options) = 1
      BY <1>1, <1>2, <1>10 DEF HeaderConsistent
    <3>2. options # <<>>
      BY <3>1
    <3> QED
      BY <3>1, <3>2 DEF ContainsDBFOptions
  <2>2. tag' = NewTag(TRUE, now', TRUE)
    BY <2>1 DEF Receive
  <2>3. /\ tag' \in Tag /\ tag'.attached = TRUE /\ tag'.tRcv = now'
        /\ tag'.fromNetwork = TRUE
    BY <1>3, <2>2 DEF NewTag, Tag
  <2>4. e \in Int
    BY <1>2, <2>1, OneOption
  <2>5. TypeOK'
    BY <1>1, <1>2, <1>3, <1>6, <2>3 DEF TypeOK, Phases
  <2>6. HeaderConsistent'
    BY <1>1, <1>2, <1>6, <1>7, <1>10, <2>1, <2>3 DEF HeaderConsistent
  <2>7. /\ LinksOverestimated => e >= now
        /\ LinksUnderestimated => e <= now
    BY <1>1, <1>10 DEF PathInv, Accounting, EDelayIsElapsed, Elapsed
  <2>8. NetworkDelay' = e + LinkEstimate(node + 1)
    <3>1. PICK m \in Int : m = node + 1 /\ m # 0
      BY <1>2
    <3>2. LinkEstimate(m)' = LinkEstimate(m)
      BY <1>1, FibUnchanged
    <3>3. LinkEstimate(node)' = LinkEstimate(m)'
      BY <1>1, <3>1 DEF LinkEstimate, Entry
    <3>4. NetworkDelay' = e + LinkEstimate(node)'
      BY <1>1, <3>1 DEF NetworkDelay
    <3> QED
      BY <3>1, <3>2, <3>3, <3>4
  <2>9. ASSUME CompleteFib, node + 1 < Hops
        PROVE  /\ LinkEstimate(node + 1) \in Int /\ RestEstimate(node + 1) \in Int
               /\ RestEstimate(node) \in Int
    <3>1. node + 1 \in 0 .. Hops - 1 /\ node + 1 \in Node /\ node \in Node
      BY <1>2, <2>9 DEF Node
    <3>2. DOMAIN fib[node + 1] = Address /\ DOMAIN fib[node] = Address
      BY <1>2, <2>9, <3>1 DEF CompleteFib, CompleteAt
    <3> QED
      BY <1>2, <3>1, <3>2, EstimateTypes
  <2>10. Accounting'
    <3>1. ASSUME LinksOverestimated, node + 1 < Hops PROVE NetworkDelay' >= now'
      <4>1. node + 1 \in 1 .. Hops - 1 /\ (node + 1) - 1 = node
        BY <1>2, <3>1
      <4>2. LinkEstimate(node + 1) >= LinkTime[node]
        BY <3>1, <4>1 DEF LinksOverestimated
      <4> QED
        <5>1. LinkEstimate(node + 1) \in Int /\ e >= now
          BY <2>7, <2>9, <3>1 DEF LinksOverestimated
        <5> QED
          BY <1>1, <1>2, <1>3, <2>4, <2>8, <4>2, <5>1
    <3>2. ASSUME LinksUnderestimated, node + 1 < Hops PROVE NetworkDelay' <= now'
      <4>1. node + 1 \in 1 .. Hops - 1 /\ (node + 1) - 1 = node
        BY <1>2, <3>2
      <4>2. LinkEstimate(node + 1) <= LinkTime[node]
        BY <3>2, <4>1 DEF LinksUnderestimated
      <4> QED
        <5>1. LinkEstimate(node + 1) \in Int /\ e <= now
          BY <2>7, <2>9, <3>2 DEF LinksUnderestimated
        <5> QED
          BY <1>1, <1>2, <1>3, <2>4, <2>8, <4>2, <5>1
    <3>3. phase' = "network" => node + 1 < Hops
      BY <1>2, <1>6
    <3>4. node' # 0
      BY <1>1, <1>2
    <3> QED
      BY <1>1, <1>6, <1>8, <2>3, <3>1, <3>2, <3>3, <3>4, FibUnchanged
         DEF Accounting, EDelayIsElapsed
  <2>11. StillFeasible'
    <3> SUFFICES ASSUME phase' = "network", slo.dMax # 0, ConsistentFib,
                        slo.dMax >= RestEstimate(0)
                 PROVE  e + LinkEstimate(node + 1) + RestEstimate(node + 1) <= slo.dMax
      <4>1. PICK m \in Int : m = node + 1
        BY <1>2
      <4>2. RestEstimate(0)' = RestEstimate(0) /\ RestEstimate(m)' = RestEstimate(m)
        BY <1>1, FibUnchanged
      <4>3. RestEstimate(node)' = RestEstimate(m)'
        BY <1>1, <4>1 DEF RestEstimate, Entry
      <4> QED
        BY <1>1, <1>6, <2>8, <4>1, <4>2, <4>3, FibUnchanged DEF StillFeasible
    <3>1. node + 1 < Hops /\ node \in 0 .. Hops - 2
      BY <1>2, <1>6
    <3>2. e + RestEstimate(node) <= slo.dMax
      BY <1>1, <1>10 DEF PathInv, StillFeasible
    <3>3. RestEstimate(node) >= LinkEstimate(node + 1) + RestEstimate(node + 1)
      BY <3>1 DEF ConsistentFib
    <3>4. CompleteFib
      BY DEF ConsistentFib
    <3> QED
      BY <1>2, <2>4, <2>9, <3>1, <3>2, <3>3, <3>4
  <2>12. ArrivesInTime'
    <3> DEFINE rest == RestEstimate(Hops - 1)
               link == LinkTime[Hops - 1]
    <3> SUFFICES ASSUME node = Hops - 1, LastHop
                 PROVE  /\ LinksOverestimated /\ slo.dMax # 0 /\ rest >= link
                             => now + link <= slo.dMax
                        /\ LinksUnderestimated /\ rest <= link
                             => slo.dMin <= now + link
      <4>1. phase' = "delivered" => node = Hops - 1
        BY <1>2, <1>6
      <4>2. rest' = rest
        BY <1>1, <1>2, FibUnchanged
      <4> QED
        BY <1>1, <4>1, <4>2, FibUnchanged DEF ArrivesInTime
    <3>1. ASSUME CompleteFib PROVE rest \in Int
      <4>1. DOMAIN fib[Hops - 1] = Address /\ Hops - 1 \in Node
        BY <1>2, <3>1 DEF CompleteFib, CompleteAt, Node
      <4> QED
        BY <1>2, <4>1, EstimateTypes
    <3>2. ASSUME CompleteFib
          PROVE  /\ slo.dMin # 0 => slo.dMin <= e + rest
                 /\ slo.dMax # 0 => e + rest <= slo.dMax
      BY <1>1, <1>10, <3>2 DEF PathInv, LastNode
    <3>3. link \in Nat
      BY <1>3
    <3> HIDE DEF rest, link
    <3>4. ASSUME LinksOverestimated, slo.dMax # 0, rest >= link
          PROVE  now + link <= slo.dMax
      <4>1. CompleteFib
        BY <3>4 DEF LinksOverestimated
      <4> QED
        BY <1>2, <2>4, <2>7, <3>1, <3>2, <3>3, <3>4, <4>1
    <3>5. ASSUME LinksUnderestimated, rest <= link
          PROVE  slo.dMin <= now + link
      <4>1. CompleteFib
        BY <3>5 DEF LinksUnderestimated
      <4> QED
        BY <1>2, <2>4, <2>7, <3>1, <3>2, <3>3, <3>5, <4>1
    <3> QED
      BY <3>4, <3>5
  <2> QED
    BY <1>6, <2>5, <2>6, <2>10, <2>11, <2>12
       DEF PathInv, LastNode, OnlyInfeasibleExpire, BudgetsOrdered,
           OnlyBadConfigurationFails
<1> QED
  BY <1>9, <1>10

LEMMA StutterPathInv == ASSUME PathInv, UNCHANGED vars PROVE PathInv'
<1> USE DEF IsBEMode, IsRefused, Entry, GetDelay, CalculateTransmissionTime, CompleteAt,
            CompleteFib, LinkEstimate, RestEstimate, LinksOverestimated,
            LinksUnderestimated, LastHop, ToHops, NetworkDelay, NoTag, NewTag, HasInfiniteDmax
<1>1. /\ phase' = phase /\ now' = now /\ node' = node /\ options' = options
      /\ tag' = tag /\ slo' = slo /\ fib' = fib
  BY DEF vars
<1>2. TypeOK' /\ HeaderConsistent'
  BY <1>1 DEF PathInv, TypeOK, HeaderConsistent
<1>3. Accounting'
  BY <1>1 DEF PathInv, Accounting, EDelayIsElapsed, Elapsed
<1>4. LastNode'
  BY <1>1 DEF PathInv, LastNode
<1>5. StillFeasible'
  BY <1>1 DEF PathInv, StillFeasible, ConsistentFib
<1>6. ArrivesInTime'
  BY <1>1 DEF PathInv, ArrivesInTime
<1>7. OnlyInfeasibleExpire' /\ BudgetsOrdered'
  BY <1>1 DEF PathInv, OnlyInfeasibleExpire, BudgetsOrdered, ConsistentFib
<1>8. OnlyBadConfigurationFails'
  BY <1>1 DEF PathInv, OnlyBadConfigurationFails
<1> QED
  BY <1>2, <1>3, <1>4, <1>5, <1>6, <1>7, <1>8 DEF PathInv

(* Header, tag, budgets and configuration belong together in every phase.  *)
THEOREM PathInvariant == Spec => []PathInv
<1>1. PathInv /\ [Next]_vars => PathInv'
  BY InitializePathInv, EncapsulatePathInv, SendPacketToNICPathInv, SchedulePathInv,
     ReceivePathInv, LosePathInv, StutterPathInv DEF Next
<1> QED
  BY InitPathInv, <1>1, PTL DEF Spec

-----------------------------------------------------------------------------
(* The variables have their types; FIBs hold entries for the path's ends.  *)
THEOREM TypeCorrect == Spec => []TypeOK
<1>1. PathInv => TypeOK
  BY DEF PathInv
<1> QED
  BY <1>1, PathInvariant, PTL

(* A packet that is delivered was under way between dMin and dMax.         *)
THEOREM EndToEndDelay == Spec => []ArrivesInTime
<1>1. PathInv => ArrivesInTime
  BY DEF PathInv
<1> QED
  BY <1>1, PathInvariant, PTL

(* The header of a DBF packet carries the time that has really passed.     *)
THEOREM HeaderAccounts == Spec => []EDelayIsElapsed
<1>1. PathInv => EDelayIsElapsed
  BY DEF PathInv, Accounting
<1> QED
  BY <1>1, PathInvariant, PTL

(* No node on the path gives up a packet the source deemed feasible.       *)
THEOREM NoLateNode == Spec => []OnlyInfeasibleExpire
<1>1. PathInv => OnlyInfeasibleExpire
  BY DEF PathInv
<1> QED
  BY <1>1, PathInvariant, PTL

(* What DBFPacket assumes of the profiles: lqMin <= lqMax and lqMax >= 0.  *)
THEOREM QueueBudgets == Spec => []BudgetsOrdered
<1>1. PathInv => BudgetsOrdered
  BY DEF PathInv
<1> QED
  BY <1>1, PathInvariant, PTL

(* One option per DBF packet and a tag exactly while a node has it.        *)
THEOREM OneOptionOneTag == Spec => []HeaderConsistent
<1>1. PathInv => HeaderConsistent
  BY DEF PathInv
<1> QED
  BY <1>1, PathInvariant, PTL

(* Nothing but a bad configuration ends the simulation in these modules.   *)
THEOREM NoOtherFailure == Spec => []OnlyBadConfigurationFails
<1>1. PathInv => OnlyBadConfigurationFails
  BY DEF PathInv
<1> QED
  BY <1>1, PathInvariant, PTL
=============================================================================
