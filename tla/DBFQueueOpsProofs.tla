------------------------- MODULE DBFQueueOpsProofs -------------------------
(***************************************************************************)
(* What the queue operators return, for queues of any length: lemmas the   *)
(* proofs about the state machines rest on.                                *)
(***************************************************************************)
EXTENDS DBFQueueOps, NumberLemmas, FiniteSetTheorems, SequenceTheorems, TLAPS

(* Inserting and removing one element of a sequence. *)
LEMMA InsertAtProperties ==
  ASSUME NEW S, NEW s \in Seq(S), NEW i \in 1 .. Len(s) + 1, NEW e \in S
  PROVE  /\ InsertAt(s, i, e) \in Seq(S)
         /\ Len(InsertAt(s, i, e)) = Len(s) + 1
         /\ \A k \in 1 .. Len(s) + 1 :
              InsertAt(s, i, e)[k] = IF k < i THEN s[k]
                                     ELSE IF k = i THEN e ELSE s[k - 1]
<1> DEFINE front == SubSeq(s, 1, i - 1)
           back == SubSeq(s, i, Len(s))
           head == front \o <<e>>
<1>1. /\ front \in Seq(S)
      /\ Len(front) = i - 1
      /\ \A k \in 1 .. i - 1 : front[k] = s[k]
  BY SubSeqProperties
<1>2. /\ back \in Seq(S)
      /\ Len(back) = Len(s) - i + 1
      /\ \A k \in 1 .. Len(s) - i + 1 : back[k] = s[i + k - 1]
  BY SubSeqProperties
<1>3. <<e>> \in Seq(S) /\ Len(<<e>>) = 1 /\ <<e>>[1] = e
  OBVIOUS
<1> HIDE DEF front, back
<1>4. /\ head \in Seq(S)
      /\ Len(head) = i
      /\ \A k \in 1 .. i : head[k] = IF k < i THEN s[k] ELSE e
  BY <1>1, <1>3, ConcatProperties
<1> HIDE DEF head
<1>5. /\ head \o back \in Seq(S)
      /\ Len(head \o back) = Len(s) + 1
      /\ \A k \in 1 .. Len(s) + 1 :
           (head \o back)[k] = IF k <= i THEN head[k] ELSE back[k - i]
  <2>1. /\ head \o back \in Seq(S)
        /\ Len(head \o back) = Len(head) + Len(back)
        /\ \A k \in 1 .. Len(head) + Len(back) :
             (head \o back)[k] = IF k <= Len(head) THEN head[k]
                                                   ELSE back[k - Len(head)]
    BY <1>2, <1>4, ConcatProperties, Zenon
  <2>2. Len(head) = i /\ Len(head) + Len(back) = Len(s) + 1
    BY <1>2, <1>4
  <2> QED
    BY <2>1, <2>2
<1>6. InsertAt(s, i, e) = head \o back
  BY DEF InsertAt, head, front, back
<1>7. ASSUME NEW k \in 1 .. Len(s) + 1
      PROVE  (head \o back)[k] = IF k < i THEN s[k]
                                 ELSE IF k = i THEN e ELSE s[k - 1]
  BY <1>2, <1>4, <1>5
<1> QED
  BY <1>5, <1>6, <1>7

LEMMA RemoveAtProperties ==
  ASSUME NEW S, NEW s \in Seq(S), NEW i \in 1 .. Len(s)
  PROVE  /\ RemoveAt(s, i) \in Seq(S)
         /\ Len(RemoveAt(s, i)) = Len(s) - 1
         /\ \A k \in 1 .. Len(s) - 1 :
              RemoveAt(s, i)[k] = IF k < i THEN s[k] ELSE s[k + 1]
<1> DEFINE front == SubSeq(s, 1, i - 1)
           back == SubSeq(s, i + 1, Len(s))
<1>1. /\ front \in Seq(S)
      /\ Len(front) = i - 1
      /\ \A k \in 1 .. i - 1 : front[k] = s[k]
  BY SubSeqProperties
<1>2. /\ back \in Seq(S)
      /\ Len(back) = Len(s) - i
      /\ \A k \in 1 .. Len(s) - i : back[k] = s[i + k]
  BY SubSeqProperties
<1>3. RemoveAt(s, i) = front \o back
  BY DEF RemoveAt
<1> HIDE DEF front, back
<1>4. /\ front \o back \in Seq(S)
      /\ Len(front \o back) = Len(s) - 1
      /\ \A k \in 1 .. Len(s) - 1 :
           (front \o back)[k] = IF k < i THEN front[k] ELSE back[k - i + 1]
  <2>1. /\ front \o back \in Seq(S)
        /\ Len(front \o back) = Len(front) + Len(back)
        /\ \A k \in 1 .. Len(front) + Len(back) :
             (front \o back)[k] = IF k <= Len(front) THEN front[k]
                                                     ELSE back[k - Len(front)]
    BY <1>1, <1>2, ConcatProperties, Zenon
  <2>2. Len(front) = i - 1 /\ Len(front) + Len(back) = Len(s) - 1
    BY <1>1, <1>2
  <2>3. ASSUME NEW k \in 1 .. Len(s) - 1
        PROVE  /\ k <= i - 1 <=> k < i
               /\ k - (i - 1) = k - i + 1
    OBVIOUS
  <2> QED
    BY <2>1, <2>2, <2>3
<1>5. ASSUME NEW k \in 1 .. Len(s) - 1
      PROVE  (front \o back)[k] = IF k < i THEN s[k] ELSE s[k + 1]
  BY <1>1, <1>2, <1>4
<1> QED
  BY <1>3, <1>4, <1>5

-----------------------------------------------------------------------------
(***************************************************************************)
(* The scan from the back: the new packet precedes everything behind its   *)
(* place and does not precede its neighbour in front.                      *)
(***************************************************************************)
LEMMA InsertPositionProperties ==
  ASSUME NEW queue \in Seq(Packet), NEW packet \in Packet, NEW time \in Int
  PROVE  LET place == InsertPosition(queue, packet, time)
         IN  /\ place \in 1 .. Len(queue) + 1
             /\ \A i \in 1 .. Len(queue) :
                  i >= place => Precedes(packet, queue[i], time)
             /\ place > 1 => ~Precedes(packet, queue[place - 1], time)
<1> DEFINE I == {i \in 1 .. Len(queue) : ~Precedes(packet, queue[i], time)}
<1>1. InsertPosition(queue, packet, time) = 1 + (IF I # {} THEN Max(I) ELSE 0)
  BY DEF InsertPosition, SelectLastInSeq
<1>2. CASE I = {}
  BY <1>1, <1>2
<1>3. CASE I # {}
  <2>1. I \in SUBSET Nat /\ Len(queue) \in Nat /\ \A i \in I : i <= Len(queue)
    OBVIOUS
  <2> DEFINE m == Max(I)
  <2>2. m \in I /\ \A i \in I : i <= m
    BY <1>3, <2>1, MaxOfNaturals
  <2>3. InsertPosition(queue, packet, time) = 1 + m
    BY <1>1, <1>3
  <2> HIDE DEF m
  <2>4. m \in 1 .. Len(queue) /\ ~Precedes(packet, queue[m], time)
    BY <2>2
  <2>5. ASSUME NEW i \in 1 .. Len(queue), i >= 1 + m
        PROVE  Precedes(packet, queue[i], time)
    BY <2>2, <2>4, <2>5
  <2>6. 1 + m - 1 = m /\ 1 + m \in 1 .. Len(queue) + 1
    BY <2>4
  <2> QED
    BY <2>3, <2>4, <2>5, <2>6
<1> QED
  BY <1>2, <1>3

LEMMA SelectPacketProperties ==
  ASSUME NEW queue \in Seq(Packet), queue # <<>>, NEW time \in Int
  PROVE  LET victim == SelectPacket(queue, time)
         IN  /\ victim \in 1 .. Len(queue)
             /\ (\E i \in 1 .. Len(queue) : IsExpired(queue[i], time))
                  => IsExpired(queue[victim], time)
<1> DEFINE I == {i \in 1 .. Len(queue) : IsExpired(queue[i], time)}
<1>1. SelectPacket(queue, time) = IF I # {} /\ Min(I) # 0 THEN Min(I) ELSE Len(queue)
  BY DEF SelectPacket, SelectInSeq
<1>2. Len(queue) \in 1 .. Len(queue)
  BY EmptySeq
<1>3. CASE I = {}
  BY <1>1, <1>2, <1>3
<1>4. CASE I # {}
  <2>1. I \in SUBSET Nat
    OBVIOUS
  <2>2. Min(I) \in I
    BY <1>4, <2>1, MinOfNaturals
  <2> QED
    BY <1>1, <1>4, <2>2
<1> QED
  BY <1>3, <1>4

-----------------------------------------------------------------------------
HasBound(S) == \E n \in Nat : \A y \in S : y <= n

(* A finite set of deltas has a largest one: a smallest unbounded finite   *)
(* set would stay unbounded without one of its elements.                   *)
LEMMA FiniteSetBounded ==
  ASSUME NEW S \in SUBSET Nat, IsFiniteSet(S)
  PROVE  HasBound(S)
<1> SUFFICES ASSUME ~HasBound(S) PROVE FALSE
  OBVIOUS
<1> DEFINE Unbounded == {T \in SUBSET S : ~HasBound(T)}
           Sizes == {Cardinality(T) : T \in Unbounded}
<1>1. \A T \in SUBSET S : IsFiniteSet(T)
  BY FS_Subset
<1>2. \A T \in SUBSET S : Cardinality(T) \in Nat
  BY <1>1, FS_CardinalityType
<1>3. Sizes \in SUBSET Nat /\ Sizes # {}
  BY <1>2
<1>4. Min(Sizes) \in Sizes /\ \A y \in Sizes : Min(Sizes) <= y
  BY <1>3, MinOfNaturals
<1>5. PICK T \in Unbounded : Cardinality(T) = Min(Sizes)
  BY <1>4
<1>6. PICK x : x \in T
  BY <1>5 DEF HasBound
<1>7. Cardinality(T \ {x}) = Cardinality(T) - 1
  BY <1>1, <1>5, <1>6, FS_RemoveElement
<1>8. T \ {x} \in Unbounded
  <2> SUFFICES ASSUME HasBound(T \ {x}) PROVE FALSE
    BY <1>5
  <2>1. PICK n \in Nat : \A y \in T \ {x} : y <= n
    BY DEF HasBound
  <2>2. x \in Nat /\ T \subseteq Nat
    BY <1>5, <1>6
  <2>3. \A y \in T : y <= n + x
    BY <2>1, <2>2
  <2>4. n + x \in Nat
    BY <2>2
  <2> QED
    BY <1>5, <2>3, <2>4 DEF HasBound
<1>9. Cardinality(T \ {x}) \in Sizes
  BY <1>8
<1>10. Cardinality(T) \in Nat /\ Cardinality(T) = Min(Sizes)
  BY <1>2, <1>5
<1>11. Min(Sizes) <= Cardinality(T \ {x})
  BY <1>4, <1>9
<1> HIDE DEF Sizes
<1> QED
  BY <1>7, <1>10, <1>11

(***************************************************************************)
(* A finite set of naturals has an increasing enumeration.  (Induction on  *)
(* a bound of the set, as a least counterexample.)                         *)
(***************************************************************************)
Increasing(positions) ==
  {f \in [1 .. Cardinality(positions) -> positions] :
     \A i, j \in 1 .. Cardinality(positions) : i < j => f[i] < f[j]}

LEMMA FinitePositions ==
  ASSUME NEW n \in Nat, NEW K \in SUBSET (1 .. n)
  PROVE  IsFiniteSet(K) /\ Cardinality(K) \in Nat
<1>1. IsFiniteSet(1 .. n)
  BY FS_Interval
<1>2. IsFiniteSet(K)
  BY <1>1, FS_Subset
<1> QED
  BY <1>2, FS_CardinalityType

LEMMA FiniteInterval ==
  ASSUME NEW n \in Nat, NEW K \in SUBSET (0 .. n - 1)
  PROVE  IsFiniteSet(K) /\ Cardinality(K) \in Nat
<1>1. IsFiniteSet(0 .. n - 1)
  BY FS_Interval
<1>2. IsFiniteSet(K)
  BY <1>1, FS_Subset
<1> QED
  BY <1>2, FS_CardinalityType

LEMMA EnumerationExists ==
  ASSUME NEW n \in Nat, NEW K \in SUBSET (0 .. n - 1)
  PROVE  Increasing(K) # {}
<1> DEFINE Bad == {m \in Nat : \E L \in SUBSET (0 .. m - 1) : Increasing(L) = {}}
<1>1. SUFFICES ASSUME Bad # {} PROVE FALSE
  OBVIOUS
<1>2. Min(Bad) \in Bad /\ \A k \in Bad : Min(Bad) <= k
  <2>1. Bad \in SUBSET Nat
    OBVIOUS
  <2> QED
    BY <1>1, <2>1, MinOfNaturals
<1>3. PICK m \in Nat : m \in Bad /\ \A k \in Bad : m <= k
  BY <1>2
<1>4. PICK L \in SUBSET (0 .. m - 1) : Increasing(L) = {}
  BY <1>3
<1>5. IsFiniteSet(L) /\ Cardinality(L) \in Nat
  BY FiniteInterval
<1> HIDE DEF Bad
<1>6. m # 0
  <2>1. SUFFICES ASSUME m = 0 PROVE FALSE
    OBVIOUS
  <2>2. L = {}
    BY <2>1
  <2>3. Cardinality(L) = 0
    BY <2>2, FS_EmptySet
  <2>4. [i \in 1 .. 0 |-> i] \in Increasing(L)
    BY <2>2, <2>3 DEF Increasing
  <2> QED
    BY <1>4, <2>4
<1>7. m - 1 \in Nat /\ m - 1 \notin Bad
  BY <1>3, <1>6
<1>8. m - 1 \in L
  <2>1. SUFFICES ASSUME m - 1 \notin L PROVE FALSE
    OBVIOUS
  <2>2. L \in SUBSET (0 .. (m - 1) - 1)
    BY <1>7, <2>1
  <2> QED
    BY <1>4, <1>7, <2>2 DEF Bad
<1> DEFINE M == L \ {m - 1}
           c == Cardinality(M)
<1>9. M \in SUBSET (0 .. (m - 1) - 1)
  BY <1>7
<1>10. IsFiniteSet(M) /\ c \in Nat /\ Cardinality(L) = c + 1
  <2>1. IsFiniteSet(M) /\ c = Cardinality(L) - 1
    BY <1>5, <1>8, FS_RemoveElement
  <2>2. c \in Nat
    BY <2>1, FS_CardinalityType
  <2> QED
    BY <1>5, <2>1, <2>2
<1>11. PICK f \in Increasing(M) : TRUE
  BY <1>7, <1>9 DEF Bad
<1>12. /\ f \in [1 .. c -> M]
       /\ \A i, j \in 1 .. c : i < j => f[i] < f[j]
  BY <1>11 DEF Increasing
<1> HIDE DEF c
<1> DEFINE g == [i \in 1 .. c + 1 |-> IF i = c + 1 THEN m - 1 ELSE f[i]]
<1>13. g \in [1 .. c + 1 -> L]
  BY <1>8, <1>10, <1>12
<1>14. ASSUME NEW i \in 1 .. c + 1, NEW j \in 1 .. c + 1, i < j
       PROVE  g[i] < g[j]
  <2>1. i \in 1 .. c /\ g[i] = f[i] /\ f[i] \in 0 .. (m - 1) - 1
    <3>1. i \in 1 .. c /\ i # c + 1
      BY <1>10, <1>14
    <3> QED
      BY <1>9, <1>12, <3>1
  <2>2. CASE j = c + 1
    BY <2>1, <2>2
  <2>3. CASE j # c + 1
    <3>1. j \in 1 .. c /\ g[j] = f[j]
      BY <1>10, <2>3
    <3> QED
      BY <1>12, <1>14, <2>1, <3>1
  <2> QED
    BY <2>2, <2>3
<1>15. g \in Increasing(L)
  BY <1>10, <1>13, <1>14 DEF Increasing
<1> QED
  BY <1>4, <1>15

(* Enumeration is increasing and meets every element. *)
LEMMA EnumerationProperties ==
  ASSUME NEW K \in SUBSET Nat, IsFiniteSet(K)
  PROVE  /\ Cardinality(K) \in Nat
         /\ Enumeration(K) \in [1 .. Cardinality(K) -> K]
         /\ \A i, j \in 1 .. Cardinality(K) :
              i < j => Enumeration(K)[i] < Enumeration(K)[j]
         /\ \A k \in K : \E i \in 1 .. Cardinality(K) : Enumeration(K)[i] = k
<1> DEFINE f == Enumeration(K)
           c == Cardinality(K)
<1>1. f \in Increasing(K)
  <2>1. PICK n \in Nat : \A y \in K : y <= n
    BY FiniteSetBounded DEF HasBound
  <2>2. K \in SUBSET (0 .. (n + 1) - 1) /\ n + 1 \in Nat
    BY <2>1
  <2> QED
    BY <2>2, EnumerationExists DEF Enumeration, Increasing
<1>2. IsFiniteSet(K) /\ c \in Nat
  BY FS_CardinalityType
<1>3. f \in [1 .. c -> K] /\ \A i, j \in 1 .. c : i < j => f[i] < f[j]
  BY <1>1 DEF Increasing
<1> HIDE DEF f
<1>4. ASSUME NEW i \in 1 .. c, NEW j \in 1 .. c, f[i] = f[j]
      PROVE  i = j
  <2>1. f[i] \in Nat /\ f[j] \in Nat
    BY <1>3
  <2>2. ~(i < j) /\ ~(j < i)
    BY <1>3, <1>4, <2>1
  <2> QED
    BY <1>2, <2>2
<1>5. f \in Injection(1 .. c, K)
  BY <1>3, <1>4 DEF Injection, IsInjective
<1>6. IsFiniteSet(1 .. c) /\ Cardinality(1 .. c) = c
  BY <1>2, FS_Interval
<1>7. f \in Surjection(1 .. c, K)
  BY <1>2, <1>5, <1>6, FS_Injection
<1>8. \A k \in K : \E i \in 1 .. c : f[i] = k
  BY <1>7 DEF Surjection
<1> QED
  BY <1>2, <1>3, <1>8 DEF f

-----------------------------------------------------------------------------
LEMMA PacketTypes ==
  ASSUME NEW packet \in Packet
  PROVE  /\ packet.id \in Id /\ packet.slo \in Profile /\ packet.tRcv \in Nat
         /\ packet.slo \in ProfileType /\ packet.slo.delta \in Delta
         /\ packet.slo.dbf \in BOOLEAN /\ packet.slo.finite \in BOOLEAN
         /\ packet.slo.lqMin \in Int /\ packet.slo.lqMax \in Int
         /\ TMin(packet) \in Int /\ TMax(packet) \in Int
  BY ProfileAssumption DEF Packet, ProfileType, TMin, TMax

(* A packet that has become ready by the time its window opens is on time. *)
LEMMA WindowNotEmpty ==
  ASSUME NEW packet \in Packet, IsDBFPacket(packet), ~HasInfiniteDmax(packet)
  PROVE  TMin(packet) <= TMax(packet)
  BY PacketTypes, ProfileAssumption
     DEF IsDBFPacket, HasInfiniteDmax, TMin, TMax

LEMMA InsertProperties ==
  ASSUME NEW queue \in Seq(Packet), NEW packet \in Packet, NEW time \in Int
  PROVE  LET place == InsertPosition(queue, packet, time)
             result == Insert(queue, packet, time)
         IN  /\ place \in 1 .. Len(queue) + 1
             /\ result \in Seq(Packet)
             /\ Len(result) = Len(queue) + 1
             /\ \A k \in 1 .. Len(queue) + 1 :
                  result[k] = IF k < place THEN queue[k]
                              ELSE IF k = place THEN packet ELSE queue[k - 1]
<1> DEFINE place == InsertPosition(queue, packet, time)
           result == InsertAt(queue, place, packet)
<1>1. place \in 1 .. Len(queue) + 1
  BY InsertPositionProperties
<1> HIDE DEF place
<1>2. /\ result \in Seq(Packet)
      /\ Len(result) = Len(queue) + 1
      /\ \A k \in 1 .. Len(queue) + 1 :
           result[k] = IF k < place THEN queue[k]
                       ELSE IF k = place THEN packet ELSE queue[k - 1]
  BY <1>1, InsertAtProperties
<1>3. result = Insert(queue, packet, time)
  BY DEF Insert, place
<1> HIDE DEF result
<1> QED
  BY <1>1, <1>2, <1>3 DEF place

(***************************************************************************)
(* The comparator, whose verdicts depend on the time they are asked for,   *)
(* keeps a queue in order when it places a new packet.                     *)
(***************************************************************************)
LEMMA InsertKeepsOrder ==
  ASSUME NEW queue \in Seq(Packet), NEW packet \in Packet, NEW time \in Int,
         QueueInOrder(queue, time)
  PROVE  QueueInOrder(Insert(queue, packet, time), time)
<1> DEFINE place == InsertPosition(queue, packet, time)
           result == Insert(queue, packet, time)
<1>1. /\ place \in 1 .. Len(queue) + 1
      /\ Len(result) = Len(queue) + 1
      /\ \A k \in 1 .. Len(queue) + 1 :
           result[k] = IF k < place THEN queue[k]
                       ELSE IF k = place THEN packet ELSE queue[k - 1]
  BY InsertProperties
<1>2. /\ \A i \in 1 .. Len(queue) : i >= place => Precedes(packet, queue[i], time)
      /\ place > 1 => ~Precedes(packet, queue[place - 1], time)
  BY InsertPositionProperties
<1> HIDE DEF place, result
<1>3. Len(queue) \in Nat /\ \A i \in 1 .. Len(queue) : queue[i] \in Packet
  BY ElementOfSeq
<1>4. ASSUME NEW i \in 1 .. Len(queue), i >= place
      PROVE  InOrder(packet, queue[i], time)
  <2>1. Precedes(packet, queue[i], time) /\ queue[i] \in Packet
    BY <1>2, <1>3, <1>4
  <2> QED
    BY <2>1, PacketTypes DEF Precedes, InOrder
<1>5. ASSUME NEW i \in 1 .. Len(queue), i < place
      PROVE  InOrder(queue[i], packet, time)
  <2> DEFINE other == queue[place - 1]
  <2>1. place - 1 \in 1 .. Len(queue) /\ other \in Packet /\ queue[i] \in Packet
    BY <1>1, <1>3, <1>5
  <2>2. ~Precedes(packet, other, time)
    BY <1>1, <1>2, <1>5
  <2>3. i = place - 1 \/ InOrder(queue[i], other, time)
    BY <1>1, <1>5, <2>1 DEF QueueInOrder
  <2>4. InOrder(other, packet, time)
    BY <2>1, <2>2, PacketTypes DEF Precedes, InOrder
  <2>5. CASE i = place - 1
    BY <2>4, <2>5
  <2>6. CASE InOrder(queue[i], other, time)
    <3> HIDE DEF other
    <3> QED
      BY <2>1, <2>2, <2>4, <2>6, PacketTypes DEF InOrder, Precedes
  <2> QED
    BY <2>3, <2>5, <2>6
<1>6. ASSUME NEW i \in 1 .. Len(result), NEW j \in 1 .. Len(result), i < j
      PROVE  InOrder(result[i], result[j], time)
  <2>1. CASE j < place
    <3>1. /\ result[i] = queue[i] /\ result[j] = queue[j]
          /\ i \in 1 .. Len(queue) /\ j \in 1 .. Len(queue)
      BY <1>1, <1>3, <1>6, <2>1
    <3> QED
      BY <1>6, <3>1 DEF QueueInOrder
  <2>2. CASE j = place
    <3>1. result[i] = queue[i] /\ result[j] = packet /\ i \in 1 .. Len(queue) /\ i < place
      BY <1>1, <1>3, <1>6, <2>2
    <3> QED
      BY <1>5, <3>1
  <2>3. CASE j > place /\ i = place
    <3>1. /\ result[i] = packet /\ result[j] = queue[j - 1]
          /\ j - 1 \in 1 .. Len(queue) /\ j - 1 >= place
      BY <1>1, <1>3, <1>6, <2>3
    <3> QED
      BY <1>4, <3>1
  <2>4. CASE j > place /\ i < place
    <3>1. /\ result[i] = queue[i] /\ result[j] = queue[j - 1]
          /\ i \in 1 .. Len(queue) /\ j - 1 \in 1 .. Len(queue) /\ i < j - 1
      BY <1>1, <1>3, <1>6, <2>4
    <3> QED
      BY <1>1, <1>6, <2>4, <3>1 DEF QueueInOrder
  <2>5. CASE j > place /\ i > place
    <3>1. /\ result[i] = queue[i - 1] /\ result[j] = queue[j - 1]
          /\ i - 1 \in 1 .. Len(queue) /\ j - 1 \in 1 .. Len(queue) /\ i - 1 < j - 1
      BY <1>1, <1>3, <1>6, <2>5
    <3> QED
      BY <3>1 DEF QueueInOrder
  <2> QED
    BY <1>1, <1>3, <1>6, <2>1, <2>2, <2>3, <2>4, <2>5
<1> QED
  BY <1>6 DEF QueueInOrder, result

-----------------------------------------------------------------------------
(* Taking packets out of a queue leaves the others in order. *)
LEMMA SubsequenceInOrder ==
  ASSUME NEW queue \in Seq(Packet), NEW s \in Seq(Packet), NEW time \in Int,
         NEW f \in [1 .. Len(s) -> 1 .. Len(queue)],
         \A i, j \in 1 .. Len(s) : i < j => f[i] < f[j],
         \A i \in 1 .. Len(s) : s[i] = queue[f[i]],
         QueueInOrder(queue, time)
  PROVE  QueueInOrder(s, time)
  BY DEF QueueInOrder

LEMMA RemoveAtKeepsOrder ==
  ASSUME NEW queue \in Seq(Packet), NEW position \in 1 .. Len(queue),
         NEW time \in Int, QueueInOrder(queue, time)
  PROVE  QueueInOrder(RemoveAt(queue, position), time)
<1> DEFINE s == RemoveAt(queue, position)
           f == [i \in 1 .. Len(s) |-> IF i < position THEN i ELSE i + 1]
<1>1. /\ s \in Seq(Packet) /\ Len(s) = Len(queue) - 1
      /\ \A k \in 1 .. Len(queue) - 1 :
           s[k] = IF k < position THEN queue[k] ELSE queue[k + 1]
  BY RemoveAtProperties
<1> HIDE DEF s
<1>2. Len(queue) \in Nat
  OBVIOUS
<1>3. f \in [1 .. Len(s) -> 1 .. Len(queue)]
  BY <1>1, <1>2
<1>4. \A i, j \in 1 .. Len(s) : i < j => f[i] < f[j]
  BY <1>1, <1>2
<1>5. \A i \in 1 .. Len(s) : s[i] = queue[f[i]]
  BY <1>1, <1>2
<1> HIDE DEF f
<1>6. QueueInOrder(s, time)
  BY <1>1, <1>3, <1>4, <1>5, SubsequenceInOrder
<1> QED
  BY <1>6 DEF s

LEMMA TailKeepsOrder ==
  ASSUME NEW queue \in Seq(Packet), queue # <<>>, NEW time \in Int,
         QueueInOrder(queue, time)
  PROVE  QueueInOrder(Tail(queue), time)
<1> DEFINE s == Tail(queue)
           f == [i \in 1 .. Len(s) |-> i + 1]
<1>1. /\ s \in Seq(Packet) /\ Len(s) = Len(queue) - 1 /\ Len(queue) \in Nat
      /\ \A i \in 1 .. Len(s) : s[i] = queue[i + 1]
  BY HeadTailProperties
<1> HIDE DEF s
<1>2. f \in [1 .. Len(s) -> 1 .. Len(queue)]
  BY <1>1
<1>3. \A i, j \in 1 .. Len(s) : i < j => f[i] < f[j]
  BY <1>1
<1>4. \A i \in 1 .. Len(s) : s[i] = queue[f[i]]
  BY <1>1
<1> HIDE DEF f
<1>5. QueueInOrder(s, time)
  BY <1>1, <1>2, <1>3, <1>4, SubsequenceInOrder
<1> QED
  BY <1>5 DEF s

(***************************************************************************)
(* Purge keeps exactly the packets that are not expired, in order.         *)
(***************************************************************************)
LEMMA PurgeProperties ==
  ASSUME NEW queue \in Seq(Packet), NEW time \in Int
  PROVE  /\ Purge(queue, time) \in Seq(Packet)
         /\ \E f \in [1 .. Len(Purge(queue, time)) -> 1 .. Len(queue)] :
              /\ \A i, j \in 1 .. Len(Purge(queue, time)) : i < j => f[i] < f[j]
              /\ \A i \in 1 .. Len(Purge(queue, time)) :
                   /\ Purge(queue, time)[i] = queue[f[i]]
                   /\ ~IsExpired(queue[f[i]], time)
              /\ \A k \in 1 .. Len(queue) : ~IsExpired(queue[k], time)
                   => \E i \in 1 .. Len(Purge(queue, time)) : f[i] = k
<1> DEFINE K == Unexpired(queue, time)
           c == Cardinality(K)
           f == Enumeration(K)
<1>1. Len(queue) \in Nat /\ K \in SUBSET (1 .. Len(queue))
  BY DEF Unexpired
<1>2. /\ c \in Nat
      /\ f \in [1 .. c -> K]
      /\ \A i, j \in 1 .. c : i < j => f[i] < f[j]
      /\ \A k \in K : \E i \in 1 .. c : f[i] = k
  <2> HIDE DEF K
  <2>1. K \in SUBSET Nat
    BY <1>1
  <2>2. IsFiniteSet(K)
    BY <1>1, FinitePositions
  <2> QED
    BY <2>1, <2>2, EnumerationProperties
<1>3. Purge(queue, time) = [i \in 1 .. c |-> queue[f[i]]]
  BY DEF Purge
<1>4. \A k \in 1 .. Len(queue) : k \in K <=> ~IsExpired(queue[k], time)
  BY DEF Unexpired
<1> HIDE DEF K, c, f
<1>5. \A i \in 1 .. c : queue[f[i]] \in Packet
  BY <1>1, <1>2, ElementOfSeq
<1>6. Purge(queue, time) \in Seq(Packet) /\ Len(Purge(queue, time)) = c
  BY <1>2, <1>3, <1>5
<1>7. f \in [1 .. c -> 1 .. Len(queue)]
  BY <1>1, <1>2
<1> QED
  BY <1>1, <1>2, <1>3, <1>4, <1>6, <1>7

LEMMA PurgeNoLonger ==
  ASSUME NEW queue \in Seq(Packet), NEW time \in Int
  PROVE  Len(Purge(queue, time)) <= Len(queue)
<1> DEFINE K == Unexpired(queue, time)
           c == Cardinality(K)
<1>1. Len(queue) \in Nat /\ K \in SUBSET (1 .. Len(queue))
  BY DEF Unexpired
<1>2. IsFiniteSet(1 .. Len(queue)) /\ Cardinality(1 .. Len(queue)) = Len(queue)
  <2>1. /\ IsFiniteSet(1 .. Len(queue))
        /\ Cardinality(1 .. Len(queue))
             = IF 1 > Len(queue) THEN 0 ELSE Len(queue) - 1 + 1
    BY <1>1, FS_Interval
  <2> QED
    BY <1>1, <2>1
<1>3. c <= Len(queue) /\ c \in Nat
  BY <1>1, <1>2, FS_Subset, FinitePositions
<1>4. Purge(queue, time) = [i \in 1 .. c |-> queue[Enumeration(K)[i]]]
  BY DEF Purge
<1>5. Purge(queue, time) \in Seq(Packet)
  BY PurgeProperties
<1> HIDE DEF c, K
<1>6. DOMAIN Purge(queue, time) = 1 .. c
  BY <1>4
<1>7. Len(Purge(queue, time)) = c
  BY <1>3, <1>5, <1>6, LenProperties
<1> QED
  BY <1>3, <1>7

LEMMA PurgeKeepsOrder ==
  ASSUME NEW queue \in Seq(Packet), NEW time \in Int, QueueInOrder(queue, time)
  PROVE  QueueInOrder(Purge(queue, time), time)
  BY PurgeProperties, SubsequenceInOrder

(* What a push leaves: the queue with the packet in its place, or all of  *)
(* that but one packet, an expired one if there is any.                   *)
LEMMA PushPacketProperties ==
  ASSUME NEW queue \in Seq(Packet), NEW packet \in Packet, NEW time \in Int
  PROVE  LET inserted == Insert(queue, packet, time)
             result == PushPacket(queue, packet, time)
         IN  /\ result \in Seq(Packet) /\ result # <<>>
             /\ ~IsOverloaded(inserted) => result = inserted
             /\ IsOverloaded(inserted) =>
                  \E victim \in 1 .. Len(inserted) :
                    /\ Len(result) = Len(inserted) - 1
                    /\ \A k \in 1 .. Len(inserted) - 1 :
                         result[k] = IF k < victim THEN inserted[k] ELSE inserted[k + 1]
                    /\ \/ IsExpired(inserted[victim], time)
                       \/ \A k \in 1 .. Len(inserted) : ~IsExpired(inserted[k], time)
<1> DEFINE inserted == Insert(queue, packet, time)
           victim == SelectPacket(inserted, time)
           result == PushPacket(queue, packet, time)
<1>1. inserted \in Seq(Packet) /\ Len(inserted) = Len(queue) + 1 /\ Len(queue) \in Nat
  <2>1. Len(queue) \in Nat
    OBVIOUS
  <2> QED
    BY <2>1, InsertProperties, Zenon
<1>2. inserted # <<>>
  BY <1>1
<1>3. /\ victim \in 1 .. Len(inserted)
      /\ \/ IsExpired(inserted[victim], time)
         \/ \A k \in 1 .. Len(inserted) : ~IsExpired(inserted[k], time)
  BY <1>1, <1>2, SelectPacketProperties
<1>4. /\ RemoveAt(inserted, victim) \in Seq(Packet)
      /\ Len(RemoveAt(inserted, victim)) = Len(inserted) - 1
      /\ \A k \in 1 .. Len(inserted) - 1 :
           RemoveAt(inserted, victim)[k]
             = IF k < victim THEN inserted[k] ELSE inserted[k + 1]
  BY <1>1, <1>3, RemoveAtProperties
<1>5. result = IF IsOverloaded(inserted) THEN RemoveAt(inserted, victim) ELSE inserted
  BY DEF PushPacket
<1>6. IsOverloaded(inserted) => Len(inserted) - 1 >= 1
  BY <1>1, PacketCapacityAssumption DEF IsOverloaded
<1> HIDE DEF inserted, victim, result
<1>7. CASE IsOverloaded(inserted)
  <2>1. result = RemoveAt(inserted, victim)
    BY <1>5, <1>7
  <2>2. result \in Seq(Packet) /\ Len(result) >= 1
    BY <1>1, <1>4, <1>6, <1>7, <2>1
  <2>3. result # <<>>
    BY <2>2
  <2> QED
    BY <1>3, <1>4, <1>7, <2>1, <2>2, <2>3 DEF inserted, result
<1>8. CASE ~IsOverloaded(inserted)
  BY <1>1, <1>2, <1>5, <1>8 DEF inserted, result
<1> QED
  BY <1>7, <1>8

LEMMA PushPacketType ==
  ASSUME NEW queue \in Seq(Packet), NEW packet \in Packet, NEW time \in Int,
         PacketCapacity # -1 => Len(queue) <= PacketCapacity
  PROVE  /\ PushPacket(queue, packet, time) \in Seq(Packet)
         /\ PacketCapacity # -1
              => Len(PushPacket(queue, packet, time)) <= PacketCapacity
<1> DEFINE inserted == Insert(queue, packet, time)
           result == PushPacket(queue, packet, time)
<1>1. Len(inserted) = Len(queue) + 1 /\ Len(queue) \in Nat
  <2>1. Len(queue) \in Nat
    OBVIOUS
  <2> QED
    BY <2>1, InsertProperties, Zenon
<1>2. /\ result \in Seq(Packet)
      /\ ~IsOverloaded(inserted) => result = inserted
      /\ IsOverloaded(inserted) => Len(result) = Len(inserted) - 1
  BY PushPacketProperties
<1> HIDE DEF inserted, result
<1>3. PacketCapacity # -1 => Len(result) <= PacketCapacity
  BY <1>1, <1>2, PacketCapacityAssumption DEF IsOverloaded
<1> QED
  BY <1>2, <1>3 DEF result

(* A queue with a packet that is not expired keeps one through a push. *)
LEMMA PushKeepsUnexpired ==
  ASSUME NEW queue \in Seq(Packet), NEW packet \in Packet, NEW time \in Int,
         NEW i \in 1 .. Len(queue), ~IsExpired(queue[i], time)
  PROVE  LET result == PushPacket(queue, packet, time)
         IN  \E k \in 1 .. Len(result) : ~IsExpired(result[k], time)
<1> DEFINE inserted == Insert(queue, packet, time)
           result == PushPacket(queue, packet, time)
<1>1. /\ Len(inserted) = Len(queue) + 1
      /\ inserted \in Seq(Packet)
      /\ \E j \in 1 .. Len(queue) + 1 : inserted[j] = queue[i]
  <2> DEFINE place == InsertPosition(queue, packet, time)
  <2>1. /\ place \in 1 .. Len(queue) + 1
        /\ inserted \in Seq(Packet) /\ Len(inserted) = Len(queue) + 1
        /\ \A k \in 1 .. Len(queue) + 1 :
             inserted[k] = IF k < place THEN queue[k]
                           ELSE IF k = place THEN packet ELSE queue[k - 1]
    BY InsertProperties
  <2> HIDE DEF place, inserted
  <2>2. CASE i < place
    BY <2>1, <2>2
  <2>3. CASE i >= place
    <3>1. /\ i + 1 \in 1 .. Len(queue) + 1 /\ ~(i + 1 < place) /\ i + 1 # place
          /\ i + 1 - 1 = i
      BY <2>1, <2>3
    <3>2. inserted[i + 1] = queue[i]
      BY <2>1, <3>1
    <3> QED
      BY <2>1, <3>1, <3>2
  <2> QED
    BY <2>1, <2>2, <2>3
<1>2. PICK j \in 1 .. Len(inserted) : ~IsExpired(inserted[j], time)
  BY <1>1
<1>3. CASE ~IsOverloaded(inserted)
  <2>1. result = inserted
    BY <1>3, PushPacketProperties
  <2> HIDE DEF inserted, result
  <2> QED
    BY <1>2, <2>1 DEF result
<1>4. CASE IsOverloaded(inserted)
  <2>1. PICK victim \in 1 .. Len(inserted) :
          /\ Len(result) = Len(inserted) - 1
          /\ \A k \in 1 .. Len(inserted) - 1 :
               result[k] = IF k < victim THEN inserted[k] ELSE inserted[k + 1]
          /\ \/ IsExpired(inserted[victim], time)
             \/ \A k \in 1 .. Len(inserted) : ~IsExpired(inserted[k], time)
    BY <1>4, PushPacketProperties
  <2>2. result \in Seq(Packet) /\ result # <<>>
    BY PushPacketProperties
  <2> HIDE DEF inserted, result
  <2>3. Len(inserted) \in Nat
    BY <1>1
  <2>4. CASE IsExpired(inserted[victim], time)
    <3>1. j # victim
      BY <1>2, <2>4
    <3>2. CASE j < victim
      <4>1. j \in 1 .. Len(result) /\ result[j] = inserted[j]
        BY <2>1, <2>3, <3>2
      <4> QED
        BY <1>2, <4>1 DEF result
    <3>3. CASE j > victim
      <4>1. /\ j - 1 \in 1 .. Len(inserted) - 1 /\ ~(j - 1 < victim)
            /\ j - 1 + 1 = j
        BY <2>3, <3>3
      <4>2. j - 1 \in 1 .. Len(result) /\ result[j - 1] = inserted[j]
        BY <2>1, <4>1
      <4> QED
        BY <1>2, <4>2 DEF result
    <3> QED
      BY <3>1, <3>2, <3>3
  <2>5. CASE \A k \in 1 .. Len(inserted) : ~IsExpired(inserted[k], time)
    <3>1. 1 \in 1 .. Len(result)
      BY <2>2
    <3>2. result[1] = inserted[1] \/ result[1] = inserted[2]
      BY <2>1, <3>1
    <3>3. 1 \in 1 .. Len(inserted) /\ 2 \in 1 .. Len(inserted)
      BY <2>1, <2>3, <3>1
    <3> QED
      BY <2>5, <3>1, <3>2, <3>3 DEF result
  <2> QED
    BY <2>1, <2>4, <2>5
<1> QED
  BY <1>3, <1>4

(* If a packet that is not expired is pushed on a queue whose front is not *)
(* expired either, the front of the result is not.                         *)
LEMMA PushKeepsUnexpiredFront ==
  ASSUME NEW queue \in Seq(Packet), queue # <<>>, NEW packet \in Packet,
         NEW time \in Int, ~IsExpired(Head(queue), time), ~IsExpired(packet, time)
  PROVE  ~IsExpired(Head(PushPacket(queue, packet, time)), time)
<1> DEFINE place == InsertPosition(queue, packet, time)
           inserted == Insert(queue, packet, time)
           result == PushPacket(queue, packet, time)
<1>1. /\ place \in 1 .. Len(queue) + 1
      /\ inserted \in Seq(Packet) /\ Len(inserted) = Len(queue) + 1
      /\ \A k \in 1 .. Len(queue) + 1 :
           inserted[k] = IF k < place THEN queue[k]
                         ELSE IF k = place THEN packet ELSE queue[k - 1]
  BY InsertProperties
<1>2. result \in Seq(Packet) /\ result # <<>> /\ Head(result) = result[1]
  BY PushPacketProperties
<1>3. ~IsOverloaded(inserted) => result = inserted
  BY PushPacketProperties
<1>4. IsOverloaded(inserted) =>
        \E victim \in 1 .. Len(inserted) :
          /\ Len(result) = Len(inserted) - 1
          /\ \A k \in 1 .. Len(inserted) - 1 :
               result[k] = IF k < victim THEN inserted[k] ELSE inserted[k + 1]
          /\ \/ IsExpired(inserted[victim], time)
             \/ \A k \in 1 .. Len(inserted) : ~IsExpired(inserted[k], time)
  BY PushPacketProperties
<1>5. Len(queue) \in Nat \ {0} /\ Head(queue) = queue[1]
  BY EmptySeq
<1> HIDE DEF place, inserted, result
<1>6. ~IsExpired(inserted[1], time)
  BY <1>1, <1>5
<1>7. CASE ~IsOverloaded(inserted)
  BY <1>2, <1>3, <1>6, <1>7 DEF result
<1>8. CASE IsOverloaded(inserted)
  <2>1. PICK victim \in 1 .. Len(inserted) :
          /\ Len(result) = Len(inserted) - 1
          /\ \A k \in 1 .. Len(inserted) - 1 :
               result[k] = IF k < victim THEN inserted[k] ELSE inserted[k + 1]
          /\ \/ IsExpired(inserted[victim], time)
             \/ \A k \in 1 .. Len(inserted) : ~IsExpired(inserted[k], time)
    BY <1>4, <1>8
  <2>2. 1 \in 1 .. Len(inserted) - 1 /\ 2 \in 1 .. Len(inserted)
    BY <1>1, <1>5
  <2>3. CASE victim = 1
    <3>1. result[1] = inserted[2]
      BY <2>1, <2>2, <2>3
    <3> QED
      BY <1>2, <1>6, <2>1, <2>2, <2>3, <3>1 DEF result
  <2>4. CASE victim # 1
    <3>1. result[1] = inserted[1]
      BY <1>1, <2>1, <2>2, <2>4
    <3> QED
      BY <1>2, <1>6, <3>1 DEF result
  <2> QED
    BY <2>3, <2>4
<1> QED
  BY <1>7, <1>8

LEMMA PushPacketKeepsOrder ==
  ASSUME NEW queue \in Seq(Packet), NEW packet \in Packet, NEW time \in Int,
         QueueInOrder(queue, time)
  PROVE  QueueInOrder(PushPacket(queue, packet, time), time)
<1> DEFINE inserted == Insert(queue, packet, time)
           victim == SelectPacket(inserted, time)
<1>1. inserted \in Seq(Packet) /\ Len(inserted) = Len(queue) + 1 /\ Len(queue) \in Nat
  BY InsertProperties
<1>2. QueueInOrder(inserted, time)
  BY InsertKeepsOrder
<1>3. victim \in 1 .. Len(inserted)
  <2>1. inserted # <<>>
    BY <1>1
  <2> QED
    BY <1>1, <2>1, SelectPacketProperties
<1>4. QueueInOrder(RemoveAt(inserted, victim), time)
  BY <1>1, <1>2, <1>3, RemoveAtKeepsOrder
<1> QED
  BY <1>2, <1>4 DEF PushPacket

(* Time only makes packets ready, so it never disturbs the order. *)
LEMMA OrderInTime ==
  ASSUME NEW queue \in Seq(Packet), NEW time \in Int, NEW later \in Int,
         time <= later, QueueInOrder(queue, time)
  PROVE  QueueInOrder(queue, later)
<1>1. ASSUME NEW i \in 1 .. Len(queue), NEW j \in 1 .. Len(queue), i < j
      PROVE  InOrder(queue[i], queue[j], later)
  <2>1. queue[i] \in Packet /\ InOrder(queue[i], queue[j], time)
    BY <1>1, ElementOfSeq DEF QueueInOrder
  <2> QED
    BY <2>1, PacketTypes DEF InOrder
<1> QED
  BY <1>1 DEF QueueInOrder

(* In a queue that is in order, no ready packet stands behind a waiting one. *)
LEMMA OrderGivesReadyPrefix ==
  ASSUME NEW queue \in Seq(Packet), NEW time \in Int, QueueInOrder(queue, time)
  PROVE  ReadyPacketsFirst(queue, time)
<1>1. ASSUME NEW i \in 1 .. Len(queue), NEW j \in 1 .. Len(queue), i < j,
             IsPacketReadyToSend(queue[j], time)
      PROVE  IsPacketReadyToSend(queue[i], time)
  <2>1. /\ queue[i] \in Packet /\ queue[j] \in Packet
        /\ InOrder(queue[i], queue[j], time)
    BY <1>1, ElementOfSeq DEF QueueInOrder
  <2> QED
    BY <1>1, <2>1, PacketTypes DEF InOrder, IsPacketReadyToSend
<1> QED
  BY <1>1 DEF ReadyPacketsFirst
-----------------------------------------------------------------------------
(***************************************************************************)
(* The packets of a queue as a set.  No packet stands in a queue twice.    *)
(***************************************************************************)
Distinct(queue) == \A i, j \in 1 .. Len(queue) : queue[i].id = queue[j].id => i = j

LEMMA SetOfSeq ==
  ASSUME NEW S, NEW s \in Seq(S)
  PROVE  /\ ToSet(s) = {s[i] : i \in 1 .. Len(s)}
         /\ ToSet(s) \subseteq S
         /\ s # <<>> <=> ToSet(s) # {}
         /\ s # <<>> => Head(s) = s[1] /\ Head(s) \in ToSet(s)
<1>1. DOMAIN s = 1 .. Len(s) /\ Len(s) \in Nat /\ \A i \in 1 .. Len(s) : s[i] \in S
  OBVIOUS
<1>2. s # <<>> => 1 \in 1 .. Len(s) /\ Head(s) = s[1]
  OBVIOUS
<1>3. s = <<>> => DOMAIN s = {}
  OBVIOUS
<1> QED
  BY <1>1, <1>2, <1>3 DEF ToSet

(* In a queue without doubles the identity tells the packet.               *)
LEMMA DistinctIds ==
  ASSUME NEW queue \in Seq(Packet), Distinct(queue),
         NEW p \in ToSet(queue), NEW q \in ToSet(queue), p.id = q.id
  PROVE  p = q
  BY SetOfSeq DEF Distinct

(* Taking one packet out takes nothing else.                               *)
LEMMA RemovalContents ==
  ASSUME NEW queue \in Seq(Packet), NEW result \in Seq(Packet),
         NEW position \in 1 .. Len(queue), Len(result) = Len(queue) - 1,
         \A k \in 1 .. Len(queue) - 1 :
           result[k] = IF k < position THEN queue[k] ELSE queue[k + 1]
  PROVE  /\ ToSet(result) \subseteq ToSet(queue)
         /\ ToSet(queue) \ {queue[position]} \subseteq ToSet(result)
         /\ Distinct(queue) => /\ Distinct(result)
                               /\ queue[position] \notin ToSet(result)
<1> DEFINE source(k) == IF k < position THEN k ELSE k + 1
<1>1. Len(queue) \in Nat /\ ToSet(queue) = {queue[i] : i \in 1 .. Len(queue)}
  BY SetOfSeq
<1>2. ToSet(result) = {result[k] : k \in 1 .. Len(queue) - 1}
  BY SetOfSeq
<1>3. ASSUME NEW k \in 1 .. Len(queue) - 1
      PROVE  /\ source(k) \in 1 .. Len(queue) /\ source(k) # position
             /\ result[k] = queue[source(k)]
  BY <1>1
<1>4. ASSUME NEW k \in 1 .. Len(queue) - 1, NEW l \in 1 .. Len(queue) - 1,
             source(k) = source(l)
      PROVE  k = l
  BY <1>1, <1>4
<1>5. ASSUME NEW i \in 1 .. Len(queue), i # position
      PROVE  \E k \in 1 .. Len(queue) - 1 : source(k) = i
  <2>1. CASE i < position
    <3>1. i \in 1 .. Len(queue) - 1 /\ source(i) = i
      BY <1>1, <2>1
    <3> QED
      BY <3>1
  <2>2. CASE i > position
    <3>1. i - 1 \in 1 .. Len(queue) - 1 /\ source(i - 1) = i
      BY <1>1, <2>2
    <3> QED
      BY <3>1
  <2> QED
    BY <1>5, <2>1, <2>2
<1> HIDE DEF source
<1>6. ToSet(result) \subseteq ToSet(queue)
  BY <1>1, <1>2, <1>3
<1>7. ASSUME NEW i \in 1 .. Len(queue), queue[i] # queue[position]
      PROVE  queue[i] \in ToSet(result)
  <2>1. PICK k \in 1 .. Len(queue) - 1 : source(k) = i
    BY <1>5, <1>7
  <2>2. result[k] = queue[i]
    BY <1>3, <2>1
  <2> QED
    BY <1>2, <2>2
<1>8. ASSUME Distinct(queue)
      PROVE  Distinct(result) /\ queue[position] \notin ToSet(result)
  <2>1. ASSUME NEW k \in 1 .. Len(result), NEW l \in 1 .. Len(result),
               result[k].id = result[l].id
        PROVE  k = l
    <3>1. k \in 1 .. Len(queue) - 1 /\ l \in 1 .. Len(queue) - 1
      OBVIOUS
    <3>2. source(k) = source(l)
      BY <1>3, <1>8, <2>1, <3>1 DEF Distinct
    <3> QED
      BY <1>4, <3>1, <3>2
  <2>2. ASSUME NEW k \in 1 .. Len(queue) - 1, result[k] = queue[position]
        PROVE  FALSE
    BY <1>3, <1>8, <2>2 DEF Distinct
  <2> QED
    BY <1>2, <2>1, <2>2 DEF Distinct
<1> QED
  BY <1>1, <1>6, <1>7, <1>8

LEMMA RemoveAtContents ==
  ASSUME NEW queue \in Seq(Packet), Distinct(queue), NEW position \in 1 .. Len(queue)
  PROVE  LET result == RemoveAt(queue, position)
         IN  /\ result \in Seq(Packet) /\ Distinct(result)
             /\ ToSet(result) = ToSet(queue) \ {queue[position]}
<1> DEFINE result == RemoveAt(queue, position)
<1>1. /\ result \in Seq(Packet) /\ Len(result) = Len(queue) - 1
      /\ \A k \in 1 .. Len(queue) - 1 :
           result[k] = IF k < position THEN queue[k] ELSE queue[k + 1]
  BY RemoveAtProperties
<1> HIDE DEF result
<1>2. /\ ToSet(result) \subseteq ToSet(queue)
      /\ ToSet(queue) \ {queue[position]} \subseteq ToSet(result)
      /\ Distinct(result) /\ queue[position] \notin ToSet(result)
  BY <1>1, RemovalContents
<1> QED
  BY <1>1, <1>2 DEF result

LEMMA TailContents ==
  ASSUME NEW queue \in Seq(Packet), queue # <<>>, Distinct(queue)
  PROVE  /\ Tail(queue) \in Seq(Packet) /\ Distinct(Tail(queue))
         /\ ToSet(Tail(queue)) = ToSet(queue) \ {Head(queue)}
<1> DEFINE result == Tail(queue)
<1>1. /\ result \in Seq(Packet) /\ Len(result) = Len(queue) - 1 /\ Len(queue) \in Nat
      /\ \A i \in 1 .. Len(result) : result[i] = queue[i + 1]
  BY HeadTailProperties
<1>2. 1 \in 1 .. Len(queue) /\ Head(queue) = queue[1]
  BY EmptySeq
<1> HIDE DEF result
<1>3. \A k \in 1 .. Len(queue) - 1 :
        result[k] = IF k < 1 THEN queue[k] ELSE queue[k + 1]
  BY <1>1
<1>4. /\ ToSet(result) \subseteq ToSet(queue)
      /\ ToSet(queue) \ {queue[1]} \subseteq ToSet(result)
      /\ Distinct(result) /\ queue[1] \notin ToSet(result)
  BY <1>1, <1>2, <1>3, RemovalContents
<1> QED
  BY <1>1, <1>2, <1>4 DEF result

(* The purge takes the expired packets and no other.                       *)
LEMMA PurgeContents ==
  ASSUME NEW queue \in Seq(Packet), NEW time \in Int
  PROVE  /\ ToSet(Purge(queue, time))
              = {packet \in ToSet(queue) : ~IsExpired(packet, time)}
         /\ Distinct(queue) => Distinct(Purge(queue, time))
<1> DEFINE result == Purge(queue, time)
<1>1. result \in Seq(Packet)
  BY PurgeProperties
<1>2. PICK f \in [1 .. Len(result) -> 1 .. Len(queue)] :
        /\ \A i, j \in 1 .. Len(result) : i < j => f[i] < f[j]
        /\ \A i \in 1 .. Len(result) :
             result[i] = queue[f[i]] /\ ~IsExpired(queue[f[i]], time)
        /\ \A k \in 1 .. Len(queue) : ~IsExpired(queue[k], time)
             => \E i \in 1 .. Len(result) : f[i] = k
  BY PurgeProperties, Zenon
<1> HIDE DEF result
<1>3. /\ ToSet(queue) = {queue[i] : i \in 1 .. Len(queue)}
      /\ ToSet(result) = {result[i] : i \in 1 .. Len(result)}
  BY <1>1, SetOfSeq
<1>4. ToSet(result) = {packet \in ToSet(queue) : ~IsExpired(packet, time)}
  <2>1. ASSUME NEW i \in 1 .. Len(result)
        PROVE  result[i] \in ToSet(queue) /\ ~IsExpired(result[i], time)
    BY <1>2, <1>3
  <2>2. ASSUME NEW k \in 1 .. Len(queue), ~IsExpired(queue[k], time)
        PROVE  queue[k] \in ToSet(result)
    <3>1. PICK i \in 1 .. Len(result) : f[i] = k
      BY <1>2, <2>2
    <3>2. result[i] = queue[k]
      BY <1>2, <3>1
    <3> QED
      BY <1>3, <3>2
  <2> QED
    BY <1>3, <2>1, <2>2
<1>5. ASSUME Distinct(queue), NEW i \in 1 .. Len(result), NEW j \in 1 .. Len(result),
             result[i].id = result[j].id
      PROVE  i = j
  <2>1. f[i] = f[j] /\ f[i] \in 1 .. Len(queue)
    BY <1>2, <1>5 DEF Distinct
  <2>2. ~(i < j) /\ ~(j < i)
    BY <1>2, <2>1
  <2> QED
    BY <2>2
<1> QED
  BY <1>4, <1>5 DEF Distinct, result

LEMMA InsertContents ==
  ASSUME NEW queue \in Seq(Packet), NEW packet \in Packet, NEW time \in Int
  PROVE  LET result == Insert(queue, packet, time)
         IN  /\ ToSet(result) = ToSet(queue) \cup {packet}
             /\ Distinct(queue) /\ (\A other \in ToSet(queue) : other.id # packet.id)
                  => Distinct(result)
<1> DEFINE place == InsertPosition(queue, packet, time)
           result == Insert(queue, packet, time)
           source(k) == IF k < place THEN k ELSE k - 1
           target(i) == IF i < place THEN i ELSE i + 1
<1>1. /\ place \in 1 .. Len(queue) + 1
      /\ result \in Seq(Packet) /\ Len(result) = Len(queue) + 1
      /\ \A k \in 1 .. Len(queue) + 1 :
           result[k] = IF k < place THEN queue[k]
                       ELSE IF k = place THEN packet ELSE queue[k - 1]
  BY InsertProperties
<1> HIDE DEF place, result
<1>2. Len(queue) \in Nat
  OBVIOUS
<1>3. /\ ToSet(queue) = {queue[i] : i \in 1 .. Len(queue)}
      /\ ToSet(result) = {result[i] : i \in 1 .. Len(queue) + 1}
  BY <1>1, SetOfSeq
<1>4. ASSUME NEW k \in 1 .. Len(queue) + 1, k # place
      PROVE  source(k) \in 1 .. Len(queue) /\ result[k] = queue[source(k)]
  BY <1>1, <1>2, <1>4
<1>5. ASSUME NEW k \in 1 .. Len(queue) + 1, NEW l \in 1 .. Len(queue) + 1,
             k # place, l # place, source(k) = source(l)
      PROVE  k = l
  BY <1>1, <1>2, <1>5
<1>6. ASSUME NEW i \in 1 .. Len(queue)
      PROVE  target(i) \in 1 .. Len(queue) + 1 /\ result[target(i)] = queue[i]
  <2>1. /\ target(i) \in 1 .. Len(queue) + 1 /\ target(i) # place
        /\ source(target(i)) = i
    BY <1>1, <1>2
  <2> HIDE DEF source, target
  <2> QED
    BY <1>4, <2>1
<1>7. result[place] = packet
  BY <1>1, <1>2
<1> HIDE DEF source, target
<1>8. ToSet(result) = ToSet(queue) \cup {packet}
  <2>1. ToSet(result) \subseteq ToSet(queue) \cup {packet}
    BY <1>3, <1>4, <1>7
  <2>2. ToSet(queue) \subseteq ToSet(result) /\ packet \in ToSet(result)
    BY <1>1, <1>3, <1>6, <1>7
  <2> QED
    BY <2>1, <2>2
<1>9. ASSUME Distinct(queue), \A other \in ToSet(queue) : other.id # packet.id,
             NEW k \in 1 .. Len(result), NEW l \in 1 .. Len(result),
             result[k].id = result[l].id
      PROVE  k = l
  <2>1. k \in 1 .. Len(queue) + 1 /\ l \in 1 .. Len(queue) + 1
    BY <1>1
  <2>2. CASE k = place \/ l = place
    BY <1>3, <1>4, <1>7, <1>9, <2>1, <2>2
  <2>3. CASE k # place /\ l # place
    <3>1. source(k) = source(l)
      BY <1>4, <1>9, <2>1, <2>3 DEF Distinct
    <3> QED
      BY <1>5, <2>1, <2>3, <3>1
  <2> QED
    BY <2>2, <2>3
<1> QED
  BY <1>8, <1>9 DEF Distinct, result

(* The victim of an overflow: the last packet, if none has expired.        *)
LEMMA SelectsLastIfNoneExpired ==
  ASSUME NEW queue \in Seq(Packet), NEW time \in Int,
         \A i \in 1 .. Len(queue) : ~IsExpired(queue[i], time)
  PROVE  SelectPacket(queue, time) = Len(queue)
<1>1. {i \in 1 .. Len(queue) : IsExpired(queue[i], time)} = {}
  OBVIOUS
<1> QED
  BY <1>1 DEF SelectPacket, SelectInSeq

(***************************************************************************)
(* What a push does to the packets: at most one of them leaves; if it has  *)
(* not expired, none of those that stay has, and in a queue in order each  *)
(* of them is rightly ahead of it.                                         *)
(***************************************************************************)
LEMMA PushContents ==
  ASSUME NEW queue \in Seq(Packet), NEW packet \in Packet, NEW time \in Int
  PROVE  LET all == ToSet(queue) \cup {packet}
             left == ToSet(PushPacket(queue, packet, time))
         IN  /\ left \subseteq all /\ left # {}
             /\ \E victim \in all : all \ left \subseteq {victim}
             /\ PacketCapacity = -1 => left = all
             /\ \A victim \in all \ left : IsExpired(victim, time)
                  \/ \A other \in left : ~IsExpired(other, time)
             /\ QueueInOrder(queue, time) =>
                  \A victim \in all \ left : IsExpired(victim, time)
                    \/ \A other \in left : InOrder(other, victim, time)
             /\ Distinct(queue) /\ (\A other \in ToSet(queue) : other.id # packet.id)
                  => Distinct(PushPacket(queue, packet, time))
<1> DEFINE inserted == Insert(queue, packet, time)
           position == SelectPacket(inserted, time)
           result == PushPacket(queue, packet, time)
           fresh == Distinct(queue) /\ \A other \in ToSet(queue) : other.id # packet.id
<1>1. /\ inserted \in Seq(Packet) /\ Len(inserted) = Len(queue) + 1 /\ Len(queue) \in Nat
  BY InsertProperties
<1>2. /\ ToSet(inserted) = ToSet(queue) \cup {packet}
      /\ fresh => Distinct(inserted)
  BY InsertContents
<1>3. QueueInOrder(queue, time) => QueueInOrder(inserted, time)
  BY InsertKeepsOrder
<1>4. result \in Seq(Packet) /\ result # <<>>
  BY PushPacketProperties
<1>5. result = IF IsOverloaded(inserted) THEN RemoveAt(inserted, position) ELSE inserted
  BY DEF PushPacket
<1> HIDE DEF inserted, result, fresh
<1>6. ToSet(result) # {}
  BY <1>4, SetOfSeq
<1>7. CASE ~IsOverloaded(inserted)
  BY <1>2, <1>5, <1>6, <1>7 DEF result, fresh
<1>8. CASE IsOverloaded(inserted)
  <2> DEFINE victim == inserted[position]
  <2>1. PacketCapacity # -1
    BY <1>8 DEF IsOverloaded
  <2>2. position \in 1 .. Len(inserted)
    <3>1. inserted # <<>>
      BY <1>1
    <3> QED
      BY <1>1, <3>1, SelectPacketProperties
  <2>3. /\ result \in Seq(Packet) /\ Len(result) = Len(inserted) - 1
        /\ \A k \in 1 .. Len(inserted) - 1 :
             result[k] = IF k < position THEN inserted[k] ELSE inserted[k + 1]
    BY <1>1, <1>5, <1>8, <2>2, RemoveAtProperties
  <2>4. /\ ToSet(result) \subseteq ToSet(inserted)
        /\ ToSet(inserted) \ {victim} \subseteq ToSet(result)
        /\ Distinct(inserted) => Distinct(result)
    BY <1>1, <2>2, <2>3, RemovalContents
  <2>5. /\ ToSet(inserted) = {inserted[i] : i \in 1 .. Len(inserted)}
        /\ ToSet(result) = {result[i] : i \in 1 .. Len(result)}
    BY <1>1, <2>3, SetOfSeq
  <2>6. victim \in ToSet(inserted)
    BY <2>2, <2>5
  <2>7. ASSUME ~IsExpired(victim, time)
        PROVE  /\ \A other \in ToSet(result) : ~IsExpired(other, time)
               /\ QueueInOrder(inserted, time) =>
                    \A other \in ToSet(result) : InOrder(other, victim, time)
    <3>1. \A i \in 1 .. Len(inserted) : ~IsExpired(inserted[i], time)
      <4>1. inserted # <<>>
        BY <1>1
      <4> QED
        BY <1>1, <2>7, <4>1, SelectPacketProperties
    <3>2. position = Len(inserted)
      BY <1>1, <3>1, SelectsLastIfNoneExpired
    <3> HIDE DEF position
    <3>3. \A i \in 1 .. Len(result) : i \in 1 .. Len(inserted) /\ i < Len(inserted)
                                       /\ result[i] = inserted[i]
      BY <1>1, <2>3, <3>2
    <3> QED
      BY <1>1, <2>2, <2>5, <3>1, <3>2, <3>3 DEF QueueInOrder
  <2> HIDE DEF victim, position
  <2>8. \E v \in ToSet(queue) \cup {packet} :
          (ToSet(queue) \cup {packet}) \ ToSet(result) \subseteq {v}
    BY <1>2, <2>4, <2>6
  <2>9. \A v \in (ToSet(queue) \cup {packet}) \ ToSet(result) : v = victim
    BY <1>2, <2>4
  <2> QED
    BY <1>2, <1>3, <1>6, <2>1, <2>4, <2>7, <2>8, <2>9 DEF result, fresh
<1> QED
  BY <1>7, <1>8
=============================================================================
