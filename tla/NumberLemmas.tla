---------------------------- MODULE NumberLemmas ----------------------------
(***************************************************************************)
(* What the proofs need to know of Min, Max, quotients and fractions.      *)
(***************************************************************************)
EXTENDS Integers, FiniteSetsExt, WellFoundedInduction, TLAPS

(* A nonempty set of naturals has a least element, and Min is it. *)
LEMMA MinOfNaturals ==
  ASSUME NEW S \in SUBSET Nat, S # {}
  PROVE  Min(S) \in S /\ \A y \in S : Min(S) <= y
<1> DEFINE R == {ss \in Nat \X Nat : ss[1] < ss[2]}
<1>1. IsWellFoundedOn(R, Nat)
  BY NatLessThanWellFounded DEF OpToRel
<1> HIDE DEF R
<1>2. PICK x \in S : \A y \in S : <<y, x>> \notin R
  BY <1>1, WFMin
<1>3. ASSUME NEW y \in S PROVE x <= y
  <2>1. y \in Nat /\ x \in Nat /\ ~(<<y, x>>[1] < <<y, x>>[2])
    BY <1>2 DEF R
  <2> QED
    BY <2>1
<1> QED
  BY <1>3 DEF Min

(* A nonempty set of naturals with a bound has a greatest element. *)
LEMMA MaxOfNaturals ==
  ASSUME NEW S \in SUBSET Nat, S # {}, NEW n \in Nat, \A y \in S : y <= n
  PROVE  Max(S) \in S /\ \A y \in S : y <= Max(S)
<1> DEFINE T == {k \in Nat : \A y \in S : y <= k}
<1>1. Min(T) \in T /\ \A k \in T : Min(T) <= k
  <2>1. T \in SUBSET Nat /\ n \in T
    OBVIOUS
  <2> QED
    BY <2>1, MinOfNaturals
<1>2. Min(T) \in S
  <2>1. CASE Min(T) = 0
    <3>1. PICK y \in S : TRUE
      OBVIOUS
    <3>2. y = 0
      BY <1>1, <2>1
    <3> QED
      BY <2>1, <3>2
  <2>2. CASE Min(T) # 0
    <3> DEFINE m == Min(T)
    <3>1. m \in Nat \ {0} /\ (\A y \in S : y <= m) /\ \A k \in T : m <= k
      BY <1>1, <2>2
    <3> HIDE DEF m
    <3>2. m - 1 \in Nat /\ m - 1 \notin T
      BY <3>1
    <3>3. PICK y \in S : ~(y <= m - 1)
      BY <3>2
    <3>4. y = m
      BY <3>1, <3>3
    <3> QED
      BY <3>4 DEF m
  <2> QED
    BY <2>1, <2>2
<1> QED
  BY <1>1, <1>2 DEF Max

(* The quotient rounds down. *)
LEMMA Division ==
  ASSUME NEW f \in Int, NEW h \in Nat \ {0}
  PROVE  f \div h \in Int /\ h * (f \div h) <= f /\ f < h * (f \div h) + h
  OBVIOUS

LEMMA NaturalQuotient ==
  ASSUME NEW f \in Nat, NEW h \in Nat \ {0}
  PROVE  f \div h \in Nat
<1> DEFINE q == f \div h
<1>1. q \in Int /\ h * q <= f /\ f < h * q + h
  BY Division
<1> HIDE DEF q
<1>2. h * q + h = h * (q + 1) /\ h * q \in Int
  BY <1>1
<1> SUFFICES ASSUME q + 1 <= 0 PROVE FALSE
  BY <1>1 DEF q
<1>3. h * (q + 1) <= h * 0
  BY <1>1
<1> QED
  BY <1>1, <1>2, <1>3

(* Comparing fractions with positive denominators crosswise is transitive. *)
LEMMA ProductKeepsOrder ==
  ASSUME NEW x \in Int, NEW y \in Int, NEW z \in Int, z > 0
  PROVE  x > y <=> x * z > y * z
<1>1. x > y => x * z > y * z
  OBVIOUS
<1>2. x <= y => x * z <= y * z
  OBVIOUS
<1>3. x * z \in Int /\ y * z \in Int
  OBVIOUS
<1> QED
  BY <1>1, <1>2, <1>3

LEMMA FractionsTransitive ==
  ASSUME NEW a \in Int, NEW b \in Int, NEW c \in Int,
         NEW d \in Int, NEW e \in Int, NEW f \in Int, b > 0, d > 0, f > 0,
         a * d > c * b, c * f > e * d
  PROVE  a * f > e * b
<1>1. /\ a * d \in Int /\ c * b \in Int /\ c * f \in Int /\ e * d \in Int
      /\ a * f \in Int /\ e * b \in Int
  OBVIOUS
<1>2. (a * d) * f > (c * b) * f /\ (c * f) * b > (e * d) * b
  BY <1>1, ProductKeepsOrder
<1>3. /\ (a * d) * f = (a * f) * d /\ (c * b) * f = (c * f) * b
      /\ (e * d) * b = (e * b) * d
  OBVIOUS
<1>4. (a * f) * d > (e * b) * d
  <2>1. (c * b) * f \in Int /\ (a * d) * f \in Int /\ (e * d) * b \in Int
    BY <1>1
  <2> QED
    BY <1>2, <1>3, <2>1
<1> QED
  BY <1>1, <1>4, ProductKeepsOrder
=============================================================================
