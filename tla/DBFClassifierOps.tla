-------------------------- MODULE DBFClassifierOps --------------------------
(***************************************************************************)
(* DBFPriorityClassifier::classifyPacket: the delta (class) of a packet    *)
(* from the width of its local queueing budget.                            *)
(***************************************************************************)
EXTENDS Integers, FiniteSetsExt

CONSTANTS
  DeltaSteps,   (* deltaSteps: the width of a class.                       *)
  MaximumDelta  (* maximumDelta: the class of packets without a deadline.  *)

ASSUME ClassifierAssumption ==
  DeltaSteps \in Nat \ {0} /\ MaximumDelta \in Nat

(***************************************************************************)
(* The while loop: what it leaves if it is in round n, where bestDelta is  *)
(* DeltaSteps * n.  No budget takes it further than round lqbudget + 1.    *)
(***************************************************************************)
BestDelta(lqbudget) ==
  LET best[n \in 1 .. lqbudget + 1] ==
        IF lqbudget > DeltaSteps * n THEN best[n + 1] ELSE DeltaSteps * n
  IN  best[1]

(* The reference for it: the smallest positive multiple of deltaSteps that *)
(* is at least the budget.  A budget of 0 is in the first class.           *)
SmallestMultiple(lqbudget) ==
  Min({delta \in {DeltaSteps * n : n \in 1 .. lqbudget + 1} : delta >= lqbudget})

LqBudget(slo) == IF slo.lqMax >= slo.lqMin THEN slo.lqMax - slo.lqMin
                                           ELSE slo.lqMin - slo.lqMax

(* A plausible bug: every finite budget gets a class of its own. *)
WrongNoMaximum(slo) ==
  IF slo.dbf /\ slo.finite THEN BestDelta(LqBudget(slo)) ELSE MaximumDelta

ClassifyPacket(slo) ==
  IF slo.dbf /\ slo.finite /\ LqBudget(slo) < MaximumDelta
  THEN BestDelta(LqBudget(slo))
  ELSE MaximumDelta
=============================================================================
