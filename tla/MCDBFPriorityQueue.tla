------------------------- MODULE MCDBFPriorityQueue -------------------------
(* Budgets at the edges of classes of width 2, and one of maximumDelta.    *)
EXTENDS DBFPriorityQueue

Slo(dbf, admit, finite, lqMin, lqMax) ==
  LET slo == [dbf |-> dbf, admit |-> admit, finite |-> finite,
              lqMin |-> lqMin, lqMax |-> lqMax]
  IN  slo @@ [delta |-> ClassifyPacket(slo)]

MCProfile ==
  { Slo(FALSE, FALSE, FALSE, 0, 0),    (* best effort                      *)
    Slo(TRUE, FALSE, TRUE, 1, 1),      (* an instant: class 2              *)
    Slo(TRUE, FALSE, TRUE, 0, 2),      (* budget 2: class 2                *)
    Slo(TRUE, TRUE, TRUE, -2, 1),      (* budget 3: class 4                *)
    Slo(TRUE, FALSE, TRUE, -3, 3) }    (* budget 6: above maximumDelta     *)

MCDelta == {slo.delta : slo \in MCProfile}

(* The while loop of classifyPacket finds the smallest class that fits.    *)
ASSUME LoopAssumption ==
  \A lqbudget \in 0 .. 20 : BestDelta(lqbudget) = SmallestMultiple(lqbudget)

Symmetric == Permutations(Id)
=============================================================================
