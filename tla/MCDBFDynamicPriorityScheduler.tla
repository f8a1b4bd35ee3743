----------------------- MODULE MCDBFDynamicPriorityScheduler -------------------
(* Small instances of the dynamic scheduler: with DeltaSteps = 2 windows   *)
(* of different width share a class, above the lowest one.                 *)
EXTENDS DBFDynamicPriorityScheduler, DBFClassifierOps

Slo(dbf, admit, finite, lqMin, lqMax) ==
  LET slo == [dbf |-> dbf, admit |-> admit, finite |-> finite,
              lqMin |-> lqMin, lqMax |-> lqMax]
  IN  slo @@ [delta |-> ClassifyPacket(slo)]

MCProfile ==
  { Slo(FALSE, FALSE, FALSE, 0, 0),    (* best effort: lowest class        *)
    Slo(TRUE, FALSE, FALSE, 2, 0),     (* minimum delay only: lowest class *)
    Slo(TRUE, FALSE, TRUE, 1, 1),      (* an exact send time               *)
    Slo(TRUE, FALSE, TRUE, 0, 2),      (* a wide window                    *)
    Slo(TRUE, TRUE, TRUE, -1, 0) }     (* late, and no time left           *)

MCDelta == {slo.delta : slo \in MCProfile}

Unlimited == -1

Symmetric == Permutations(Id)
=============================================================================
