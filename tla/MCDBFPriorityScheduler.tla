----------------------- MODULE MCDBFPriorityScheduler -----------------------
(* Small instances of the scheduler; profiles get the class that the       *)
(* classifier computes for them.                                           *)
EXTENDS DBFPriorityScheduler, DBFClassifierOps

Slo(dbf, admit, finite, lqMin, lqMax) ==
  LET slo == [dbf |-> dbf, admit |-> admit, finite |-> finite,
              lqMin |-> lqMin, lqMax |-> lqMax]
  IN  slo @@ [delta |-> ClassifyPacket(slo)]

MCProfile ==
  { Slo(FALSE, FALSE, FALSE, 0, 0),    (* best effort: lowest class        *)
    Slo(TRUE, FALSE, FALSE, 2, 0),     (* minimum delay only: lowest class *)
    Slo(TRUE, FALSE, TRUE, 1, 1),      (* an exact send time: class 1      *)
    Slo(TRUE, FALSE, TRUE, 1, 3),      (* a window: class 2                *)
    Slo(TRUE, TRUE, TRUE, -1, 1) }     (* ready, short deadline: class 2   *)

MCDelta == {slo.delta : slo \in MCProfile}

Unlimited == -1

Symmetric == Permutations(Id)
=============================================================================
