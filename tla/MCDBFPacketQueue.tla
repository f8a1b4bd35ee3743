-------------------------- MODULE MCDBFPacketQueue --------------------------
(* The low priority queue, where DBF packets without a deadline and BE     *)
(* packets meet, and a finite deadline too (maximumDelta = 0 puts every    *)
(* packet there).                                                          *)
EXTENDS DBFPacketQueue

Slo(dbf, admit, finite, lqMin, lqMax) ==
  [dbf |-> dbf, admit |-> admit, finite |-> finite,
   lqMin |-> lqMin, lqMax |-> lqMax, delta |-> 0]

MCDelta == {0}

MCProfile ==
  { Slo(FALSE, FALSE, FALSE, 0, 0),    (* best effort                      *)
    Slo(TRUE, FALSE, FALSE, 0, 0),     (* no deadline, no minimum delay    *)
    Slo(TRUE, TRUE, FALSE, -1, 0),     (* no deadline, late, admitted      *)
    Slo(TRUE, FALSE, TRUE, 1, 1),      (* an exact send time               *)
    Slo(TRUE, TRUE, TRUE, 1, 2) }      (* a window, admitted               *)

Unlimited == -1

Symmetric == Permutations(Id)
=============================================================================
