--------------------------- MODULE MCEventDelivery ---------------------------
(* Two bindings of one process that share the gauge, without any fault. *)
EXTENDS EventDelivery

CONSTANTS w1, w2

CrossSetups ==
    {[bindings |-> {{w1}, {w2}}, batch |-> 1, conns |-> 1, app |-> 3, ctl |-> 0, sends |-> 0, faults |-> {}]}
=============================================================================
