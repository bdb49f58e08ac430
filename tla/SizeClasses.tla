----------------------------- MODULE SizeClasses -----------------------------
(***************************************************************************)
(* The size-class arithmetic of the two buffer pools, proof_core/          *)
(* chunk_pool_model.rs and proof_core/buffer_pool_model.rs.  A table of    *)
(* classes is an ascending sequence of capacities; class 0 stands for the  *)
(* None of the code.                                                       *)
(***************************************************************************)
EXTENDS Integers, Sequences

Least(S) == CHOOSE i \in S : \A j \in S : i <= j
Greatest(S) == CHOOSE i \in S : \A j \in S : i >= j

\* bin_for and class_for_request: the smallest class that holds len.
bin_for(classes, len) ==
    LET fits == {i \in DOMAIN classes : len <= classes[i]}
    IN  IF fits = {} THEN 0 ELSE Least(fits)

\* A plausible bug (audit finding 28): file a buffer as a request is looked up.
bin_for_cap_AsRequest(classes, cap) == bin_for(classes, cap)

\* bin_for_cap and class_for_capacity: the largest class that cap covers, and
\* none for a capacity beyond the table.
bin_for_cap(classes, cap) ==
    LET covered == {i \in DOMAIN classes : classes[i] <= cap}
    IN  IF covered = {} \/ cap > classes[Len(classes)] THEN 0 ELSE Greatest(covered)

\* Class tables are ascending and not empty.
Table(classes) ==
    /\ classes \in Seq(Nat \ {0}) /\ classes # << >>
    /\ \A i, j \in DOMAIN classes : i < j => classes[i] < classes[j]
=============================================================================
