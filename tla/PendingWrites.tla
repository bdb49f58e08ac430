---------------------------- MODULE PendingWrites ----------------------------
(***************************************************************************)
(* PendingWrite (pending_write.rs), the rest of a short write that a       *)
(* worker keeps for a stream, and the shape of the events that workers     *)
(* send to JavaScript.                                                     *)
(***************************************************************************)
EXTENDS AdmissionCore

\* Bytes not yet taken by quiche, and the FIN.
Nothing == [bytes |-> 0, fin |-> FALSE, some |-> FALSE]
PendingWrite(n, fin) == [bytes |-> n, fin |-> fin, some |-> TRUE]
queued_units(w) == IF w.some THEN outbound_payload_units(w.bytes, w.fin) ELSE 0

\* push_chunk followed by set_fin
push_chunk(w, n, fin) == PendingWrite(w.bytes + n, w.fin \/ fin)

Event(type, s) == [type |-> type, s |-> s, n |-> 0, fin |-> FALSE]
DataEvent(type, s, n, fin) == [type |-> type, s |-> s, n |-> n, fin |-> fin]
=============================================================================
