----------------------------- MODULE QuicStreams -----------------------------
(***************************************************************************)
(* QuicStream (quic-stream.ts) as operators on a record, for the clients   *)
(* and the server of raw QUIC.  A stream has `todo' bytes its application  *)
(* may still write; `accepted' of them went to the transport and one write *)
(* may be parked with its callback.  `got' reads came in, perhaps the end. *)
(***************************************************************************)
EXTENDS PendingWrites

QuicStream(st, todo) ==
    [st |-> st, blocked |-> FALSE, parked |-> Nothing, todo |-> todo, fin |-> FALSE,
     accepted |-> 0, got |-> 0, ended |-> FALSE]

\* destroy(): parked callbacks are rejected and the stream leaves _streams.
Destroyed(st) == [st EXCEPT !.st = "gone", !.parked = Nothing]

\* _pushData
Received(st, e) == [st EXCEPT !.got = @ + e.n, !.ended = @ \/ e.fin \/ e.type = "FINISHED"]

\* _write is called for one chunk at a time and not after _final.
CanWrite(st) == st.st = "open" /\ ~st.fin /\ ~st.parked.some

\* _writeChunk and _writeFinalChunk against a window that holds `queued' units:
\* a blocked stream parks without asking, a refused one parks and leaves its
\* mark on the window.
Offer(st, queued, n, fin) ==
    LET units == outbound_payload_units(n, fin)
        admitted == ~st.blocked /\ admit_next(queued, units)
    IN  [admitted |-> admitted, refused |-> ~st.blocked /\ ~admitted,
         queued |-> IF admitted THEN queued + units ELSE queued,
         st |-> IF admitted THEN [st EXCEPT !.parked = Nothing, !.accepted = @ + n]
                ELSE [st EXCEPT !.parked = PendingWrite(n, fin)]]

\* OutboundAdmission::release: what is left, and whether writers must be told.
Freed(queued, pressured, units) ==
    LET next == release_next(queued, units)
    IN  [queued |-> next, ready |-> units > 0 /\ release_emits_write_ready(next, pressured)]
=============================================================================
