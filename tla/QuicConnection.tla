---------------------------- MODULE QuicConnection ----------------------------
(***************************************************************************)
(* QuicConnection (quic_connection.rs), the wrapper both raw QUIC handlers *)
(* drive, as operators on a record: what its methods make of quiche's      *)
(* streams and of the three tracking sets it keeps beside them,            *)
(* known_streams, pending_fin and the queue of blocked streams.            *)
(*                                                                         *)
(* quiche's own state is the rest of the record.  A stream holds `cap'     *)
(* bytes of send credit, has taken `sent' of them and perhaps the FIN      *)
(* (`fins'); the peer may have stopped it (`stopped').  In the other       *)
(* direction `avail' reads are buffered, each worth one application event  *)
(* (RECV_CHUNK), and the FIN or a RESET may have come (`fin', `rst'); once *)
(* the read side is shut (`shut') quiche reports the stream no more.       *)
(***************************************************************************)
EXTENDS PendingWrites, FiniteSets, SequencesExt, FiniteSetsExt, Functions

\* QuicConnection::new: quiche's streams with no tracking state yet.
NewConnection(streams, local, credit) ==
    [local |-> local, life |-> "open",
     cap |-> [s \in streams |-> credit], sent |-> [s \in streams |-> 0],
     fins |-> {}, stopped |-> {},
     avail |-> [s \in streams |-> 0], fin |-> {}, rst |-> {}, shut |-> {},
     known_streams |-> {}, pending_fin |-> {}, blocked_queue |-> <<>>]

is_closed(c) == c.life = "closed"
blocked_set(c) == Range(c.blocked_queue)

-----------------------------------------------------------------------------
(* Sending. *)

\* quiche takes data for the stream: neither stopped, reset nor finished.
Sendable(c, s) == s \notin c.stopped \cup c.fins

Block(c, s) == IF s \in blocked_set(c) THEN c
               ELSE [c EXCEPT !.blocked_queue = Append(@, s)]

Known(c, s) == IF s \in c.local THEN [c EXCEPT !.known_streams = @ \cup {s}] ELSE c

Sent(ok, c, written, fin, rest) ==
    [ok |-> ok, c |-> c, written |-> written, fin_accepted |-> fin, rest |-> rest]

\* Mutant: a stream quiche has no room for is not queued as blocked.
stream_send_arcbuf_Unqueued(c, s, n, fin) ==
    IF ~Sendable(c, s) THEN Sent(FALSE, c, 0, FALSE, FALSE)
    ELSE LET w == Min({n, c.cap[s]})
             d == [c EXCEPT !.cap[s] = @ - w, !.sent[s] = @ + w,
                            !.fins = IF fin /\ w = n THEN @ \cup {s} ELSE @]
         IN  Sent(TRUE, d, w, fin /\ w = n, w < n)

\* stream_send_arcbuf: a FIN without data costs quiche nothing and reports 1;
\* a blocked stream without credit is not even tried; otherwise quiche takes
\* what the credit allows, and a short write blocks the stream.
stream_send_arcbuf(c, s, n, fin) ==
    IF n = 0 /\ ~fin THEN Sent(TRUE, c, 0, FALSE, FALSE)
    ELSE IF s \in c.stopped \/ ~Sendable(c, s) THEN Sent(FALSE, c, 0, FALSE, FALSE)
    ELSE IF n = 0
         THEN Sent(TRUE, Known([c EXCEPT !.fins = @ \cup {s}], s), 1, TRUE, FALSE)
    ELSE IF c.cap[s] = 0 THEN Sent(TRUE, Block(c, s), 0, FALSE, TRUE)
    ELSE LET w == Min({n, c.cap[s]})
             all == w = n
             d == [c EXCEPT !.cap[s] = @ - w, !.sent[s] = @ + w,
                            !.fins = IF fin /\ all THEN @ \cup {s} ELSE @]
         IN  Sent(TRUE, Known(IF all THEN d ELSE Block(d, s), s), w, fin /\ all, ~all)

\* reserve_local_bidi_stream (the id comes from next_bidi_stream_id)
reserve_local_bidi_stream(c, s) == [c EXCEPT !.known_streams = @ \cup {s}]

\* stream_close: both directions are shut whatever quiche answers.
stream_close(c, s) ==
    [c EXCEPT !.shut = @ \cup {s}, !.stopped = @ \cup {s}, !.avail[s] = 0,
              !.blocked_queue = SelectSeq(@, LAMBDA t : t # s),
              !.known_streams = @ \ {s}]

\* poll_drain_events: one turn of the queue; a stream with credit drains, one
\* that quiche refuses to describe is an error, the others stay queued.
poll_drain_events(c) ==
    LET leaves(s) == s \in c.stopped \/ c.cap[s] > 0
        going == SelectSeq(c.blocked_queue, leaves)
    IN  [c |-> [c EXCEPT !.blocked_queue = SelectSeq(@, LAMBDA s : ~leaves(s))],
         events |-> [i \in DOMAIN going |->
                       Event(IF going[i] \in c.stopped THEN "ERROR" ELSE "DRAIN", going[i])]]

-----------------------------------------------------------------------------
(* Pending writes: quic_worker.rs and quic_worker/pending.rs. *)

\* The stream send both handlers make: behind a pending write the chunk only
\* queues; otherwise the rest of a short write becomes the pending write and
\* JavaScript hears STREAM_BLOCKED, and a refusal gives all units back.
queue_stream_send(c, w, s, n, fin) ==
    LET out == stream_send_arcbuf(c, s, n, fin)
    IN  IF w.some THEN [c |-> c, w |-> push_chunk(w, n, fin), units |-> 0, events |-> <<>>]
        ELSE IF ~out.ok
             THEN [c |-> c, w |-> w, units |-> outbound_payload_units(n, fin),
                   events |-> <<Event("ERROR", s)>>]
        ELSE [c |-> out.c,
              w |-> IF out.rest THEN PendingWrite(n - out.written, fin) ELSE Nothing,
              units |-> accepted_outbound_payload_units(n, fin, out.written, out.fin_accepted),
              events |-> IF out.rest THEN <<Event("STREAM_BLOCKED", s)>> ELSE <<>>]

\* flush_one_quic_pending_write: done, still waiting, or dropped on an error.
flush_one_quic_pending_write(c, w, s) ==
    LET out == stream_send_arcbuf(c, s, w.bytes, w.fin)
    IN  IF ~w.some THEN [c |-> c, w |-> w, units |-> 0, done |-> FALSE]
        ELSE IF ~out.ok THEN [c |-> c, w |-> Nothing, units |-> queued_units(w), done |-> FALSE]
        ELSE [c |-> out.c,
              w |-> IF out.rest THEN PendingWrite(w.bytes - out.written, w.fin) ELSE Nothing,
              units |-> accepted_outbound_payload_units(w.bytes, w.fin, out.written,
                                                        out.fin_accepted),
              done |-> ~out.rest]

-----------------------------------------------------------------------------
(* Receiving. *)

\* quiche's readable(): data, a FIN not yet read or a RESET not yet reported.
Readable(c, s) == s \notin c.shut /\ (c.avail[s] > 0 \/ s \in c.fin \cup c.rst)

\* Events that reading the stream to its end takes.
Needs(c, s) ==
    IF ~Readable(c, s) THEN 0
    ELSE IF s \in c.rst THEN IF s \in c.known_streams THEN 1 ELSE 2
    ELSE Max({c.avail[s], 1})

\* Mutant: the FIN rides on the last read the budget allows.
ReadStream_EarlyFin(c, s, b) ==
    LET take == Min({Needs(c, s), b})
    IN  [events |-> [i \in 1..take |-> DataEvent(IF i = 1 /\ s \notin c.known_streams THEN "NEW_STREAM"
                                                 ELSE "DATA", s, Min({c.avail[s], 1}), s \in c.fin /\ i = take)],
         units |-> Min({c.avail[s], take}), known |-> take > 0 \/ s \in c.known_streams,
         over |-> take > 0 /\ s \in c.fin, wait |-> FALSE]

\* One stream of poll_quic_events under a remaining budget b: NEW_STREAM for an
\* unknown one, coalesced with the first read; DATA until the budget, the data
\* or the FIN ends the loop; ERROR for a RESET, which the budget may swallow.
ReadStream(c, s, b) ==
    LET new == s \notin c.known_streams
        take == Min({Needs(c, s), b})
        last(i) == s \in c.fin /\ i = Needs(c, s)
        units == Min({c.avail[s], take})
    IN  IF take = 0 THEN [events |-> <<>>, units |-> 0, known |-> ~new, over |-> FALSE, wait |-> FALSE]
        ELSE IF s \in c.rst
             THEN [events |-> (IF new THEN <<Event("NEW_STREAM", s)>> ELSE <<>>)
                              \o (IF take = Needs(c, s) THEN <<Event("ERROR", s)>> ELSE <<>>),
                   units |-> 0, known |-> FALSE, over |-> TRUE, wait |-> FALSE]
        ELSE [events |-> [i \in 1..take |->
                  IF i = 1 /\ new THEN DataEvent("NEW_STREAM", s, Min({c.avail[s], 1}), last(i))
                  ELSE IF c.avail[s] = 0 THEN Event("FINISHED", s)
                  ELSE DataEvent("DATA", s, 1, last(i))],
              units |-> units, known |-> ~last(take), over |-> last(take),
              wait |-> ~last(take) /\ take < b]

Before(S, s) == {t \in S : t < s}

\* poll_quic_events: each readable stream under what the earlier ones left of
\* the budget, then the drains; without a budget only the drains.
poll_quic_events(c, budget) ==
    LET streams == DOMAIN c.avail
        left(s) == budget - SumFunction([t \in Before(streams, s) |-> Needs(c, t)])
        read == [s \in streams |-> ReadStream(c, s, Max({left(s), 0}))]
        d == [c EXCEPT !.avail = [s \in streams |-> c.avail[s] - read[s].units],
                       !.known_streams = {s \in streams : read[s].known},
                       !.shut = @ \cup {s \in streams : read[s].over},
                       !.pending_fin = @ \cup {s \in streams : read[s].wait}]
        drained == poll_drain_events(IF budget = 0 THEN c ELSE d)
    IN  [c |-> drained.c,
         events |-> (IF budget = 0 THEN <<>>
                     ELSE FlattenSeq([i \in 1..Cardinality(streams) |->
                                        read[SetToSortSeq(streams, <)[i]].events]))
                    \o drained.events]

\* stream_finished and not stream_readable: the final size is known and read.
Finished(c, s) == s \in c.fin \cup c.rst /\ c.avail[s] = 0 /\ ~Readable(c, s)

\* sweep_finished_streams: FINISHED for the known ones, within the budget.
sweep_finished_streams(c, budget) ==
    LET ready == {s \in c.pending_fin : Finished(c, s)}
        newly == {s \in ready : Cardinality(Before(ready, s)) < budget}
        told == newly \cap c.known_streams
    IN  [c |-> [c EXCEPT !.pending_fin = @ \ newly, !.known_streams = @ \ told,
                         !.shut = @ \cup told],
         events |-> [i \in 1..Cardinality(told) |-> Event("FINISHED", SetToSortSeq(told, <)[i])]]

-----------------------------------------------------------------------------
(* What a packet may do to quiche's streams (quiche, external). *)

PeerCredit(c, s) == [c EXCEPT !.cap[s] = @ + 1]
PeerStops(c, s) == [c EXCEPT !.stopped = @ \cup {s}]
PeerData(c, s) == [c EXCEPT !.avail[s] = IF s \in c.shut THEN @ ELSE @ + 1]
PeerFin(c, s) == [c EXCEPT !.fin = @ \cup {s}]
PeerResets(c, s) == [c EXCEPT !.rst = @ \cup {s}, !.avail[s] = 0]
=============================================================================
