---------------------------- MODULE H3Connection ----------------------------
(***************************************************************************)
(* H3Connection (connection.rs), the wrapper the HTTP/3 handlers drive, as *)
(* operators on a record: how it turns what quiche::h3 has to report into  *)
(* events under a budget, meters the body by read credit, and keeps track  *)
(* of blocked streams.                                                     *)
(*                                                                         *)
(* Of quiche the record has, for each stream, `cap' units of send          *)
(* capacity, `sent' and `fins'; `stopped' (STOP_SENDING) and whether it    *)
(* was told; the frames received and unread, `rx', a sequence of "H"       *)
(* (HEADERS) and "D" (a unit of body), then perhaps `fin' or `rst'.        *)
(* DATA is edge-triggered: a stream in `triggered' has been reported and   *)
(* is not reported again before it has been read empty.  A stream whose    *)
(* receiving half is over is in `shut'.                                    *)
(***************************************************************************)
EXTENDS PendingWrites, FiniteSets, SequencesExt, FiniteSetsExt, Functions, TLC

NoStream == 99   \* the -1 of events about the connection

\* H3Connection::new; `window' is stream_read_window, `chunk' H3_RECV_CHUNK.
NewConnection(streams, credit, window, chunk) ==
    [window |-> window, chunk |-> chunk, is_established |-> FALSE,
     life |-> "open", local_error |-> FALSE, broken |-> FALSE, goaway |-> NoStream, dgrams |-> 0,
     cap |-> [s \in streams |-> credit], sent |-> [s \in streams |-> 0], begun |-> {},
     fins |-> {}, stopped |-> {}, told |-> {},
     rx |-> [s \in streams |-> <<>>], fin |-> {}, rst |-> {}, shut |-> {}, triggered |-> {},
     blocked_queue |-> <<>>, read_credit |-> <<>>, pending_readable |-> {}, next_request |-> 0]

is_closed(c) == c.life = "closed"
blocked_set(c) == Range(c.blocked_queue)
Credit(c, s) == IF s \in DOMAIN c.read_credit THEN c.read_credit[s] ELSE c.chunk
Without(f, s) == [t \in DOMAIN f \ {s} |-> f[t]]

\* add_read_credit: only for a stream that is still tracked, up to the window.
add_read_credit(c, s, n) ==
    IF s \in DOMAIN c.read_credit
    THEN [c EXCEPT !.read_credit[s] = Min({@ + n, c.window})] ELSE c

\* clear_stream_tracking
clear_stream_tracking(c, s) ==
    [c EXCEPT !.read_credit = Without(@, s), !.pending_readable = @ \ {s},
              !.blocked_queue = SelectSeq(@, LAMBDA t : t # s)]

\* quiche's stream_closed: both halves are over.
stream_closed(c, s) == s \in c.begun /\ s \in c.shut /\ s \in c.fins \cup c.stopped

-----------------------------------------------------------------------------
(* Sending. *)

Block(c, s) == IF s \in blocked_set(c) THEN c
               ELSE [c EXCEPT !.blocked_queue = Append(@, s)]

Sent(ok, c, written, fin, rest) ==
    [ok |-> ok, c |-> c, written |-> written, fin_accepted |-> fin, rest |-> rest]

\* send_request: HEADERS take a unit of capacity of the next request stream; a
\* request quiche has no room for blocks the id it would have had.
send_request(c, fin) ==
    LET s == c.next_request
    IN  IF ~c.is_established \/ c.life # "open" \/ s \notin DOMAIN c.cap
        THEN [res |-> "error", c |-> c, id |-> s]
        ELSE IF c.cap[s] = 0 THEN [res |-> "blocked", c |-> Block(c, s), id |-> s]
        ELSE [res |-> "ok", id |-> s,
              c |-> [c EXCEPT !.cap[s] = @ - 1, !.begun = @ \cup {s}, !.next_request = s + 4,
                              !.fins = IF fin THEN @ \cup {s} ELSE @]]

\* Mutant: FIN goes with a short write.
send_body_arcbuf_EarlyFin(c, s, n, fin) ==
    IF s \notin c.begun \/ s \in c.stopped \cup c.fins THEN Sent(FALSE, c, 0, FALSE, FALSE)
    ELSE LET w == Min({n, c.cap[s]})
             d == [c EXCEPT !.cap[s] = @ - w, !.sent[s] = @ + w,
                            !.fins = IF fin THEN @ \cup {s} ELSE @]
         IN  Sent(TRUE, IF w = n THEN d ELSE Block(d, s), w, fin, w < n)

\* send_body_arcbuf: a stream quiche cannot describe is an error; without
\* capacity for a frame it blocks; FIN alone is a frame of its own.
send_body_arcbuf(c, s, n, fin) ==
    IF n = 0 /\ ~fin THEN Sent(TRUE, c, 0, FALSE, FALSE)
    ELSE IF s \notin c.begun \/ s \in c.stopped \cup c.fins THEN Sent(FALSE, c, 0, FALSE, FALSE)
    ELSE IF c.cap[s] = 0 THEN Sent(TRUE, Block(c, s), 0, FALSE, TRUE)
    ELSE LET w == Min({n, c.cap[s]})
             all == w = n
             d == [c EXCEPT !.cap[s] = @ - Max({w, 1}), !.sent[s] = @ + w,
                            !.fins = IF fin /\ all THEN @ \cup {s} ELSE @]
         IN  Sent(TRUE, IF all THEN d ELSE Block(d, s), w, fin /\ all, ~all)

\* stream_close: both halves are shut whatever quiche answers.
stream_close(c, s) ==
    clear_stream_tracking([c EXCEPT !.shut = @ \cup {s}, !.stopped = @ \cup {s}, !.told = @ \cup {s},
                                    !.rx[s] = <<>>], s)

\* poll_drain_events: blocked streams that have closed are forgotten, a stopped
\* one is RESET once, and a blocked one with capacity drains.
poll_drain_events(c) ==
    LET pruned == {s \in blocked_set(c) : stream_closed(c, s)}
        stopped == c.stopped \ c.told
        leaves(s) == s \notin pruned /\ c.cap[s] > 0 /\ s \notin c.stopped
        drains == SelectSeq(c.blocked_queue, leaves)
        d == FoldSet(LAMBDA s, acc : clear_stream_tracking(acc, s), c, pruned \cup stopped)
    IN  [c |-> [d EXCEPT !.told = @ \cup stopped,
                         !.blocked_queue = SelectSeq(@, LAMBDA s : ~leaves(s))],
         events |-> SetToSeq({Event("RESET", s) : s \in stopped})
                    \o [i \in DOMAIN drains |-> Event("DRAIN", drains[i])]]

\* The stream send of the client: as in QuicConnection, over send_body_arcbuf.
queue_stream_send(c, w, s, n, fin) ==
    LET out == send_body_arcbuf(c, s, n, fin)
    IN  IF w.some THEN [c |-> c, w |-> push_chunk(w, n, fin), units |-> 0, events |-> <<>>]
        ELSE IF ~out.ok
             THEN [c |-> c, w |-> w, units |-> outbound_payload_units(n, fin),
                   events |-> <<Event("ERROR", s)>>]
        ELSE [c |-> out.c,
              w |-> IF out.rest THEN PendingWrite(n - out.written, fin) ELSE Nothing,
              units |-> accepted_outbound_payload_units(n, fin, out.written, out.fin_accepted),
              events |-> IF out.rest THEN <<Event("STREAM_BLOCKED", s)>> ELSE <<>>]

\* flush_one_h3_pending_write, and the drop of a write whose stream has closed.
flush_one_h3_pending_write(c, w, s) ==
    LET out == send_body_arcbuf(c, s, w.bytes, w.fin)
    IN  IF stream_closed(c, s) \/ ~out.ok
        THEN [c |-> c, w |-> Nothing, units |-> queued_units(w), done |-> FALSE]
        ELSE [c |-> out.c,
              w |-> IF out.rest THEN PendingWrite(w.bytes - out.written, w.fin) ELSE Nothing,
              units |-> accepted_outbound_payload_units(w.bytes, w.fin, out.written,
                                                        out.fin_accepted),
              done |-> ~out.rest]

-----------------------------------------------------------------------------
(* Receiving: poll_h3_events. *)

\* recv_body takes n units; read empty, the stream is armed again.
Consume(c, s, n) ==
    LET rest == SubSeq(c.rx[s], n + 1, Len(c.rx[s]))
    IN  [c EXCEPT !.rx[s] = rest,
                  !.triggered = IF rest = <<>> THEN @ \ {s} ELSE @,
                  !.read_credit = IF s \in DOMAIN @ THEN [@ EXCEPT ![s] = @ - n] ELSE @]

\* Units of body at the front of the stream, across DATA frames.
Run(c, s) == Cardinality({i \in DOMAIN c.rx[s] : \A j \in 1..i : c.rx[s][j] = "D"})

\* push_pending_body_event: data joins the HEADERS of its stream if they are the
\* last event, and then costs no budget.
push_pending_body_event(acc, s, n) ==
    LET last == IF acc.events = <<>> THEN Event("NONE", s) ELSE Last(acc.events)
    IN  IF n = 0 THEN acc
        ELSE IF last.type = "HEADERS" /\ last.s = s /\ last.n = 0 /\ ~last.fin
             THEN [acc EXCEPT !.events[Len(acc.events)].n = n]
        ELSE [acc EXCEPT !.events = Append(@, DataEvent("DATA", s, n, FALSE)), !.b = @ - 1]

\* Mutant: a stream without budget or credit is not remembered.
ReadBody_Forgets(acc, s) ==
    LET c == acc.c
        n == Min({c.chunk, Credit(c, s), Run(c, s)})
    IN  IF acc.b = 0 \/ Credit(c, s) = 0 THEN acc
        ELSE push_pending_body_event([acc EXCEPT !.c = Consume(c, s, n)], s, n)

\* The DATA branch: buffers of H3_RECV_CHUNK, or of the credit if that is less,
\* are filled one after the other until the data, the budget or the credit is
\* used up; in the last two cases the stream goes to pending_readable.
RECURSIVE ReadBody(_, _)
ReadBody(acc, s) ==
    LET c == acc.c
        room == Min({c.chunk, Credit(c, s)})
        n == Min({room, Run(c, s)})
        next == push_pending_body_event([acc EXCEPT !.c = Consume(c, s, n)], s, n)
    IN  IF acc.b = 0 \/ Credit(c, s) = 0
        THEN [acc EXCEPT !.c.pending_readable = @ \cup {s}]
        ELSE IF s \in c.rst \ c.shut
             THEN [acc EXCEPT !.events = Append(@, Event("ERROR", s)), !.b = @ - 1,
                              !.c.shut = @ \cup {s}]
        ELSE IF n < room THEN next
        ELSE ReadBody(next, s)

\* What h3::Connection::poll may return (quiche): nothing once the connection
\* was closed from here; streams in any order.
Polls(c) ==
    LET open == DOMAIN c.rx \ c.shut
        at(f) == {s \in open \ c.rst : c.rx[s] # <<>> /\ Head(c.rx[s]) = f}
        over == {s \in (c.fin \cap open) \ c.rst : c.rx[s] = <<>>}
    IN  IF c.local_error \/ ~c.is_established THEN {}
        ELSE IF c.broken THEN {Event("ERROR", NoStream)}
        ELSE {Event("RESET", s) : s \in open \cap c.rst}
             \cup {DataEvent("HEADERS", s, 0, s \in c.fin /\ Len(c.rx[s]) = 1) : s \in at("H")}
             \cup {Event("DATA", s) : s \in at("D") \ c.triggered}
             \cup {Event("FINISHED", s) : s \in over}
             \cup (IF c.goaway # NoStream THEN {Event("GOAWAY", c.goaway)} ELSE {})

Emit(acc, e) == [acc EXCEPT !.events = Append(@, e), !.b = @ - 1]

\* One turn of the loop for an event of poll.  Tracking of streams RESET or
\* closed is cleared after the loop in the code; nothing reads it in between.
Took(acc, e) ==
    LET c == acc.c
        s == e.s
    IN  CASE e.type = "HEADERS" ->
               Emit([acc EXCEPT !.c.rx[s] = Tail(@),
                                !.c.read_credit = IF s \in DOMAIN @ THEN @ ELSE @ @@ (s :> c.window)], e)
          [] e.type = "DATA" -> ReadBody([acc EXCEPT !.c.triggered = @ \cup {s}], s)
          [] e.type = "FINISHED" ->
               LET d == [c EXCEPT !.shut = @ \cup {s}, !.read_credit = Without(@, s),
                                  !.pending_readable = @ \ {s}]
               IN  Emit([acc EXCEPT !.c = IF stream_closed(d, s) THEN clear_stream_tracking(d, s) ELSE d], e)
          [] e.type = "RESET" ->
               Emit([acc EXCEPT !.c = clear_stream_tracking([c EXCEPT !.shut = @ \cup {s}], s)], e)
          [] e.type = "GOAWAY" -> Emit([acc EXCEPT !.c.goaway = NoStream], e)
          [] OTHER -> Emit([acc EXCEPT !.c.local_error = TRUE, !.c.life = "closing"], e)

RECURSIVE PollLoop(_)
PollLoop(acc) ==
    LET ready == {s \in acc.c.pending_readable : Credit(acc.c, s) > 0}
    IN  IF acc.b = 0 THEN {acc}
        ELSE IF ready # {}
             THEN UNION {PollLoop(ReadBody([acc EXCEPT !.c.pending_readable = @ \ {s}], s)) : s \in ready}
        ELSE IF Polls(acc.c) = {} THEN {acc}
        ELSE UNION {PollLoop(Took(acc, e)) : e \in Polls(acc.c)}

\* poll_h3_events: the loop, datagrams within what is left of the budget, then
\* the drains; the outcomes differ in the order of the streams.
poll_h3_events(c, budget) ==
    { LET grams == Min({acc.b, acc.c.dgrams})
          out == poll_drain_events([acc.c EXCEPT !.dgrams = @ - grams])
      IN  [c |-> out.c,
           events |-> acc.events \o [i \in 1..grams |-> Event("DATAGRAM", NoStream)] \o out.events]
      : acc \in PollLoop([c |-> c, b |-> budget, events |-> <<>>]) }
=============================================================================
