----------------------------- MODULE WasmServer -----------------------------
(***************************************************************************)
(* The WASM servers: a JavaScript event loop (h3-server-event-loop.ts,     *)
(* quic-server-event-loop.ts) that owns the socket and the only timer and  *)
(* drives the Rust core through synchronous calls (hs_* and qs_* of the    *)
(* http3-wasm crate, and the direct-call methods of the two handlers).     *)
(*                                                                         *)
(* Every entry, a datagram, the timer, a tick of the closing loop or a     *)
(* command of the application, calls the core and ends in pump.  pump      *)
(* hands its events to a microtask, so `inbox' is what JavaScript has      *)
(* still to see: commands may come before it is empty, but no datagram,    *)
(* timer or tick, which are tasks of their own.                            *)
(*                                                                         *)
(* A connection has one request stream.  `out' says that quiche has a      *)
(* packet to send; `cap' is the credit of the peer.  Ids of connections    *)
(* are ghosts: the code knows a connection by its slot alone.              *)
(***************************************************************************)
EXTENDS PendingWrites, Integers, Sequences, FiniteSets, SequencesExt, FiniteSetsExt, Functions

CONSTANT Setups   \* the configurations a run explores

VARIABLES
    setup,   \* the one of this behaviour
    loop,    \* the event loop: state, timer armed, transport open, ticks left
    core,    \* the handler behind the handle, and its pending_events
    inbox,   \* events of microtasks not dispatched yet
    app,     \* per slot: the session and the stream JavaScript holds
    net      \* connections accepted, packets left, peers with a token

vars == <<setup, loop, core, inbox, app, net>>

None == [of |-> "", id |-> 0, st |-> "none", h3 |-> FALSE, told |-> FALSE,
         strm |-> "none", hdr |-> FALSE, cap |-> 0, sent |-> 0, fin |-> FALSE, blocked |-> FALSE, out |-> FALSE]
NoStream == [id |-> 0, life |-> "none", hdr |-> FALSE, left |-> 0, fin |-> FALSE,
             blocked |-> FALSE, parked |-> Nothing, acc |-> 0]
Note(type, h, id) == [type |-> type, h |-> h, id |-> id]

AllSlots == 0 .. Max({s.max_connections : s \in Setups}) - 1
Clients == {x : x \in UNION {s.clients : s \in Setups}}
Slots == 0 .. setup.max_connections - 1
H3 == setup.proto = "h3"

\* A handler without connections, as new_direct of both handlers makes it.
NewCore == [live |-> TRUE, conns |-> [h \in Slots |-> None],
            pending_writes |-> [h \in Slots |-> Nothing],
            pending_responses |-> [h \in Slots |-> Nothing],
            closes |-> {}, timers |-> {}, last_expired |-> {}, tx |-> 0, events |-> <<>>]
NoCore == [NewCore EXCEPT !.live = FALSE]

\* hs_new, qs_new; a bad configuration gives no handle.
hs_new(bad) == IF bad THEN NoCore ELSE NewCore
qs_new(bad) == IF bad THEN NoCore ELSE NewCore

Init ==
    /\ setup \in Setups
    /\ loop = [st |-> "idle", timer |-> FALSE, transport |-> FALSE, ticks |-> setup.ticks,
               abort |-> FALSE]
    /\ core = NoCore
    /\ inbox = <<>>
    /\ app = [h \in Slots |-> [session |-> 0, closing |-> FALSE, stream |-> NoStream]]
    /\ net = [ids |-> 0, packets |-> setup.packets, tokens |-> {}]

-----------------------------------------------------------------------------
(* The handlers' direct-call methods, as operators on the core. *)

Live(k) == {h \in DOMAIN k.conns : k.conns[h].st # "none"}
Emit(k, type, h) == [k EXCEPT !.events = Append(@, Note(type, h, k.conns[h].id))]
Pending(k, h) == k.pending_writes[h].some \/ k.pending_responses[h].some

\* quiche's timeout: a connection that has processed a packet, until it is closed.
timeout(c) == c.st \notin {"none", "new", "closed"}
set_deadline(k, h) ==
    [k EXCEPT !.timers = IF timeout(k.conns[h]) THEN @ \cup {h} ELSE @ \ {h}]

\* quiche's close: nothing on a connection already closing; at once on one that
\* never processed a packet.
Close(c) ==
    IF c.st = "new" THEN [c EXCEPT !.st = "closed"]
    ELSE IF c.st \in {"hs", "up"} THEN [c EXCEPT !.st = "closing", !.out = TRUE] ELSE c

\* soonest_deadline of the HTTP/3 handler; hs_timeout_ms and qs_timeout_ms, for
\* which only the presence of a deadline matters here.
soonest_deadline(k) == k.timers # {} \/ k.closes # {}
hs_timeout_ms(k) == k.live /\ soonest_deadline(k)
qs_timeout_ms(k) == k.live /\ k.timers # {}
timeout_ms(k) == IF H3 THEN hs_timeout_ms(k) ELSE qs_timeout_ms(k)

\* hs_is_done, qs_is_done; deferred closes exist in HTTP/3 only.
hs_is_done(k) == ~k.live \/ (Live(k) = {} /\ k.closes = {})
qs_is_done(k) == ~k.live \/ Live(k) = {}
is_done(k) == IF H3 THEN hs_is_done(k) ELSE qs_is_done(k)

\* shutdown_all_connections
shutdown_all_connections(k) == [k EXCEPT !.conns = [h \in Slots |-> Close(k.conns[h])]]

\* send_body_arcbuf and stream_send_arcbuf: what quiche takes of n units.
SendBody(c, n, fin) ==
    LET w == Min({n, c.cap})
        frame == IF n = 0 /\ H3 THEN 1 ELSE w
        rest == IF n = 0 THEN H3 /\ c.cap = 0 ELSE w < n
    IN  [ok |-> c.strm = "open" /\ ~c.fin, rest |-> rest, written |-> w,
         c |-> [c EXCEPT !.cap = @ - (IF rest /\ n = 0 THEN 0 ELSE frame), !.sent = @ + w,
                         !.fin = fin /\ ~rest, !.blocked = @ \/ rest, !.out = TRUE]]

\* The drain events that poll_h3_events ends with, and suppress_pending_drains: a
\* stream the peer stopped is reported whatever it was doing, one with credit
\* drains unless the handler still holds data of it.
PollH3(k, h) ==
    LET c == k.conns[h]
        free == [k EXCEPT !.conns[h].blocked = FALSE]
    IN  IF c.strm = "stopped" THEN Emit([free EXCEPT !.conns[h].strm = "reset"], "RESET", h)
        ELSE IF ~c.blocked \/ c.cap = 0 THEN k
        ELSE IF Pending(k, h) THEN free ELSE Emit(free, "DRAIN", h)

\* Those of poll_quic_events: only a blocked stream is looked at, and DRAIN comes
\* even if the handler holds data.
PollQuic(k, h) ==
    LET c == k.conns[h]
        free == [k EXCEPT !.conns[h].blocked = FALSE]
    IN  IF ~c.blocked THEN k
        ELSE IF c.strm # "open" THEN Emit(free, "ERROR", h)
        ELSE IF c.cap = 0 THEN k ELSE Emit(free, "DRAIN", h)

poll_drain_events(k, h) == IF H3 THEN PollH3(k, h) ELSE PollQuic(k, h)

\* What quiche makes of a packet that the connection accepts.
Took(c, p) ==
    CASE p \in {"initial", "token"} ->
             [c EXCEPT !.st = IF @ = "new" THEN "hs" ELSE @, !.out = TRUE]
      [] p = "finish"  -> IF c.st # "hs" THEN c
                         ELSE [c EXCEPT !.st = "up", !.out = TRUE]
      [] p = "request" -> [c EXCEPT !.strm = IF @ = "none" /\ c.told THEN "open" ELSE @]
      [] p = "credit"  -> [c EXCEPT !.cap = @ + 1]
      [] p = "stop"    -> [c EXCEPT !.strm = IF @ = "open" THEN "stopped" ELSE @]
      [] p = "junk"    -> [c EXCEPT !.st = IF @ = "new" THEN "closed" ELSE @]
      [] p = "close"   -> [c EXCEPT !.st = IF @ \in {"hs", "up", "closing"} THEN "draining" ELSE @,
                                    !.out = FALSE]

\* The handshake ends, or fails for want of a certificate.
Handshaken(k, h) ==
    IF k.conns[h].st # "up" \/ k.conns[h].told THEN k
    ELSE IF setup.no_cert THEN [k EXCEPT !.conns[h] = Close(@)]
    ELSE Emit([k EXCEPT !.conns[h].told = TRUE], "HANDSHAKE", h)

\* process_inbound_packet of the HTTP/3 handler once the packet has its connection:
\* after one that quiche refuses ("junk", which ends a connection that had none
\* before and is dropped by any other) the rest is skipped; then init_h3, the
\* handshake, the request, the connection's events and its deadline.
ReceiveH3(k, h, p) ==
    LET took == [k EXCEPT !.conns[h] = Took(@, p)]
        k1 == Handshaken([took EXCEPT !.conns[h].h3 = @ \/ took.conns[h].st = "up"], h)
        fresh == k.conns[h].strm = "none" /\ k1.conns[h].strm = "open"
        k2 == IF fresh THEN Emit(k1, "HEADERS", h) ELSE k1
    IN  IF p = "junk" THEN took ELSE set_deadline(PollH3(k2, h), h)

\* The same of the raw QUIC handler; the first data of a stream announces it.
ReceiveQuic(k, h, p) ==
    LET k1 == Handshaken([k EXCEPT !.conns[h] = Took(@, p)], h)
        fresh == k.conns[h].strm = "none" /\ k1.conns[h].strm = "open"
        k2 == IF fresh THEN Emit([k1 EXCEPT !.conns[h].hdr = TRUE], "NEW_STREAM", h) ELSE k1
    IN  IF p = "junk" THEN [k EXCEPT !.conns[h] = Took(@, p)] ELSE set_deadline(PollQuic(k2, h), h)

hs_recv(k, h, p) == ReceiveH3(k, h, p)
qs_recv(k, h, p) == ReceiveQuic(k, h, p)
ReceiveOn(k, h, p) == IF H3 THEN hs_recv(k, h, p) ELSE qs_recv(k, h, p)

\* accept_new and the NEW_SESSION event.
accept_new(k, h, c, id) ==
    LET new == [None EXCEPT !.of = c, !.id = id, !.st = "new", !.cap = setup.initial]
    IN  Emit([k EXCEPT !.conns[h] = new], "NEW_SESSION", h)

\* The events of one expired connection in expire_timers; `dies' is quiche's
\* decision on a connection that was not closing (its idle timeout).
ExpireOne(k, h, dies) ==
    LET over == dies \/ k.conns[h].st \in {"closing", "draining", "closed"}
    IN  IF over THEN Emit([k EXCEPT !.conns[h].st = "closed", !.conns[h].out = FALSE],
                          "SESSION_CLOSE", h)
        ELSE set_deadline(poll_drain_events([k EXCEPT !.conns[h].out = TRUE], h), h)

\* expire_timers: `due' deadlines of connections, of which `dead' time out, then
\* the deferred closes that are due.
expire_timers(k, due, dead, closes) ==
    LET k1 == [k EXCEPT !.timers = @ \ due, !.last_expired = due]
        k2 == FoldSet(LAMBDA h, acc : ExpireOne(acc, h, h \in dead), k1, due)
    IN  [k2 EXCEPT !.closes = @ \ closes,
                   !.conns = [h \in Slots |-> IF h \in closes THEN Close(@[h]) ELSE @[h]]]

\* flush_all_sends until it has no more: every packet goes out, a CONNECTION_CLOSE
\* leaves its connection draining, and all deadlines are set again.
flush_all_sends(k) ==
    LET sent(c) == [c EXCEPT !.out = FALSE, !.st = IF @ = "closing" THEN "draining" ELSE @]
        k1 == [k EXCEPT !.conns = [h \in Slots |-> sent(@[h])], !.tx = 0]
    IN  FoldSet(LAMBDA h, acc : set_deadline(acc, h), k1, Live(k))

\* collect_drain_events passes over the connections that just expired.
collect_drain_events(k) ==
    FoldSet(LAMBDA h, acc : IF acc.conns[h].blocked THEN poll_drain_events(acc, h) ELSE acc,
            k, Live(k) \ k.last_expired)

\* collect_app_events: nothing new since the packet was processed, but for the
\* drain events that poll_h3_events and poll_quic_events end with.
collect_app_events(k) == FoldSet(LAMBDA h, acc : poll_drain_events(acc, h), k, Live(k))

\* One pending response of flush_all_pending_writes: first the HEADERS, then as
\* much of the body as quiche takes.
flush_one_h3_pending_response(k, h) ==
    LET c == k.conns[h]
        r == k.pending_responses[h]
        withHdr == [c EXCEPT !.hdr = TRUE, !.cap = @ - (IF c.hdr THEN 0 ELSE 1), !.out = TRUE]
        out == SendBody(withHdr, r.bytes, r.fin)
        gone == [k EXCEPT !.pending_responses[h] = Nothing]
    IN  IF ~r.some THEN k
        ELSE IF c.strm = "shut" THEN gone
        ELSE IF c.strm # "open" THEN Emit([gone EXCEPT !.conns[h].strm = "shut"], "ERROR", h)
        ELSE IF ~c.hdr /\ c.cap = 0 THEN k
        ELSE IF r.bytes = 0 /\ ~r.fin THEN Emit([gone EXCEPT !.conns[h] = withHdr], "DRAIN", h)
        ELSE IF out.rest
             THEN [k EXCEPT !.conns[h] = out.c,
                            !.pending_responses[h] = PendingWrite(r.bytes - out.written, r.fin)]
        ELSE Emit([gone EXCEPT !.conns[h] = out.c], "DRAIN", h)

\* Mutant: a held write that goes out is not told.
flush_one_pending_write_Mute(k, h) ==
    LET w == k.pending_writes[h]
        out == SendBody(k.conns[h], w.bytes, w.fin)
    IN  IF ~w.some THEN k
        ELSE IF ~out.ok THEN [k EXCEPT !.pending_writes[h] = Nothing]
        ELSE [k EXCEPT !.conns[h] = out.c,
                       !.pending_writes[h] = IF out.rest THEN PendingWrite(w.bytes - out.written, w.fin)
                                             ELSE Nothing]

\* flush_pending_writes, flush_quic_pending_writes: a stream quiche refuses is
\* dropped without an event.
flush_one_pending_write(k, h) ==
    LET w == k.pending_writes[h]
        out == SendBody(k.conns[h], w.bytes, w.fin)
    IN  IF ~w.some THEN k
        ELSE IF ~out.ok THEN [k EXCEPT !.pending_writes[h] = Nothing]
        ELSE IF out.rest
             THEN [k EXCEPT !.conns[h] = out.c,
                            !.pending_writes[h] = PendingWrite(w.bytes - out.written, w.fin)]
        ELSE Emit([k EXCEPT !.conns[h] = out.c, !.pending_writes[h] = Nothing], "DRAIN", h)

flush_all_pending_writes(k) ==
    FoldSet(LAMBDA h, acc : flush_one_pending_write(flush_one_h3_pending_response(acc, h), h),
            k, Live(k))

\* One closed connection in reap_closed_connections: a RESET for a stream with
\* data left, and SESSION_CLOSE unless the timer already told.
ReapOne(k, h) ==
    LET k1 == IF Pending(k, h) THEN Emit(k, "RESET", h) ELSE k
        k2 == IF h \in k.last_expired THEN k1 ELSE Emit(k1, "SESSION_CLOSE", h)
    IN  [k2 EXCEPT !.timers = @ \ {h}, !.closes = @ \ {h}, !.conns[h] = None,
                   !.pending_writes[h] = Nothing, !.pending_responses[h] = Nothing]

reap_closed_connections(k) ==
    LET closed == {h \in Live(k) : k.conns[h].st = "closed"}
    IN  [FoldSet(LAMBDA h, acc : ReapOne(acc, h), k, closed) EXCEPT !.last_expired = {}]

\* send_response_headers: blocked HEADERS become a pending response.
send_response_headers(k, h) ==
    LET c == k.conns[h]
    IN  IF c.st = "none" THEN k
        ELSE IF c.strm # "open" \/ c.hdr
             THEN Emit([k EXCEPT !.conns[h].strm = "shut", !.conns[h].blocked = FALSE], "ERROR", h)
        ELSE IF c.cap = 0
             THEN Emit([k EXCEPT !.pending_responses[h] = PendingWrite(0, FALSE)],
                       "STREAM_BLOCKED", h)
        ELSE [k EXCEPT !.conns[h].hdr = TRUE, !.conns[h].cap = @ - 1, !.conns[h].out = TRUE]

\* quiche takes what it can of a chunk and the rest is held.
TakeOrHold(k, h, n, fin) ==
    LET out == SendBody(k.conns[h], n, fin)
        held == [k EXCEPT !.conns[h] = out.c,
                          !.pending_writes[h] = PendingWrite(n - out.written, fin)]
    IN  [k |-> IF out.rest THEN Emit(held, "STREAM_BLOCKED", h) ELSE [k EXCEPT !.conns[h] = out.c],
         units |-> accepted_outbound_payload_units(n, fin, out.written, fin /\ ~out.rest)]

\* queue_stream_send of the HTTP/3 handler: behind held HEADERS or data the chunk
\* only queues; a stream that quiche refuses is reported and reset.
queue_stream_send(k, h, n, fin) ==
    LET c == k.conns[h]
        r == k.pending_responses[h]
        w == k.pending_writes[h]
        failed == [k EXCEPT !.conns[h].strm = "shut", !.conns[h].blocked = FALSE]
    IN  IF r.some THEN [k |-> [k EXCEPT !.pending_responses[h] = push_chunk(r, n, fin)], units |-> 0]
        ELSE IF w.some THEN [k |-> [k EXCEPT !.pending_writes[h] = push_chunk(w, n, fin)], units |-> 0]
        ELSE IF c.st = "none" THEN [k |-> k, units |-> 0]
        ELSE IF ~SendBody(c, n, fin).ok \/ ~c.hdr
             THEN [k |-> Emit(failed, "ERROR", h), units |-> outbound_payload_units(n, fin)]
        ELSE TakeOrHold(k, h, n, fin)

\* queue_stream_send of the raw QUIC handler: no responses, and no reset.
quic_queue_stream_send(k, h, n, fin) ==
    LET c == k.conns[h]
        w == k.pending_writes[h]
    IN  IF w.some THEN [k |-> [k EXCEPT !.pending_writes[h] = push_chunk(w, n, fin)], units |-> 0]
        ELSE IF c.st = "none" THEN [k |-> k, units |-> 0]
        ELSE IF ~SendBody(c, n, fin).ok
             THEN [k |-> Emit(k, "ERROR", h), units |-> outbound_payload_units(n, fin)]
        ELSE TakeOrHold(k, h, n, fin)

\* classify_send_outcome, a negative code as 0 (streamSend of the event loop).
classify_send_outcome(n, fin, failed, released, retained) ==
    LET requested == IF n = 0 /\ fin THEN 1 ELSE n
    IN  IF ~failed /\ (retained \/ released = requested) THEN requested ELSE 0

\* What a send returns, from the events it added and the data it left held.
Outcome(k, h, n, fin, out) ==
    LET failed == \E i \in DOMAIN out.k.events :
                     i > Len(k.events) /\ out.k.events[i].type = "ERROR"
    IN  [k |-> out.k,
         written |-> classify_send_outcome(n, fin, failed, out.units, Pending(out.k, h))]

hs_stream_send(k, h, n, fin) == Outcome(k, h, n, fin, queue_stream_send(k, h, n, fin))
qs_stream_send(k, h, n, fin) == Outcome(k, h, n, fin, quic_queue_stream_send(k, h, n, fin))
stream_send(k, h, n, fin) ==
    IF H3 THEN hs_stream_send(k, h, n, fin) ELSE qs_stream_send(k, h, n, fin)

\* close_stream of both handlers: RESET only if data was dropped.
Shut(k, h) ==
    [k EXCEPT !.conns[h].strm = "shut", !.conns[h].blocked = FALSE, !.conns[h].out = TRUE,
              !.pending_writes[h] = Nothing, !.pending_responses[h] = Nothing]

close_stream(k, h) ==
    LET dropped == queued_units(k.pending_writes[h]) + queued_units(k.pending_responses[h])
    IN  IF k.conns[h].st = "none" THEN k
        ELSE IF dropped > 0 THEN Emit(Shut(k, h), "RESET", h) ELSE Shut(k, h)

quic_close_stream(k, h) ==
    IF k.conns[h].st = "none" THEN k
    ELSE IF queued_units(k.pending_writes[h]) > 0 THEN Emit(Shut(k, h), "RESET", h)
    ELSE Shut(k, h)

stream_close(k, h) == IF H3 THEN close_stream(k, h) ELSE quic_close_stream(k, h)

\* close_connection: HTTP/3 sends GOAWAY and defers the close by 25 ms, unless h3 is
\* not there yet; raw QUIC closes at once.
hs_close_connection(k, h) ==
    IF k.conns[h].st = "none" THEN k
    ELSE IF k.conns[h].h3
         THEN [k EXCEPT !.closes = @ \cup {h}, !.conns[h].out = @ \/ k.conns[h].st = "up"]
    ELSE [k EXCEPT !.conns[h] = Close(@)]

qs_close_connection(k, h) == [k EXCEPT !.conns[h] = Close(@)]

close_connection(k, h) == IF H3 THEN hs_close_connection(k, h) ELSE qs_close_connection(k, h)

-----------------------------------------------------------------------------
(* The event loop in JavaScript. *)

\* Mutant: the timer is not set again.
Settled_NoRearm(k, before, l, checks) ==
    \E last \in {flush_all_sends([k EXCEPT !.events = <<>>])} :
        /\ core' = last
        /\ inbox' = before \o k.events
        /\ loop' = [l EXCEPT !.st = IF checks /\ (is_done(last) \/ l.ticks = 0) THEN "freeing" ELSE @]

\* What remains of pump when hs_drain_events left the core as k with a batch:
\* the batch goes to a microtask behind `before', and what the core just released
\* is sent.  The loop becomes l; after a tick (`checks') it may find itself done.
Settled(k, before, l, checks) ==
    \E last \in {flush_all_sends([k EXCEPT !.events = <<>>])} :
        /\ core' = last
        /\ inbox' = before \o k.events
        /\ loop' = [l EXCEPT !.timer = timeout_ms(last),
                             !.st = IF checks /\ (is_done(last) \/ l.ticks = 0) THEN "freeing" ELSE @]

\* hs_drain_events, qs_drain_events: the core settles before the batch is taken.
drain_events(k, before, l, checks) ==
    \E polled \in {collect_app_events(k)} :
    \E drained \in {collect_drain_events(polled)} :
    \E flushed \in {flush_all_pending_writes(drained)} :
    \E reaped \in {reap_closed_connections(flushed)} :
        Settled(reaped, before, l, checks)

\* pump after a call that left the core as k: send, take the events, send again and
\* set the timer.  Without a handle neither the call nor pump does anything.
pump(k, before, l, checks) ==
    IF ~core.live THEN UNCHANGED <<core, loop>> /\ inbox' = before
    ELSE \E called \in {k} : \E sent \in {flush_all_sends(called)} :
            drain_events(sent, before, l, checks)

Call(k) == pump(k, inbox, loop, FALSE)
CallFromHead(k) == pump(k, Tail(inbox), loop, FALSE)   \* from the event it dispatches

\* Datagrams, the timer and ticks are tasks: the microtasks before them are done.
Task == inbox = <<>> /\ loop.st \in {"open", "closing"}

\* listen: the transport is awaited; then, if the server was closed meanwhile (its
\* generation changed), the loop is closed again as soon as it is bound.
Listen ==
    /\ loop.st = "idle"
    /\ loop' = [loop EXCEPT !.st = "binding"]
    /\ UNCHANGED <<setup, core, inbox, app, net>>

Bound ==
    /\ loop.st = "binding"
    /\ \/ /\ loop' = [loop EXCEPT !.st = IF loop.abort THEN "freeing" ELSE "open", !.transport = TRUE]
          /\ core' = IF H3 THEN hs_new(FALSE) ELSE qs_new(FALSE)
       \/ /\ "badConfig" \in setup.faults   \* no handle: the transport is closed
          /\ loop' = [loop EXCEPT !.st = "closed"]
          /\ core' = IF H3 THEN hs_new(TRUE) ELSE qs_new(TRUE)
    /\ UNCHANGED <<setup, inbox, app, net>>

\* process_inbound_packet without a route: an Initial opens a connection if there is
\* no Retry, or if it brings back the token of one; otherwise it is answered by it.
Opens(c, p) ==
    \/ p \in {"initial", "junk"} /\ ~setup.retry
    \/ p = "token" /\ c \in net.tokens
Retries(c, p) == p = "initial" /\ setup.retry /\ c \notin net.tokens

\* onDatagram: a packet of client c; h is its slot, or the one a new connection gets.
Datagram(c, p, h) ==
    LET routed == {g \in Live(core) : core.conns[g].of = c}
        first == IF p = "junk" THEN p ELSE "initial"
    IN  /\ Task /\ net.packets > 0 /\ c \in setup.clients /\ p \in setup.kinds /\ h \in Slots
        /\ \/ /\ h \in routed
              /\ Call(ReceiveOn(core, h, p))
              /\ net' = [net EXCEPT !.packets = @ - 1]
           \/ /\ routed = {} /\ Opens(c, p) /\ h \notin Live(core)
              /\ Call(ReceiveOn(accept_new(core, h, c, net.ids + 1), h, first))
              /\ net' = [net EXCEPT !.packets = @ - 1, !.ids = @ + 1, !.tokens = @ \ {c}]
           \/ /\ routed = {} /\ Retries(c, p)
              /\ Call([core EXCEPT !.tx = @ + 1])
              /\ net' = [net EXCEPT !.packets = @ - 1, !.tokens = @ \cup {c}]
        /\ UNCHANGED <<setup, app>>

\* Which deadlines have passed; every closing connection whose deadline passed is
\* over, any other may (`dead') have been idle for too long.
AllDue == [due : SUBSET AllSlots, dead : SUBSET AllSlots, closes : SUBSET AllSlots]
Passed(d) == d.due \subseteq core.timers /\ d.dead \subseteq d.due /\ d.closes \subseteq core.closes
Everything == [due |-> core.timers, dead |-> {}, closes |-> core.closes]

\* onTimerFire
TimerFire(d) ==
    /\ Task /\ loop.timer /\ Passed(d)
    /\ Call(expire_timers(core, d.due, d.dead, d.closes))
    /\ UNCHANGED <<setup, app, net>>

\* Http3SecureServer.close, while the loop starts or runs.
CloseServer ==
    \/ /\ loop.st = "binding" /\ ~loop.abort /\ "close" \in setup.ops
       /\ loop' = [loop EXCEPT !.abort = TRUE]
       /\ UNCHANGED <<setup, core, inbox, app, net>>
    \/ /\ loop.st = "open" /\ "close" \in setup.ops
       /\ pump(shutdown_all_connections(core), inbox, [loop EXCEPT !.st = "closing"], TRUE)
       /\ UNCHANGED <<setup, app, net>>

\* drainUntilDone: a tick each 5 ms until the core is done, for at most 2 s.
DrainTick(d) ==
    /\ Task /\ loop.st = "closing" /\ Passed(d)
    /\ pump(expire_timers(core, d.due, d.dead, d.closes), inbox, [loop EXCEPT !.ticks = @ - 1], TRUE)
    /\ UNCHANGED <<setup, app, net>>

\* doClose ends: the timer is cancelled, the handle freed, the transport closed.
Free ==
    /\ loop.st = "freeing"
    /\ loop' = [loop EXCEPT !.st = "closed", !.timer = FALSE, !.transport = FALSE]
    /\ core' = NoCore
    /\ UNCHANGED <<setup, inbox, app, net>>

\* The rest of Http3SecureServer.close, after the microtasks: the tables are cleared.
Cleared ==
    /\ loop.st = "closed" /\ inbox = <<>>
    /\ loop' = [loop EXCEPT !.st = "done"]
    /\ app' = [h \in Slots |-> [session |-> 0, closing |-> FALSE, stream |-> NoStream]]
    /\ UNCHANGED <<setup, core, inbox, net>>

-----------------------------------------------------------------------------
(* The application's streams and the dispatch of events. *)

Open(h) == h \in Slots /\ app[h].stream.life = "open"
Set(h, s) == app' = [app EXCEPT ![h].stream = s]

\* _writeChunk, _writeFinalChunk: n units, FIN with the last; what is not taken
\* waits for DRAIN.
Attempt(k, h, s, n, fin) ==
    LET out == stream_send(k, h, n, fin)
        written == IF s.blocked \/ ~core.live THEN 0 ELSE out.written
        whole == IF n = 0 THEN written > 0 ELSE written >= n
    IN  [k |-> IF s.blocked THEN k ELSE out.k,
         s |-> [s EXCEPT !.acc = @ + (IF n = 0 THEN 0 ELSE written),
                         !.parked = IF whole THEN Nothing ELSE PendingWrite(n - written, fin)]]

Write(h) ==
    /\ Open(h) /\ app[h].stream.hdr /\ ~app[h].stream.fin /\ ~app[h].stream.parked.some
    /\ LET s == app[h].stream
           n == Min({setup.chunk, s.left})
           t == [s EXCEPT !.left = @ - n, !.fin = n = s.left]
       IN  \E out \in {Attempt(core, h, t, n, t.fin)} :
              IF s.blocked THEN Set(h, out.s) /\ UNCHANGED <<core, loop, inbox>>
              ELSE Set(h, out.s) /\ Call(out.k)
    /\ UNCHANGED <<setup, net>>

\* respond, then perhaps the whole body in the same call (respondWithBody).
Respond(h) ==
    /\ Open(h) /\ ~app[h].stream.hdr
    /\ LET s == app[h].stream
           k == send_response_headers(core, h)
       IN  \/ Set(h, [s EXCEPT !.hdr = TRUE]) /\ Call(k)
           \/ /\ "withBody" \in setup.ops
              /\ Set(h, [s EXCEPT !.hdr = TRUE, !.fin = TRUE, !.left = 0, !.acc = s.left])
              /\ Call(stream_send(k, h, s.left, TRUE).k)
    /\ UNCHANGED <<setup, net>>

\* destroy(), and a write for which the core has no memory (the error destroys the
\* stream): _closeTransport.
Destroy(h) ==
    /\ Open(h) /\ "destroy" \in setup.ops
    /\ Set(h, [app[h].stream EXCEPT !.life = "gone", !.parked = Nothing])
    /\ Call(stream_close(core, h))
    /\ UNCHANGED <<setup, net>>

\* Both sides are done: the stream leaves without a word to the core.
AutoDestroy(h) ==
    /\ Open(h) /\ app[h].stream.fin /\ ~app[h].stream.parked.some
    /\ Set(h, [app[h].stream EXCEPT !.life = "gone"])
    /\ UNCHANGED <<setup, loop, core, inbox, net>>

\* session.close()
CloseSession(h) ==
    /\ h \in Slots /\ app[h].session # 0 /\ ~app[h].closing /\ "closeSession" \in setup.ops
    /\ app' = [app EXCEPT ![h].closing = TRUE]
    /\ Call(close_connection(core, h))
    /\ UNCHANGED <<setup, net>>

\* _dispatchEvents, one event.
Dispatching(type, h) == inbox # <<>> /\ Head(inbox).type = type /\ Head(inbox).h = h
Handled == inbox' = Tail(inbox) /\ UNCHANGED <<setup, loop, core, net>>

OnNewSession(h) ==
    /\ Dispatching("NEW_SESSION", h)
    /\ app' = [app EXCEPT ![h].session = Head(inbox).id, ![h].closing = FALSE]
    /\ Handled

OnHeaders(h) ==
    /\ Dispatching("HEADERS", h) \/ Dispatching("NEW_STREAM", h)
    /\ IF Open(h) THEN UNCHANGED app
       ELSE Set(h, [NoStream EXCEPT !.id = Head(inbox).id, !.life = "open", !.left = setup.body,
                                    !.hdr = ~H3])
    /\ Handled

OnStreamBlocked(h) ==
    /\ Dispatching("STREAM_BLOCKED", h)
    /\ IF Open(h) THEN Set(h, [app[h].stream EXCEPT !.blocked = TRUE]) ELSE UNCHANGED app
    /\ Handled

OnDrain(h) ==
    /\ Dispatching("DRAIN", h)
    /\ LET s == [app[h].stream EXCEPT !.blocked = FALSE]
       IN  IF ~Open(h) \/ ~s.parked.some
           THEN /\ IF Open(h) THEN Set(h, s) ELSE UNCHANGED app
                /\ Handled
           ELSE /\ \E out \in {Attempt(core, h, s, s.parked.bytes, s.parked.fin)} :
                      Set(h, out.s) /\ CallFromHead(out.k)
                /\ UNCHANGED <<setup, net>>

\* _onReset and _onError destroy the stream and close it in the core.
OnResetOrError(h) ==
    /\ Dispatching("RESET", h) \/ Dispatching("ERROR", h)
    /\ IF Open(h)
       THEN /\ Set(h, [app[h].stream EXCEPT !.life = "gone", !.parked = Nothing])
            /\ CallFromHead(stream_close(core, h))
            /\ UNCHANGED <<setup, net>>
       ELSE UNCHANGED app /\ Handled

\* _onSessionClose: the session's streams go without a call.
OnSessionClose(h) ==
    /\ Dispatching("SESSION_CLOSE", h)
    /\ app' = [app EXCEPT ![h] = [session |-> 0, closing |-> FALSE, stream |-> NoStream]]
    /\ Handled

OnHandshakeComplete(h) ==
    /\ Dispatching("HANDSHAKE", h)
    /\ UNCHANGED app
    /\ Handled

Dispatch(h) ==
    \/ OnNewSession(h) \/ OnHandshakeComplete(h) \/ OnHeaders(h) \/ OnStreamBlocked(h)
    \/ OnDrain(h) \/ OnResetOrError(h) \/ OnSessionClose(h)

-----------------------------------------------------------------------------
AllKinds == {x : x \in UNION {s.kinds : s \in Setups}}

Next ==
    \/ Listen \/ Bound \/ CloseServer \/ Free \/ Cleared
    \/ \E c \in Clients, p \in AllKinds, h \in AllSlots : Datagram(c, p, h)
    \/ \E d \in AllDue : TimerFire(d) \/ DrainTick(d)
    \/ \E h \in AllSlots : \/ Respond(h) \/ Write(h) \/ Destroy(h) \/ AutoDestroy(h)
                           \/ CloseSession(h) \/ Dispatch(h)

SafeSpec == Init /\ [][Next]_vars

\* Microtasks run, awaited promises settle, and while the timer is armed time
\* passes, so that whatever deadline is left comes due.
Fairness ==
    /\ WF_vars(\E h \in AllSlots : Dispatch(h))
    /\ WF_vars(TimerFire(Everything))
    /\ WF_vars(DrainTick(Everything))
    /\ WF_vars(Bound \/ Free \/ Cleared)

Spec == SafeSpec /\ Fairness

-----------------------------------------------------------------------------
(* Properties. *)

Types == {"NEW_SESSION", "HANDSHAKE", "HEADERS", "NEW_STREAM", "STREAM_BLOCKED", "DRAIN", "RESET", "ERROR",
          "SESSION_CLOSE"}
Ids == 0 .. Max({s.packets : s \in Setups})

\* The type invariant.
TypeOK ==
    /\ setup \in Setups
    /\ loop.st \in {"idle", "binding", "open", "closing", "freeing", "closed", "done"}
    /\ loop.ticks \in 0 .. setup.ticks
    /\ \A h \in Slots :
          /\ core.conns[h].id \in Ids
          /\ core.conns[h].st \in {"none", "new", "hs", "up", "closing", "draining", "closed"}
          /\ core.conns[h].strm \in {"none", "open", "stopped", "reset", "shut"}
          /\ core.conns[h].cap \in Nat /\ core.conns[h].sent \in 0 .. setup.body
          /\ app[h].session \in Ids /\ app[h].stream.acc \in 0 .. setup.body
    /\ core.timers \cup core.closes \cup core.last_expired \subseteq Slots
    /\ \A i \in DOMAIN inbox : inbox[i].type \in Types /\ inbox[i].h \in Slots

Coming(types, h) == \E i \in DOMAIN inbox : inbox[i].type \in types /\ inbox[i].h = h
ComingFor(type, h, id) == Note(type, h, id) \in Range(inbox)
Running == core.live /\ loop.st \in {"open", "closing"}

\* What a stream's write reports as taken changed owner exactly once: the bytes
\* JavaScript counts as written are those quiche took and those the handler
\* still holds, and FIN goes out only after the whole body (hs_stream_send,
\* classify_send_outcome and the retry on DRAIN).
AdmittedOnce ==
    \A h \in Slots :
        LET c == core.conns[h]
            s == app[h].stream
        IN  c.strm = "open" /\ s.life = "open" /\ s.id = c.id =>
               /\ s.acc = c.sent + core.pending_writes[h].bytes + core.pending_responses[h].bytes
               /\ c.fin => c.sent = setup.body

\* Nothing is left behind when the loop goes idle: pump leaves no packet
\* unsent, no event untaken, no closed connection unreaped and no held data for
\* which there is credit, since no other call may come before the timer.
IdleMeansDrained ==
    Running =>
        /\ core.events = <<>> /\ core.tx = 0 /\ core.last_expired = {}
        /\ \A h \in Slots :
              /\ ~core.conns[h].out /\ core.conns[h].st \notin {"closing", "closed"}
              /\ Pending(core, h) => core.conns[h].cap = 0

\* The one timer of the loop is armed exactly while some connection has a
\* deadline in quiche or a close is deferred: no connection depends on a wake-up
\* that nobody will make.
TimerCovers ==
    Running => (loop.timer <=> (\/ \E h \in Slots : timeout(core.conns[h])
                                \/ core.closes # {}))

\* JavaScript and the core agree on whose slot it is, though slots are reused:
\* a connection in the core is the session JavaScript has under that handle or
\* is about to be told of, and a session without its connection is about to be
\* told so.
SlotsInStep ==
    Running =>
        \A h \in Slots :
            LET i == core.conns[h].id
                j == app[h].session
            IN  /\ i # 0 /\ i # j => ComingFor("NEW_SESSION", h, i)
                /\ j # 0 /\ j # i => ComingFor("SESSION_CLOSE", h, j)

\* A deferred close (pending_session_closes) hits the connection for which it
\* was asked, not the next one in the slot.
DeferredCloseIsOwn ==
    \A h \in core.closes :
        /\ core.conns[h].st # "none"
        /\ app[h].session = core.conns[h].id /\ app[h].closing

\* A write that waits for DRAIN is not forgotten: the core still holds data of
\* the stream or watches it as blocked, or an event that ends the wait is on its
\* way.
ParkedHasWaker ==
    Running =>
        \A h \in Slots :
            app[h].stream.life = "open" /\ app[h].stream.parked.some =>
                \/ core.conns[h].st # "none" /\ (core.conns[h].blocked \/ Pending(core, h))
                \/ Coming({"DRAIN", "RESET", "ERROR", "SESSION_CLOSE"}, h)

\* A session that the application closes comes to an end it is told of, through
\* GOAWAY, the deferred close, CONNECTION_CLOSE and the draining period; close() of
\* the server resolves, whether it is called while the loop starts or runs: this is
\* what must not last.
Waits ==
    \/ \E h \in Slots : app[h].closing
    \/ (loop.abort \/ loop.st = "closing") /\ loop.st # "done"
=============================================================================
