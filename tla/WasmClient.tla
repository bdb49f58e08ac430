----------------------------- MODULE WasmClient -----------------------------
(***************************************************************************)
(* The WASM clients: one connection behind a handle of the http3-wasm      *)
(* crate (functions h3c_... and qc_...), driven by an event loop in JS     *)
(* (h3-client-event-loop.ts, quic-client-event-loop.ts) that owns the      *)
(* socket and the only timer.                                              *)
(*                                                                         *)
(* connect() and close() are asynchronous and may overlap.  Every entry    *)
(* calls the core and ends in pump, whose events wait in `inbox' for a     *)
(* microtask; datagrams, the timer and the ticks of the closing loop are   *)
(* tasks and find `inbox' empty.                                           *)
(*                                                                         *)
(* The connection has one stream of the application, sent against `cap',   *)
(* the credit of the peer, and received against `window', the credit the   *)
(* reader gives in HTTP/3.  A deadline is known by what it is for: "live"  *)
(* (loss, idle) or "drain" (the end of a connection that is closing).      *)
(***************************************************************************)
EXTENDS PendingWrites, Integers, Sequences, FiniteSets, SequencesExt, FiniteSetsExt

CONSTANT Setups   \* the configurations a run explores

VARIABLES
    setup,   \* the one of this behaviour
    loop,    \* the event loop: connect(), close(), socket, timer, ticks left
    core,    \* the session behind the handle, and its pending_events
    inbox,   \* events of microtasks not dispatched yet
    app,     \* the session and the stream JavaScript holds
    net      \* datagrams and response units the peer may still send

vars == <<setup, loop, core, inbox, app, net>>

Note(type, n) == [type |-> type, n |-> n]
H3 == setup.proto = "h3"

\* `heard': quiche has processed a packet (recv_count).
NoSession == [live |-> FALSE, st |-> "none", told |-> FALSE, emitted |-> FALSE, deadline |-> "none", heard |-> FALSE,
              strm |-> "none", cap |-> 0, sent |-> 0, fin |-> FALSE, blocked |-> FALSE,
              rx |-> 0, rxfin |-> FALSE, window |-> 0, pw |-> Nothing, out |-> FALSE, events |-> <<>>]

NoStream == [life |-> "none", left |-> 0, fin |-> FALSE, blocked |-> FALSE, parked |-> Nothing,
             acc |-> 0, unread |-> 0, ended |-> FALSE]

Init ==
    /\ setup \in Setups
    /\ loop = [connect |-> "idle", close |-> "no", socket |-> FALSE, timer |-> "none",
               ticks |-> setup.ticks]
    /\ core = NoSession
    /\ inbox = <<>>
    /\ app = [session |-> "new", stream |-> NoStream]
    /\ net = [packets |-> setup.packets, reply |-> setup.reply]

-----------------------------------------------------------------------------
(* The handlers' direct-call methods, as operators on the session. *)

Emit(k, type, n) == [k EXCEPT !.events = Append(@, Note(type, n))]

\* h3c_new, qc_new, with enable_read_credit in HTTP/3 only; the Initial is ready.
h3c_new == [NoSession EXCEPT !.live = TRUE, !.st = "new", !.window = setup.window, !.out = TRUE]
qc_new == [NoSession EXCEPT !.live = TRUE, !.st = "new", !.out = TRUE]

\* quiche's timeout, for which a connection that is draining has its own timer.
timeout(k) ==
    CASE k.st \in {"none", "closed"} -> "none"
      [] k.st = "draining" -> "drain"
      [] OTHER -> "live"

refresh_timeout_deadline(k) == [k EXCEPT !.deadline = timeout(k)]

\* close_session: quiche's close does nothing on a connection that is closing, and
\* ends one at once that has not processed a packet.
close_session(k) ==
    CASE ~k.heard /\ k.st # "closed" -> [k EXCEPT !.st = "closed", !.out = FALSE]
      [] k.st \in {"hs", "up"} -> [k EXCEPT !.st = "closing", !.out = TRUE]
      [] OTHER -> k

h3c_close(k) == close_session(k)
qc_close(k) == close_session(k)

\* h3c_timeout_ms, qc_timeout_ms: the deadline the loop arms its timer for.
h3c_timeout_ms(k) == k.deadline
qc_timeout_ms(k) == k.deadline

\* emit_session_close, once: RESET for an abandoned write, then the close.
emit_session_close(k) ==
    LET k1 == IF k.pw.some THEN Emit([k EXCEPT !.pw = Nothing], "RESET", 0) ELSE k
    IN  IF k.emitted THEN k ELSE Emit([k1 EXCEPT !.emitted = TRUE], "SESSION_CLOSE", 0)

\* What quiche takes of n units.  An empty HTTP/3 body needs room for its frame.
SendBody(k, n, fin) ==
    LET w == Min({n, k.cap})
        rest == IF n = 0 THEN H3 /\ k.cap = 0 ELSE w < n
        frame == IF n = 0 /\ H3 /\ ~rest THEN 1 ELSE w
    IN  [ok |-> k.strm = "open" /\ ~k.fin, rest |-> rest, written |-> w,
         k |-> [k EXCEPT !.cap = @ - frame, !.sent = @ + w, !.fin = fin /\ ~rest,
                         !.blocked = @ \/ rest, !.out = TRUE]]

\* The events of the stream that can be read: as much as the window allows in
\* HTTP/3, everything in raw QUIC; the end follows the last unit.
PollReads(k) ==
    LET n == IF H3 THEN Min({k.rx, k.window}) ELSE k.rx
        k1 == IF n = 0 THEN k
              ELSE Emit([k EXCEPT !.rx = @ - n, !.window = IF H3 THEN @ - n ELSE @], "DATA", n)
    IN  IF k1.rxfin /\ k1.rx = 0 THEN Emit([k1 EXCEPT !.rxfin = FALSE], "FINISHED", 0) ELSE k1

\* The drain events of poll_h3_events, less those suppress_pending_drains removes;
\* and those of poll_quic_events.
PollDrains(k) ==
    LET free == [k EXCEPT !.blocked = FALSE]
    IN  IF H3 /\ k.strm = "stopped" THEN Emit([free EXCEPT !.strm = "reset"], "RESET", 0)
        ELSE IF ~k.blocked THEN k
        ELSE IF k.strm # "open" THEN Emit(free, "ERROR", 0)
        ELSE IF k.cap = 0 THEN k
        ELSE IF H3 /\ k.pw.some THEN free ELSE Emit(free, "DRAIN", 0)

\* poll_app_events_for_handle
poll_app_events_for_handle(k) == PollDrains(PollReads(k))

\* poll_drain_events_for_handle
poll_drain_events_for_handle(k) == IF k.blocked THEN PollDrains(k) ELSE k

\* What quiche makes of a packet that the connection accepts; "reset" is a
\* stateless reset.  A connection that is draining or closed takes nothing.
Took(k, p) ==
    CASE k.st \in {"draining", "closed"} -> k
      [] p = "hello"  -> [k EXCEPT !.st = IF @ = "new" THEN "hs" ELSE @, !.heard = TRUE, !.out = TRUE]
      [] p = "finish" -> [k EXCEPT !.st = IF @ = "hs" THEN "up" ELSE @,
                                   !.cap = IF k.st = "hs" THEN setup.initial ELSE @, !.out = TRUE]
      [] p = "data"   -> [k EXCEPT !.rx = @ + (IF k.strm = "shut" THEN 0 ELSE 1)]
      [] p = "end"    -> [k EXCEPT !.rxfin = k.strm # "shut"]
      [] p = "credit" -> [k EXCEPT !.cap = @ + 1]
      [] p = "stop"   -> [k EXCEPT !.strm = IF @ = "open" THEN "stopped" ELSE @]
      [] p = "close"  -> [k EXCEPT !.st = IF @ \in {"hs", "up", "closing"} THEN "draining" ELSE @,
                                   !.out = FALSE]
      [] p = "reset"  -> [k EXCEPT !.st = "closed", !.out = FALSE]

\* process_packet_for_handle.  A packet with an error in it ("bad") makes quiche close
\* the connection and the handler return at once.
process_packet_for_handle(k, p) ==
    LET took == Took(k, p)
        k1 == IF took.st = "up" /\ ~took.told THEN Emit([took EXCEPT !.told = TRUE], "HANDSHAKE", 0)
              ELSE took
        k2 == refresh_timeout_deadline(poll_app_events_for_handle(k1))
    IN  IF p = "bad" THEN close_session(k)
        ELSE IF k2.st = "closed" THEN emit_session_close(k2) ELSE k2

h3c_recv(k, p) == process_packet_for_handle(k, p)
qc_recv(k, p) == process_packet_for_handle(k, p)

\* process_timers_for_handle, once the deadline has passed; `dies' is the idle
\* timeout of a connection that was not draining.
process_timers_for_handle(k, dies) ==
    IF dies \/ k.deadline = "drain"
    THEN emit_session_close([k EXCEPT !.st = "closed", !.out = FALSE])
    ELSE refresh_timeout_deadline(poll_app_events_for_handle([k EXCEPT !.out = TRUE]))

h3c_on_timeout(k, dies) == process_timers_for_handle(k, dies)
qc_on_timeout(k, dies) == process_timers_for_handle(k, dies)
on_timeout(k, dies) == IF H3 THEN h3c_on_timeout(k, dies) ELSE qc_on_timeout(k, dies)

\* try_send_next until it has nothing more: CONNECTION_CLOSE leaves the connection
\* draining, and the deadline is computed again.
try_send_next(k) ==
    refresh_timeout_deadline(
        [k EXCEPT !.out = FALSE, !.st = IF @ = "closing" THEN "draining" ELSE @])

h3c_next_send(k) == try_send_next(k)
qc_next_send(k) == try_send_next(k)
flushSends(k) == IF H3 THEN h3c_next_send(k) ELSE qc_next_send(k)

\* flush_pending_writes_for_handle: a stream that quiche refuses is dropped without
\* an event.
flush_pending_writes_for_handle(k) ==
    LET out == SendBody(k, k.pw.bytes, k.pw.fin)
    IN  IF ~k.pw.some THEN k
        ELSE IF ~out.ok THEN [k EXCEPT !.pw = Nothing]
        ELSE IF out.rest THEN [out.k EXCEPT !.pw = PendingWrite(@.bytes - out.written, @.fin)]
        ELSE Emit([out.k EXCEPT !.pw = Nothing], "DRAIN", 0)

\* queue_stream_send and the outcome classify_send_outcome makes of it: behind held
\* data the chunk only queues, what quiche does not take is held, and all of either
\* has changed owner; a refused chunk is reported by ERROR and counts as 0.
queue_stream_send(k, n, fin) ==
    LET out == SendBody(k, n, fin)
        all == IF n = 0 /\ fin THEN 1 ELSE n
        held == [out.k EXCEPT !.pw = PendingWrite(n - out.written, fin)]
    IN  IF k.pw.some THEN [k |-> [k EXCEPT !.pw = push_chunk(@, n, fin)], written |-> all]
        ELSE IF ~out.ok THEN [k |-> Emit(k, "ERROR", 0), written |-> 0]
        ELSE [k |-> IF out.rest THEN Emit(held, "STREAM_BLOCKED", 0) ELSE out.k, written |-> all]

h3c_stream_send(k, n, fin) == queue_stream_send(k, n, fin)
qc_stream_send(k, n, fin) == queue_stream_send(k, n, fin)
stream_send(k, n, fin) == IF H3 THEN h3c_stream_send(k, n, fin) ELSE qc_stream_send(k, n, fin)

\* h3c_send_request: HEADERS go out at once; qc_open_stream only reserves the id.
h3c_send_request(k) ==
    IF k.st = "up" THEN [k EXCEPT !.strm = "open", !.out = TRUE] ELSE k
qc_open_stream(k) == [k EXCEPT !.strm = "open"]

\* add_read_credit
h3c_stream_read_credit(k, n) == [k EXCEPT !.window = @ + n]

\* close_stream of both handlers; quiche drops what it had to read.
close_stream(k) ==
    [k EXCEPT !.strm = IF @ = "none" THEN @ ELSE "shut", !.blocked = FALSE, !.pw = Nothing,
              !.rx = 0, !.rxfin = FALSE, !.out = TRUE]
h3c_stream_close(k) == close_stream(k)
qc_stream_close(k) == close_stream(k)

\* is_reapable of the two handlers.
h3c_is_done(k) == ~k.live \/ k.emitted
qc_is_done(k) == ~k.live \/ (k.emitted /\ ~k.pw.some)
is_done(k) == IF H3 THEN h3c_is_done(k) ELSE qc_is_done(k)

-----------------------------------------------------------------------------
(* The event loop in JavaScript. *)

\* h3c_drain_events, qc_drain_events: the core settles before the batch is taken.
drain_events(k) ==
    flush_pending_writes_for_handle(poll_drain_events_for_handle(poll_app_events_for_handle(k)))
h3c_drain_events(k) == drain_events(k)
qc_drain_events(k) == drain_events(k)

\* pump after a call that left the core as k, events going behind `before': send,
\* take the events, send again, set the timer.  Nothing happens without a handle.
\* The loop becomes l; after close() or a tick (`checks') it may find itself done.
pump(k, before, l, checks) ==
    IF ~k.live THEN core' = k /\ loop' = l /\ inbox' = before
    ELSE \E sent \in {flushSends(k)} :
         \E drained \in {IF H3 THEN h3c_drain_events(sent) ELSE qc_drain_events(sent)} :
         \E last \in {flushSends([drained EXCEPT !.events = <<>>])} :
            /\ core' = last
            /\ inbox' = before \o drained.events
            /\ loop' = [l EXCEPT !.timer = IF H3 THEN h3c_timeout_ms(last) ELSE qc_timeout_ms(last),
                                 !.close = IF checks /\ (is_done(last) \/ l.ticks = 0) THEN "freeing" ELSE @]

\* A call of the application, which does nothing without a handle.
Call(k) == pump(IF core.live THEN k ELSE core, inbox, loop, FALSE)

Task == inbox = <<>> /\ core.live

\* connect: the socket is made and connected; startupAbort ends the wait.
Connect ==
    /\ loop.connect = "idle"
    /\ loop' = [loop EXCEPT !.connect = "binding", !.socket = TRUE]
    /\ UNCHANGED <<setup, core, inbox, app, net>>

\* socket.connect calls back, or reports an error and client.ts closes the loop.
SocketConnected ==
    /\ loop.connect = "binding"
    /\ \/ loop' = [loop EXCEPT !.connect = "bound"]
       \/ /\ "socket" \in setup.faults
          /\ loop' = [loop EXCEPT !.connect = "failed", !.close = "closed", !.socket = FALSE]
    /\ UNCHANGED <<setup, core, inbox, app, net>>

\* Mutant: a close during the await is not seen.
Resume_IgnoresClose ==
    /\ loop.connect = "bound"
    /\ pump(IF H3 THEN h3c_new ELSE qc_new, inbox, [loop EXCEPT !.connect = "ok"], FALSE)
    /\ UNCHANGED <<setup, app, net>>

\* connect after the await.  After a close() the new socket is closed again; without
\* a handle (a bad configuration) the catch closes the loop, which has no more to do.
Resume ==
    /\ loop.connect = "bound"
    /\ \/ /\ loop.close # "no"
          /\ loop' = [loop EXCEPT !.connect = "ok", !.socket = FALSE]
          /\ UNCHANGED <<core, inbox>>
       \/ /\ loop.close = "no"
          /\ pump(IF H3 THEN h3c_new ELSE qc_new, inbox, [loop EXCEPT !.connect = "ok"], FALSE)
       \/ /\ loop.close = "no" /\ "config" \in setup.faults
          /\ loop' = [loop EXCEPT !.connect = "failed", !.close = "closed", !.socket = FALSE]
          /\ UNCHANGED <<core, inbox>>
    /\ UNCHANGED <<setup, app, net>>

\* close() and doClose up to its first await, the core being k and the inbox `before'.
\* The second call only waits for the first.  Before the handle exists there is
\* nothing to drain, and the abort closes a socket that is still connecting.
doClose(k, before) ==
    CASE loop.close # "no" -> pump(k, before, loop, FALSE)
      [] loop.connect = "binding" ->
             /\ loop' = [loop EXCEPT !.close = "closed", !.connect = "failed", !.socket = FALSE]
             /\ inbox' = before /\ UNCHANGED core
      [] ~core.live -> loop' = [loop EXCEPT !.close = "closed"] /\ inbox' = before /\ UNCHANGED core
      [] OTHER -> pump(IF H3 THEN h3c_close(k) ELSE qc_close(k), before, [loop EXCEPT !.close = "closing"], TRUE)

Close ==
    /\ loop.connect # "idle" /\ loop.close = "no" /\ "close" \in setup.ops
    /\ doClose(core, inbox)
    /\ UNCHANGED <<setup, app, net>>

\* drainUntilDone: a tick each 5 ms until the session is done, for at most 2 s; the
\* deadline may have passed (`due').
DrainTick(due, dies) ==
    /\ Task /\ loop.close = "closing"
    /\ due => core.deadline # "none"
    /\ dies => due /\ core.deadline = "live"
    /\ pump(IF due THEN on_timeout(core, dies) ELSE core, inbox, [loop EXCEPT !.ticks = @ - 1], TRUE)
    /\ UNCHANGED <<setup, app, net>>

\* The rest of doClose: h3c_free or qc_free, and the socket is closed.
Free ==
    /\ loop.close = "freeing"
    /\ loop' = [loop EXCEPT !.close = "closed", !.timer = "none", !.socket = FALSE]
    /\ core' = NoSession
    /\ UNCHANGED <<setup, inbox, app, net>>

\* What the peer sends makes sense for the connection: no data without a request.
Sendable(p) ==
    CASE p \in {"data", "end"} -> /\ core.strm # "none" /\ ~app.stream.ended
                                  /\ (p = "data") = (net.reply > 0) /\ net.reply >= 0
      [] p \in {"credit", "stop"} -> core.strm # "none"
      [] p = "hello" -> core.st = "new"
      [] p = "finish" -> core.st = "hs"
      [] p \in {"close", "reset"} -> core.heard
      [] OTHER -> TRUE

\* onDatagram
Datagram(p) ==
    /\ Task /\ net.packets > 0 /\ p \in setup.kinds /\ Sendable(p)
    /\ Call(IF H3 THEN h3c_recv(core, p) ELSE qc_recv(core, p))
    /\ net' = [packets |-> net.packets - 1,
               reply |-> IF p \in {"data", "end"} THEN net.reply - 1 ELSE net.reply]
    /\ UNCHANGED <<setup, app>>

\* onTimerFire, when the deadline for which the timer was armed has passed.
TimerFire(dies) ==
    /\ Task /\ loop.timer # "none"
    /\ dies => core.deadline = "live"
    /\ Call(IF loop.timer = core.deadline THEN on_timeout(core, dies) ELSE core)
    /\ UNCHANGED <<setup, app, net>>

-----------------------------------------------------------------------------
(* The application's stream and the dispatch of events. *)

IsOpen == app.stream.life = "open"
Set(s) == app' = [app EXCEPT !.stream = s]

\* session.request(), openStream(): refused if the connection is not there any more.
Request ==
    /\ app.session = "ready" /\ app.stream.life = "none" /\ core.strm = "none"
    /\ LET k == IF H3 THEN h3c_send_request(core) ELSE qc_open_stream(core)
       IN  /\ Call(k)
           /\ IF core.live /\ k.strm = "open"
              THEN Set([NoStream EXCEPT !.life = "open", !.left = setup.body])
              ELSE app' = [app EXCEPT !.stream.life = "gone"]
    /\ UNCHANGED <<setup, net>>

\* _writeChunk, _writeFinalChunk: n units, FIN with the last; what is not taken
\* waits for DRAIN.
Attempt(s, n, fin) ==
    LET out == stream_send(core, n, fin)
        written == IF s.blocked \/ ~core.live THEN 0 ELSE out.written
        whole == IF n = 0 THEN written > 0 ELSE written >= n
    IN  [k |-> IF s.blocked THEN core ELSE out.k,
         s |-> [s EXCEPT !.acc = @ + (IF n = 0 THEN 0 ELSE written),
                         !.parked = IF whole THEN Nothing ELSE PendingWrite(n - written, fin)]]

Write ==
    /\ IsOpen /\ ~app.stream.fin /\ ~app.stream.parked.some
    /\ LET s == app.stream
           n == Min({setup.chunk, s.left})
           t == [s EXCEPT !.left = @ - n, !.fin = n = s.left]
       IN  \E out \in {Attempt(t, n, t.fin)} :
              IF s.blocked THEN Set(out.s) /\ UNCHANGED <<core, loop, inbox>>
              ELSE Set(out.s) /\ Call(out.k)
    /\ UNCHANGED <<setup, net>>

\* The consumer reads, and _returnReadCredit gives the credit back.
Read ==
    /\ IsOpen /\ app.stream.unread > 0
    /\ Set([app.stream EXCEPT !.unread = 0])
    /\ IF H3 THEN Call(h3c_stream_read_credit(core, app.stream.unread))
       ELSE UNCHANGED <<core, loop, inbox>>
    /\ UNCHANGED <<setup, net>>

\* readableEnded and writableFinished: the stream leaves without a word to the core.
AllRead == app.stream.fin /\ ~app.stream.parked.some /\ app.stream.ended /\ app.stream.unread = 0
Gone == [app.stream EXCEPT !.life = "gone", !.parked = Nothing, !.unread = 0]
Closed(k) == IF IsOpen /\ ~AllRead THEN (IF H3 THEN h3c_stream_close(k) ELSE qc_stream_close(k)) ELSE k

AutoDestroy ==
    /\ IsOpen /\ AllRead
    /\ Set(Gone)
    /\ UNCHANGED <<setup, loop, core, inbox, net>>

Destroy ==
    /\ IsOpen /\ ~AllRead /\ "destroy" \in setup.ops
    /\ Set(Gone) /\ Call(Closed(core))
    /\ UNCHANGED <<setup, net>>

Dispatching(types) == inbox # <<>> /\ Head(inbox).type \in types
Handled == inbox' = Tail(inbox) /\ UNCHANGED <<setup, loop, core, net>>
CallFromHead(k) == pump(IF core.live THEN k ELSE core, Tail(inbox), loop, FALSE) /\ UNCHANGED <<setup, net>>

OnHandshakeComplete ==
    /\ Dispatching({"HANDSHAKE"})
    /\ app' = [app EXCEPT !.session = IF @ = "new" THEN "ready" ELSE @]
    /\ Handled

OnData ==
    /\ Dispatching({"DATA", "FINISHED"})
    /\ IF IsOpen THEN Set([app.stream EXCEPT !.unread = @ + Head(inbox).n,
                                             !.ended = Head(inbox).type = "FINISHED"])
       ELSE UNCHANGED app
    /\ Handled

OnStreamBlocked ==
    /\ Dispatching({"STREAM_BLOCKED"})
    /\ IF IsOpen THEN Set([app.stream EXCEPT !.blocked = TRUE]) ELSE UNCHANGED app
    /\ Handled

OnDrain ==
    /\ Dispatching({"DRAIN"})
    /\ LET s == [app.stream EXCEPT !.blocked = FALSE]
       IN  IF ~IsOpen \/ ~s.parked.some
           THEN /\ IF IsOpen THEN Set(s) ELSE UNCHANGED app
                /\ Handled
           ELSE \E out \in {Attempt(s, s.parked.bytes, s.parked.fin)} :
                   Set(out.s) /\ CallFromHead(out.k)

\* _onReset and _onError destroy the stream.
OnResetOrError ==
    /\ Dispatching({"RESET", "ERROR"})
    /\ IF IsOpen THEN Set(Gone) /\ CallFromHead(Closed(core)) ELSE UNCHANGED app /\ Handled

\* SESSION_CLOSE: the streams go, then the loop (_cleanupEventLoopAfterNativeClose).
OnSessionClose ==
    /\ Dispatching({"SESSION_CLOSE"})
    /\ app' = [session |-> "closed", stream |-> IF IsOpen THEN Gone ELSE app.stream]
    /\ doClose(IF core.live THEN Closed(core) ELSE core, Tail(inbox))
    /\ UNCHANGED <<setup, net>>

Dispatch ==
    \/ OnHandshakeComplete \/ OnData \/ OnStreamBlocked \/ OnDrain \/ OnResetOrError \/ OnSessionClose

-----------------------------------------------------------------------------
AllKinds == {x : x \in UNION {s.kinds : s \in Setups}}

Next ==
    \/ Connect \/ SocketConnected \/ Resume \/ Close \/ Free
    \/ \E p \in AllKinds : Datagram(p)
    \/ \E dies \in BOOLEAN : TimerFire(dies) \/ \E due \in BOOLEAN : DrainTick(due, dies)
    \/ Request \/ Write \/ Read \/ AutoDestroy \/ Destroy \/ Dispatch

SafeSpec == Init /\ [][Next]_vars

\* Microtasks run, the awaited socket answers, timers that are armed fire, and the
\* ticks of drainUntilDone follow each other.
Fairness ==
    /\ WF_vars(Dispatch)
    /\ WF_vars(SocketConnected \/ Resume \/ Free)
    /\ WF_vars(TimerFire(FALSE))
    /\ WF_vars(DrainTick(FALSE, FALSE))

Spec == SafeSpec /\ Fairness

-----------------------------------------------------------------------------
(* Properties. *)

Types == {"HANDSHAKE", "DATA", "FINISHED", "STREAM_BLOCKED", "DRAIN", "RESET", "ERROR", "SESSION_CLOSE"}

\* The type invariant.
TypeOK ==
    /\ setup \in Setups
    /\ loop.connect \in {"idle", "binding", "bound", "ok", "failed"}
    /\ loop.close \in {"no", "closing", "freeing", "closed"}
    /\ loop.socket \in BOOLEAN /\ loop.timer \in {"none", "live", "drain"}
    /\ loop.ticks \in 0 .. setup.ticks
    /\ core.st \in {"none", "new", "hs", "up", "closing", "draining", "closed"}
    /\ core.strm \in {"none", "open", "stopped", "reset", "shut"}
    /\ core.sent \in 0 .. setup.body /\ core.cap \in Nat /\ core.rx \in 0 .. setup.reply
    /\ app.session \in {"new", "ready", "closed"} /\ app.stream.acc \in 0 .. setup.body
    /\ \A i \in DOMAIN inbox : inbox[i].type \in Types

Coming(types) == \E i \in DOMAIN inbox : inbox[i].type \in types

\* connect() and close() may overlap in any order, and still nothing is left once
\* both have settled: no socket, no session in the core's table, no timer.
NothingLeft ==
    loop.close = "closed" /\ loop.connect \in {"ok", "failed"} =>
        ~loop.socket /\ ~core.live /\ loop.timer = "none"

\* When the loop goes idle no packet is unsent, no event untaken, nothing the reader
\* has credit for is unread, nothing is held for which there is credit, and a
\* connection that ended by itself has been reported: no other call may come.  (Not
\* one that an error in its very first packet ended: quiche is closed at once, the
\* handler has returned, and neither is_closed nor a timer is looked at again.)
IdleMeansDrained ==
    core.live =>
        /\ ~core.out /\ core.events = <<>> /\ core.st # "closing"
        /\ core.pw.some => core.cap = 0
        /\ core.rx > 0 => H3 /\ core.window = 0
        /\ core.st = "closed" /\ core.heard => core.emitted

\* The timer of the loop waits for the deadline the connection has now: after
\* CONNECTION_CLOSE that is the end of draining, not the idle timeout it had before
\* (the comment in try_send_next).
TimerIsCurrent == core.live => loop.timer = timeout(core)

\* What a write reports as taken changed owner exactly once: quiche took it or the
\* handler holds it; and FIN goes out only after the whole body.
AdmittedOnce ==
    core.strm = "open" /\ IsOpen =>
        /\ ~core.emitted => app.stream.acc = core.sent + core.pw.bytes
        /\ core.fin => core.sent = setup.body

SumData == FoldSeq(LAMBDA e, acc : acc + e.n, 0, SelectSeq(inbox, LAMBDA e : e.type = "DATA"))

\* The read window is conserved: credit in the core, data on its way to the stream
\* and data the consumer has not read add up to the window, so that neither is the
\* reader overrun nor a response stuck for credit that got lost.
CreditConserved ==
    core.live /\ H3 /\ IsOpen => core.window + SumData + app.stream.unread = setup.window

\* A write that waits for DRAIN is not forgotten while the loop runs.
ParkedHasWaker ==
    core.live /\ IsOpen /\ app.stream.parked.some =>
        \/ ~core.emitted /\ (core.blocked \/ core.pw.some)
        \/ Coming({"DRAIN", "RESET", "ERROR", "SESSION_CLOSE"})

\* close() resolves, whenever it is called, and connect() settles; a connection that
\* the peer closes, or that closes by itself, ends the session, which is told, and
\* the loop frees the handle and the socket: this is what must not last.
Waits ==
    \/ loop.close # "no" /\ (loop.close # "closed" \/ loop.connect \notin {"ok", "failed"})
    \/ /\ core.heard /\ core.st \in {"draining", "closed"}
       /\ loop.close # "closed" \/ core.live
=============================================================================
