------------------------------ MODULE H3Client ------------------------------
(***************************************************************************)
(* An HTTP/3 client session end to end: Http3ClientSession and             *)
(* ClientHttp3Stream in JavaScript (client.ts, stream.ts,                  *)
(* stream-backpressure.ts), ClientWorkerHandle, and the H3ClientHandler of *)
(* a worker of its own in run_event_loop.                                  *)
(*                                                                         *)
(* JavaScript opens requests, writes their bodies through the admission    *)
(* window and reads the responses: what it has consumed goes back to the   *)
(* worker as read credit, and the worker reads no more of a body than the  *)
(* credit allows.  One iteration of the loop is the phases commands, rx,   *)
(* timers, poll, flush and deliver.                                        *)
(***************************************************************************)
EXTENDS H3Connection, QuicStreams

CONSTANT Setups
(***************************************************************************)
(* streams   request streams the client may open, 0, 4, ...                *)
(* chunks, finals, body    sizes of write() and end(), bytes per stream    *)
(* credit    units of send capacity of a new stream; `grants' still to come*)
(* script    the frames of a response                                      *)
(* window    read window and size of a read; hwm: highWaterMark of a stream*)
(* budgets   app_event_budget values                                       *)
(* tick      MAX_COMMANDS_PER_TICK                                         *)
(* ops       which of the optional operations and faults occur             *)
(***************************************************************************)

Sizes == {x : x \in UNION {u.chunks \cup u.finals : u \in Setups}}
Budgets == {x : x \in UNION {u.budgets : u \in Setups}}
AllStreams == {x : x \in UNION {u.streams : u \in Setups}}

VARIABLES
    setup,
    queued, pressured,   \* OutboundAdmission
    cmds,                \* the command channel
    call,                \* the request() or requestAsync() under way
    js,                  \* the session: `up', `ready', `goaway' and its streams
    inbox,               \* events handed to JavaScript
    h,                   \* H3ClientHandler and the batch of the loop
    pc, drained,         \* phase of the loop, commands taken in this iteration
    net                  \* what the peer has left to send

admission == <<queued, pressured>>
jsVars == <<call, js, inbox>>
loop == <<pc, drained>>
vars == <<setup, admission, cmds, jsVars, h, loop, net>>

Streams == setup.streams

Command(op, s, n, fin) == [op |-> op, s |-> s, n |-> n, fin |-> fin]
NoCall == [state |-> "none", id |-> 0]
WriteReady == Event("WRITE_READY", NoStream)
SessionClose == Event("SESSION_CLOSE", NoStream)
ShutdownComplete == Event("SHUTDOWN_COMPLETE", NoStream)

\* ClientHttp3Stream: the writing half of QuicStreams and the reading half.
NewStream(st) ==
    QuicStream(st, setup.body)
    @@ [responseSeen |-> FALSE, uncredited |-> 0, buffered |-> 0,
        readBackpressure |-> FALSE, pendingReads |-> <<>>]

Init ==
    /\ setup \in Setups
    /\ queued = 0 /\ pressured = FALSE
    /\ cmds = <<>> /\ call = NoCall
    /\ js = [up |-> "open", ready |-> FALSE, goaway |-> FALSE,
             streams |-> [s \in Streams |-> NewStream("none")]]
    /\ inbox = <<>>
    /\ h = [conn |-> NewConnection(Streams, setup.credit, setup.window, setup.window),
            handshake_complete_emitted |-> FALSE, session_closed_emitted |-> FALSE,
            pending_writes |-> [s \in Streams |-> Nothing], batch |-> <<>>]
    /\ pc = "commands" /\ drained = 0
    /\ net = [credit |-> [s \in Streams |-> setup.grants],
              script |-> [s \in Streams |-> setup.script],
              goaway |-> "goaway" \in setup.ops, dgrams |-> IF "dgram" \in setup.ops THEN 1 ELSE 0]

-----------------------------------------------------------------------------
(* JavaScript: nothing else runs while request() waits for its reply. *)

Stream(s) == js.streams[s]
Running == call.state \in {"none", "wait", "retry"}

\* An admitted write is a command; a worker that has gone answers as a full
\* window does.
StreamSend(s, n, fin, st) ==
    IF pc = "stopped"
    THEN /\ js' = [js EXCEPT !.streams[s] = [st EXCEPT !.parked = PendingWrite(n, fin)]]
         /\ UNCHANGED <<admission, cmds>>
    ELSE \E out \in {Offer(st, queued, n, fin)} :
            /\ queued' = out.queued
            /\ pressured' = (pressured \/ out.refused)
            /\ cmds' = IF out.admitted THEN Append(cmds, Command("send", s, n, fin)) ELSE cmds
            /\ js' = [js EXCEPT !.streams[s] = out.st]

Write(s, n) ==
    /\ Running /\ CanWrite(Stream(s))
    /\ n \in setup.chunks /\ n <= Stream(s).todo
    /\ StreamSend(s, n, FALSE, [Stream(s) EXCEPT !.todo = @ - n])
    /\ UNCHANGED <<setup, call, inbox, h, loop, net>>

End(s, n) ==
    /\ Running /\ CanWrite(Stream(s))
    /\ n \in setup.finals /\ (n > 0 => n <= Stream(s).todo)
    /\ StreamSend(s, n, TRUE, [Stream(s) EXCEPT !.fin = TRUE])
    /\ UNCHANGED <<setup, call, inbox, h, loop, net>>

\* request() and ClientWorkerHandle::send_request: a command with a reply
\* channel of its own, waited for at most 5 s; requestAsync() calls it again
\* when the stream was blocked.
Request ==
    /\ call.state \in {"none", "retry"} /\ js.up = "open" /\ js.ready /\ ~js.goaway
    /\ h.conn.next_request + 4 * Len(SelectSeq(cmds, LAMBDA c : c.op = "request")) \in Streams
    /\ call' = [NoCall EXCEPT !.state = "waiting"]
    /\ cmds' = Append(cmds, Command("request", NoStream, 1, "nobody" \in setup.ops))
    /\ UNCHANGED <<setup, admission, js, inbox, h, loop, net>>

\* A GET has ended its writable side with endStream.
RequestOpened ==
    /\ call.state = "opened"
    /\ call' = NoCall
    /\ js' = [js EXCEPT !.streams[call.id] = [NewStream("open") EXCEPT !.fin = "nobody" \in setup.ops]]
    /\ UNCHANGED <<setup, admission, cmds, inbox, h, loop, net>>

\* ERR_HTTP3_STREAM_BLOCKED: requestAsync() waits for a drain or its timer.
RequestBlocked ==
    /\ call.state = "blocked"
    /\ call' = [NoCall EXCEPT !.state = "wait"]
    /\ UNCHANGED <<setup, admission, cmds, js, inbox, h, loop, net>>

\* The exceptions: refused, timed out, or the worker has gone.  The command of
\* a call that timed out is carried out all the same, and its reply dropped.
RequestFails ==
    /\ \/ call.state = "failed"
       \/ call.state = "waiting" /\ (pc = "stopped" \/ "timeout" \in setup.ops)
       \/ call.state \in {"wait", "retry"} /\ (js.up # "open" \/ js.goaway)
    /\ call' = NoCall
    /\ cmds' = [i \in DOMAIN cmds |-> IF cmds[i].op = "request" THEN [cmds[i] EXCEPT !.n = 0] ELSE cmds[i]]
    /\ UNCHANGED <<setup, admission, js, inbox, h, loop, net>>

\* The timer of _waitForRequestRetry.
RetryTimer ==
    /\ call.state = "wait"
    /\ call' = [call EXCEPT !.state = "retry"]
    /\ UNCHANGED <<setup, admission, cmds, js, inbox, h, loop, net>>

\* _notifyRequestDrain
Notified == IF call.state = "wait" THEN [call EXCEPT !.state = "retry"] ELSE call

\* Readable.push: a chunk, or the end (0), which always asks to stop.
Push(st, n) ==
    [st EXCEPT !.got = @ + n, !.buffered = @ + n, !.ended = @ \/ n = 0,
               !.readBackpressure = n = 0 \/ st.buffered + n >= setup.hwm]

\* _pushData: after push() has returned false, chunks wait in pendingReads.
pushData(st, n) ==
    LET u == [st EXCEPT !.uncredited = @ + n]
    IN  IF st.readBackpressure THEN [u EXCEPT !.pendingReads = Append(@, n)] ELSE Push(u, n)

RECURSIVE drainPendingReads(_)
drainPendingReads(st) ==
    IF st.readBackpressure \/ st.pendingReads = <<>> THEN st
    ELSE drainPendingReads(Push([st EXCEPT !.pendingReads = Tail(@)], Head(st.pendingReads)))

\* The consumer takes what is buffered and Node calls _read().
Read(s) ==
    /\ Running /\ Stream(s).st = "open" /\ Stream(s).buffered > 0
    /\ LET st == [Stream(s) EXCEPT !.buffered = 0]
       IN  js' = [js EXCEPT !.streams[s] =
                    IF st.ended THEN st ELSE drainPendingReads([st EXCEPT !.readBackpressure = FALSE])]
    /\ UNCHANGED <<setup, admission, cmds, call, inbox, h, loop, net>>

\* _returnReadCredit, in a turn of its own after _scheduleReadCredit: refused
\* only by a worker that has gone.
ReturnReadCredit(s) ==
    /\ Running /\ pc # "stopped"
    /\ LET st == Stream(s)
       IN  /\ st.st = "open" /\ ~st.readBackpressure /\ st.uncredited > 0
           /\ cmds' = Append(cmds, Command("credit", s, st.uncredited, FALSE))
    /\ js' = [js EXCEPT !.streams[s].uncredited = 0]
    /\ UNCHANGED <<setup, admission, call, inbox, h, loop, net>>

\* readableEnded and writableFinished
Complete(st) == st.ended /\ st.buffered = 0 /\ st.fin /\ ~st.parked.some

\* _destroy of these streams: a stream that is not complete tells the worker.
Destroys(S) ==
    LET open == {s \in S : Stream(s).st = "open"}
        tell == {s \in open : ~Complete(Stream(s))}
    IN  [streams |-> [s \in Streams |-> IF s \in open THEN Destroyed(Stream(s)) ELSE Stream(s)],
         cmds |-> SetToSeq({Command("close", s, 0, FALSE) : s \in tell})]

Destroy(s) ==
    /\ Running /\ "destroy" \in setup.ops
    /\ Stream(s).st = "open" /\ ~Complete(Stream(s))
    /\ js' = [js EXCEPT !.streams = Destroys({s}).streams]
    /\ cmds' = cmds \o Destroys({s}).cmds
    /\ UNCHANGED <<setup, admission, call, inbox, h, loop, net>>

AutoDestroy(s) ==
    /\ Running /\ Stream(s).st = "open" /\ Complete(Stream(s))
    /\ js' = [js EXCEPT !.streams = Destroys({s}).streams]
    /\ UNCHANGED <<setup, admission, cmds, call, inbox, h, loop, net>>

SendDatagram(n) ==
    /\ Running /\ js.up = "open" /\ "datagram" \in setup.ops
    /\ \A i \in DOMAIN cmds : cmds[i].op # "datagram"
    /\ WriteReady \notin Range(inbox) \cup Range(h.batch)
    /\ n \in setup.chunks
    /\ queued' = IF admit_next(queued, n) THEN queued + n ELSE queued
    /\ pressured' = (pressured \/ ~admit_next(queued, n))
    /\ cmds' = IF admit_next(queued, n) THEN Append(cmds, Command("datagram", NoStream, n, FALSE)) ELSE cmds
    /\ UNCHANGED <<setup, jsVars, h, loop, net>>

\* ClientEventLoop.close: Close and Shutdown, once.
CloseLoop == <<Command("end", NoStream, 0, FALSE), Command("shutdown", NoStream, 0, FALSE)>>

\* session.close(): streams are left as they are.
CloseSession ==
    /\ Running /\ js.up = "open" /\ "close" \in setup.ops
    /\ js' = [js EXCEPT !.up = "closing"]
    /\ cmds' = cmds \o CloseLoop
    /\ UNCHANGED <<setup, admission, call, inbox, h, loop, net>>

-----------------------------------------------------------------------------
(* Http3ClientSession._dispatchEvents, one event of a batch. *)

Delivers(types) ==
    /\ Running /\ Head(inbox).type \in types
    /\ inbox' = Tail(inbox)
    /\ UNCHANGED <<setup, h, loop, net>>

OnHandshakeComplete ==
    /\ Delivers({"HANDSHAKE_COMPLETE"})
    /\ js' = [js EXCEPT !.ready = TRUE]
    /\ UNCHANGED <<admission, cmds, call>>

\* _onHeaders: HEADERS after the first are trailers, emitted and no more.
OnHeaders ==
    \E e \in {Head(inbox)} :
        /\ Delivers({"HEADERS"})
        /\ js' = [js EXCEPT !.streams[e.s] =
                    IF @.st # "open" \/ @.responseSeen THEN @
                    ELSE LET st == [@ EXCEPT !.responseSeen = TRUE]
                         IN  IF e.n = 0 THEN st ELSE pushData(st, e.n)]
        /\ UNCHANGED <<admission, cmds, call>>

\* _onData, and _onFinished, which pushes the end.
OnData ==
    \E e \in {Head(inbox)} :
        /\ Delivers({"DATA", "FINISHED"})
        /\ js' = [js EXCEPT !.streams[e.s] = IF @.st = "open" THEN pushData(@, e.n) ELSE @]
        /\ UNCHANGED <<admission, cmds, call>>

\* _onReset, and _onError: of a stream, or of the session (-1).
OnResetOrError ==
    \E e \in {Head(inbox)} :
        /\ Delivers({"RESET", "ERROR"})
        /\ IF e.s = NoStream
           THEN call' = Notified /\ UNCHANGED <<js, cmds>>
           ELSE /\ js' = [js EXCEPT !.streams = Destroys({e.s}).streams]
                /\ cmds' = cmds \o Destroys({e.s}).cmds
                /\ UNCHANGED call
        /\ UNCHANGED admission

OnStreamBlocked ==
    \E e \in {Head(inbox)} :
        /\ Delivers({"STREAM_BLOCKED"})
        /\ js' = [js EXCEPT !.streams[e.s].blocked = @ \/ Stream(e.s).st = "open"]
        /\ UNCHANGED <<admission, cmds, call>>

\* fireDrainCallbacks
Retry(s, st) ==
    IF st.parked.some THEN StreamSend(s, st.parked.bytes, st.parked.fin, st)
    ELSE /\ js' = [js EXCEPT !.streams[s] = st]
         /\ UNCHANGED <<admission, cmds>>

\* _onDrain: the DRAIN of a stream nobody has is the room a request waits for.
OnDrain ==
    \E e \in {Head(inbox)} :
        /\ Delivers({"DRAIN"})
        /\ IF Stream(e.s).st = "open"
           THEN Retry(e.s, [Stream(e.s) EXCEPT !.blocked = FALSE]) /\ UNCHANGED call
           ELSE call' = Notified /\ UNCHANGED <<admission, cmds, js>>

\* WRITE_READY reaches every stream; the retries happen in turn while the worker
\* runs, so each is a step ("RETRY" is not a native event).
OnWriteReady ==
    /\ Running /\ Head(inbox) = WriteReady
    /\ inbox' = SetToSeq({Event("RETRY", s) : s \in {t \in Streams : Stream(t).parked.some}}) \o Tail(inbox)
    /\ UNCHANGED <<setup, admission, cmds, call, js, h, loop, net>>

OnNativeWriteReady ==
    \E e \in {Head(inbox)} :
        /\ Delivers({"RETRY"})
        /\ Retry(e.s, Stream(e.s)) /\ UNCHANGED call

\* _onGoaway: requests from the announced id on were rejected.
OnGoaway ==
    \E e \in {Head(inbox)} :
        /\ Delivers({"GOAWAY"})
        /\ call' = Notified
        /\ \E out \in {Destroys({s \in Streams : s >= e.s})} :
             /\ js' = [js EXCEPT !.goaway = TRUE, !.streams = out.streams]
             /\ cmds' = cmds \o out.cmds
        /\ UNCHANGED admission

\* EVENT_SESSION_CLOSE: _cleanupStreams destroys every stream, waiting requests
\* are woken and the event loop is closed once.
OnSessionClose ==
    /\ Delivers({"SESSION_CLOSE"})
    /\ call' = Notified
    /\ \E out \in {Destroys(Streams)} :
         /\ js' = [js EXCEPT !.up = IF @ = "open" THEN "closing" ELSE @, !.streams = out.streams]
         /\ cmds' = cmds \o out.cmds \o (IF js.up = "open" THEN CloseLoop ELSE <<>>)
    /\ UNCHANGED admission

\* _onShutdownSentinel: close() resolves.
OnShutdownComplete ==
    /\ Delivers({"SHUTDOWN_COMPLETE"})
    /\ js' = [js EXCEPT !.up = "closed"]
    /\ UNCHANGED <<admission, cmds, call>>

OnDatagram ==
    /\ Delivers({"DATAGRAM"})
    /\ UNCHANGED <<admission, cmds, call, js>>

-----------------------------------------------------------------------------
(* H3ClientHandler. *)

\* Mutant: what release() answers is dropped.
Released_Mute(handler, units) ==
    \E out \in {Freed(queued, pressured, units)} :
        /\ queued' = out.queued
        /\ pressured' = (pressured /\ ~out.ready)
        /\ h' = handler

\* release_outbound_admission, after `handler' has done its work.
Released(handler, units) ==
    \E out \in {Freed(queued, pressured, units)} :
        /\ queued' = out.queued
        /\ pressured' = (pressured /\ ~out.ready)
        /\ h' = [handler EXCEPT !.batch = IF out.ready THEN Append(@, WriteReady) ELSE @]

\* One command off the channel.
Takes(op) ==
    /\ pc = "commands" /\ cmds # <<>> /\ Head(cmds).op = op
    /\ drained < setup.tick
    /\ cmds' = Tail(cmds) /\ drained' = drained + 1
    /\ UNCHANGED <<setup, inbox, js, pc, net>>

DispatchSendRequest ==
    /\ Takes("request")
    /\ \E out \in {send_request(h.conn, Head(cmds).fin)} :
         /\ h' = [h EXCEPT !.conn = out.c]
         /\ call' = IF Head(cmds).n = 0 THEN call
                    ELSE [state |-> CASE out.res = "ok" -> "opened" [] out.res = "blocked" -> "blocked"
                                      [] OTHER -> "failed",
                          id |-> out.id]
    /\ UNCHANGED admission

DispatchStreamSend ==
    /\ Takes("send")
    /\ LET c == Head(cmds)
       IN  \E out \in {queue_stream_send(h.conn, h.pending_writes[c.s], c.s, c.n, c.fin)} :
             Released([h EXCEPT !.conn = out.c, !.pending_writes[c.s] = out.w,
                                !.batch = @ \o out.events], out.units)
    /\ UNCHANGED call

DispatchStreamReadCredit ==
    /\ Takes("credit")
    /\ h' = [h EXCEPT !.conn = add_read_credit(@, Head(cmds).s, Head(cmds).n)]
    /\ UNCHANGED <<admission, call>>

\* Mutant: the units of the pending write stay behind.
DispatchStreamClose_KeepsUnits ==
    /\ Takes("close")
    /\ h' = [h EXCEPT !.conn = stream_close(@, Head(cmds).s), !.pending_writes[Head(cmds).s] = Nothing]
    /\ UNCHANGED <<admission, call>>

DispatchStreamClose ==
    /\ Takes("close")
    /\ LET s == Head(cmds).s
       IN  Released([h EXCEPT !.conn = stream_close(@, s), !.pending_writes[s] = Nothing],
                    queued_units(h.pending_writes[s]))
    /\ UNCHANGED call

DispatchSendDatagram ==
    /\ Takes("datagram")
    /\ Released(h, Head(cmds).n)
    /\ UNCHANGED call

\* Close: quiche sends CONNECTION_CLOSE and drains.
DispatchClose ==
    /\ Takes("end")
    /\ h' = [h EXCEPT !.conn.life = IF @ = "open" THEN "closing" ELSE @, !.conn.local_error = TRUE]
    /\ UNCHANGED <<admission, call>>

\* Shutdown: the close counts as emitted, the loop delivers what it has and
\* returns.
DispatchShutdown ==
    /\ pc = "commands" /\ cmds # <<>> /\ Head(cmds).op = "shutdown" /\ drained < setup.tick
    /\ inbox' = inbox \o h.batch \o <<ShutdownComplete>>
    /\ h' = [h EXCEPT !.session_closed_emitted = TRUE, !.batch = <<>>]
    /\ cmds' = <<>> /\ pc' = "stopped"
    /\ UNCHANGED <<setup, admission, call, js, drained, net>>

\* At most MAX_COMMANDS_PER_TICK commands.
EndCommands ==
    /\ pc = "commands" /\ (cmds = <<>> \/ drained = setup.tick)
    /\ pc' = "rx" /\ drained' = 0
    /\ UNCHANGED <<setup, admission, cmds, jsVars, h, net>>

\* emit_session_close: RESET for every abandoned write, the units, the close.
emit_session_close(handler) ==
    LET pending == {s \in Streams : handler.pending_writes[s].some}
        units == SumFunction([s \in pending |-> queued_units(handler.pending_writes[s])])
    IN  \E out \in {Freed(queued, pressured, units)} :
          /\ queued' = out.queued
          /\ pressured' = (pressured /\ ~out.ready)
          /\ h' = [handler EXCEPT !.pending_writes = [s \in Streams |-> Nothing],
                                  !.session_closed_emitted = TRUE,
                                  !.batch = @ \o SetToSeq({Event("RESET", s) : s \in pending})
                                              \o (IF out.ready THEN <<WriteReady>> ELSE <<>>)
                                              \o <<SessionClose>>]

CloseIfClosed(handler) ==
    IF is_closed(handler.conn) /\ ~handler.session_closed_emitted THEN emit_session_close(handler)
    ELSE h' = handler /\ UNCHANGED admission

\* suppress_pending_drains: no DRAIN while the worker still holds a write.
suppress_pending_drains(events) ==
    SelectSeq(events, LAMBDA e : e.type = "DRAIN" => ~h.pending_writes[e.s].some)

\* process_packet_for_handle, app_event_budget 0: a packet changes the
\* connection, blocked streams are looked at, and a closed connection reported.
process_packet_for_handle(c) ==
    /\ pc = "rx" /\ ~is_closed(h.conn)
    /\ \E polled \in poll_h3_events(c, 0) :
         CloseIfClosed(
           [h EXCEPT !.conn = polled.c,
                     !.handshake_complete_emitted = @ \/ c.is_established,
                     !.batch = @ \o (IF c.is_established /\ ~h.handshake_complete_emitted
                                     THEN <<Event("HANDSHAKE_COMPLETE", NoStream)>> ELSE <<>>)
                                 \o suppress_pending_drains(polled.events)])
    /\ UNCHANGED <<setup, cmds, jsVars, loop>>

Alive == h.conn.life = "open"

HandshakeArrives ==
    /\ Alive /\ ~h.conn.is_established
    /\ process_packet_for_handle([h.conn EXCEPT !.is_established = TRUE])
    /\ UNCHANGED net

CreditArrives(s) ==
    /\ Alive /\ net.credit[s] > 0
    /\ net' = [net EXCEPT !.credit[s] = @ - 1]
    /\ process_packet_for_handle([h.conn EXCEPT !.cap[s] = @ + 1])

\* The peer answers a request it has seen and neither finished nor reset.
Answering(s) == Alive /\ s \in h.conn.begun \ (h.conn.fin \cup h.conn.rst)

\* What arrives for a receiving half that is over is discarded.
FrameArrives(s) ==
    /\ Answering(s) /\ net.script[s] # <<>>
    /\ net' = [net EXCEPT !.script[s] = Tail(@)]
    /\ process_packet_for_handle(
         IF s \in h.conn.shut THEN h.conn ELSE [h.conn EXCEPT !.rx[s] = Append(@, Head(net.script[s]))])

FinArrives(s) ==
    /\ Answering(s) /\ net.script[s] = <<>>
    /\ process_packet_for_handle([h.conn EXCEPT !.fin = @ \cup {s}])
    /\ UNCHANGED net

\* RESET_STREAM discards what was not read.
ResetArrives(s) ==
    /\ Answering(s) /\ "reset" \in setup.ops
    /\ process_packet_for_handle([h.conn EXCEPT !.rst = @ \cup {s}, !.rx[s] = <<>>])
    /\ UNCHANGED net

StopArrives(s) ==
    /\ Alive /\ "stop" \in setup.ops
    /\ s \in h.conn.begun \ h.conn.stopped
    /\ process_packet_for_handle([h.conn EXCEPT !.stopped = @ \cup {s}])
    /\ UNCHANGED net

GoawayArrives(s) ==
    /\ Alive /\ net.goaway
    /\ net' = [net EXCEPT !.goaway = FALSE]
    /\ process_packet_for_handle([h.conn EXCEPT !.goaway = s])

DatagramArrives ==
    /\ Alive /\ net.dgrams > 0
    /\ net' = [net EXCEPT !.dgrams = @ - 1]
    /\ process_packet_for_handle([h.conn EXCEPT !.dgrams = @ + 1])

\* CONNECTION_CLOSE starts the draining period, a stateless reset closes at
\* once, and a violation of HTTP/3 is for poll to find.
CloseArrives ==
    /\ Alive
    /\ \/ /\ "peerclose" \in setup.ops
          /\ process_packet_for_handle([h.conn EXCEPT !.life = "draining"])
       \/ /\ "statelessreset" \in setup.ops
          /\ process_packet_for_handle([h.conn EXCEPT !.life = "closed"])
       \/ /\ "broken" \in setup.ops /\ ~h.conn.broken /\ h.conn.is_established
          /\ process_packet_for_handle([h.conn EXCEPT !.broken = TRUE])
    /\ UNCHANGED net

\* process_timers_for_handle: the end of the draining period or an idle timeout
\* closes, any other timer polls the connection.
process_timers_for_handle(budget) ==
    /\ pc = "rx" /\ pc' = "poll"
    /\ \/ /\ h.conn.life \in {"closing", "draining"} \/ ("idle" \in setup.ops /\ Alive)
          /\ CloseIfClosed([h EXCEPT !.conn.life = "closed"])
       \/ /\ ~is_closed(h.conn)
          /\ \E polled \in poll_h3_events(h.conn, budget) :
               h' = [h EXCEPT !.conn = polled.c, !.batch = @ \o suppress_pending_drains(polled.events)]
          /\ UNCHANGED admission
    /\ UNCHANGED <<setup, cmds, jsVars, drained, net>>

EndTimers ==
    /\ pc = "rx" /\ pc' = "poll"
    /\ UNCHANGED <<setup, admission, cmds, jsVars, h, drained, net>>

\* poll_app_events_for_handle and poll_drain_events_for_handle.
poll_app_events_for_handle(budget) ==
    /\ pc = "poll" /\ pc' = "flush"
    /\ \E polled \in IF budget = 0 THEN {[c |-> h.conn, events |-> <<>>]}
                     ELSE poll_h3_events(h.conn, budget) :
       \E out \in {IF polled.c.blocked_queue = <<>> THEN [polled EXCEPT !.events = <<>>]
                   ELSE poll_drain_events(polled.c)} :
         h' = [h EXCEPT !.conn = out.c,
                        !.batch = @ \o suppress_pending_drains(polled.events \o out.events)]
    /\ UNCHANGED <<setup, admission, cmds, jsVars, drained, net>>

\* flush_pending_writes_for_handle and flush_client_pending_writes: each pending
\* write once, the units of all, then DRAIN for the finished ones.
FlushOne(acc, s) ==
    LET out == flush_one_h3_pending_write(acc.h.conn, acc.h.pending_writes[s], s)
    IN  [h |-> [acc.h EXCEPT !.conn = out.c, !.pending_writes[s] = out.w],
         units |-> acc.units + out.units,
         drains |-> IF out.done THEN Append(acc.drains, Event("DRAIN", s)) ELSE acc.drains]

flush_pending_writes_for_handle ==
    /\ pc = "flush" /\ pc' = "deliver"
    /\ \E out \in {FoldLeft(FlushOne, [h |-> h, units |-> 0, drains |-> <<>>],
                           SetToSortSeq({s \in Streams : h.pending_writes[s].some}, <))} :
       \E freed \in {Freed(queued, pressured, out.units)} :
         /\ queued' = freed.queued
         /\ pressured' = (pressured /\ ~freed.ready)
         /\ h' = [out.h EXCEPT !.batch = @ \o (IF freed.ready THEN <<WriteReady>> ELSE <<>>) \o out.drains]
    /\ UNCHANGED <<setup, cmds, jsVars, drained, net>>

\* The end of an iteration: the batch is delivered and, once is_done, the
\* sentinel.
Deliver ==
    /\ pc = "deliver"
    /\ inbox' = inbox \o h.batch \o (IF h.session_closed_emitted THEN <<ShutdownComplete>> ELSE <<>>)
    /\ h' = [h EXCEPT !.batch = <<>>]
    /\ pc' = IF h.session_closed_emitted THEN "stopped" ELSE "commands"
    /\ UNCHANGED <<setup, admission, cmds, call, js, drained, net>>

-----------------------------------------------------------------------------
Application ==
    \/ \E s \in AllStreams, n \in Sizes : s \in Streams /\ (Write(s, n) \/ End(s, n))
    \/ \E s \in AllStreams : s \in Streams /\ Destroy(s)
    \/ \E n \in Sizes : SendDatagram(n)
    \/ Request \/ CloseSession

\* What Node does by itself for a stream with a consumer.
Consumer ==
    \E s \in AllStreams : s \in Streams /\ (Read(s) \/ ReturnReadCredit(s) \/ AutoDestroy(s))

DispatchEvent ==
    inbox # <<>> /\ \/ OnHandshakeComplete \/ OnHeaders \/ OnData \/ OnResetOrError \/ OnStreamBlocked
                    \/ OnDrain \/ OnWriteReady \/ OnNativeWriteReady \/ OnGoaway \/ OnSessionClose
                    \/ OnShutdownComplete \/ OnDatagram

Returns == RequestOpened \/ RequestBlocked \/ RequestFails

DispatchCommand ==
    \/ DispatchSendRequest \/ DispatchStreamSend \/ DispatchStreamReadCredit \/ DispatchStreamClose
    \/ DispatchSendDatagram \/ DispatchClose \/ DispatchShutdown

\* One step of the loop that does not depend on the network or the clock.
LoopStep ==
    \/ DispatchCommand \/ EndCommands \/ EndTimers \/ flush_pending_writes_for_handle \/ Deliver
    \/ \E b \in Budgets : b \in setup.budgets /\ poll_app_events_for_handle(b)

Timers == \E b \in Budgets : b \in setup.budgets /\ process_timers_for_handle(b)

Arrival ==
    \/ HandshakeArrives \/ DatagramArrives \/ CloseArrives
    \/ \E s \in AllStreams : s \in Streams /\ \/ CreditArrives(s) \/ FrameArrives(s) \/ FinArrives(s)
                                              \/ ResetArrives(s) \/ StopArrives(s) \/ GoawayArrives(s)

Next == Application \/ Consumer \/ Returns \/ RetryTimer \/ DispatchEvent \/ LoopStep \/ Timers \/ Arrival

\* JavaScript and the worker keep running, streams have consumers, and a peer
\* that reads grants credit.
Fairness ==
    /\ WF_vars(DispatchEvent \/ Returns)
    /\ WF_vars(Consumer)
    /\ WF_vars(LoopStep)
    /\ SF_vars(\E s \in AllStreams : s \in Streams /\ CreditArrives(s))

SafeSpec == Init /\ [][Next]_vars
Spec == SafeSpec /\ Fairness

-----------------------------------------------------------------------------
(* Properties. *)

Types == {"HANDSHAKE_COMPLETE", "HEADERS", "DATA", "FINISHED", "RESET", "ERROR", "STREAM_BLOCKED",
          "DRAIN", "RETRY", "WRITE_READY", "GOAWAY", "DATAGRAM", "SESSION_CLOSE", "SHUTDOWN_COMPLETE"}
Events == [type : Types, s : Streams \cup {NoStream}, n : 0..setup.window, fin : BOOLEAN]

\* Every field of the session, the handler and quiche keeps its type; credit is
\* neither overdrawn nor more than the window, and only open streams wait.
TypeOK ==
    /\ queued \in Nat /\ pressured \in BOOLEAN
    /\ js.up \in {"open", "closing", "closed"}
    /\ inbox \in Seq(Events) /\ h.batch \in Seq(Events)
    /\ Cardinality(blocked_set(h.conn)) = Len(h.conn.blocked_queue)
    /\ h.conn.read_credit \in [DOMAIN h.conn.read_credit -> 0..setup.window]
    /\ h.conn.pending_readable \subseteq h.conn.begun
    /\ \A s \in Streams :
         /\ Stream(s).st \in {"none", "open", "gone"}
         /\ h.conn.cap[s] \in Nat /\ h.conn.rx[s] \in Seq({"H", "D"})
         /\ Stream(s).st # "open" => ~Stream(s).parked.some

Outstanding ==
    SumFunction([i \in DOMAIN cmds |-> IF cmds[i].op \in {"send", "datagram"}
                                       THEN outbound_payload_units(cmds[i].n, cmds[i].fin) ELSE 0])
    + SumFunction([s \in Streams |-> queued_units(h.pending_writes[s])])

\* The window of the worker bounds what sits in its channel and in pending
\* writes: never less, and more only by the unit of a FIN merged into a write.
WindowTight ==
    pc # "stopped" => /\ Outstanding <= queued
                      /\ queued <= Outstanding + IF 0 \in setup.finals THEN Cardinality(Streams) ELSE 0

InChannel(op, s) ==
    SumFunction([i \in DOMAIN cmds |-> IF cmds[i].op = op /\ cmds[i].s = s THEN cmds[i].n ELSE 0])

\* A byte of a request body JavaScript was told is written is in the channel,
\* in the pending write or with quiche, once; and quiche has the FIN only
\* behind all of them.
NoByteLost ==
    \A s \in Streams :
        Alive /\ pc # "stopped" /\ s \notin h.conn.stopped /\ Stream(s).st # "none" =>
            /\ Stream(s).accepted = h.conn.sent[s] + h.pending_writes[s].bytes + InChannel("send", s)
            /\ s \in h.conn.fins => h.conn.sent[s] = Stream(s).accepted

OnTheWay(s) ==
    LET units(q) == SumFunction([i \in DOMAIN q |-> IF q[i].s = s /\ q[i].type \in {"HEADERS", "DATA"}
                                                    THEN q[i].n ELSE 0])
    IN  units(h.batch) + units(inbox)

\* The read window of a stream is shared between the worker's credit, data on
\* its way to JavaScript, what was not yet acknowledged and credit on its way
\* back: it neither leaks, which would stall the response, nor grows.
CreditConserved ==
    \A s \in Streams :
        s \in DOMAIN h.conn.read_credit /\ Stream(s).st = "open" /\ pc # "stopped" =>
            h.conn.read_credit[s] + OnTheWay(s) + Stream(s).uncredited + InChannel("credit", s)
                = setup.window

\* DATA is reported once: a stream that was reported and not read empty, for
\* want of budget or credit, is in pending_readable.
PausedIsRemembered ==
    \A s \in Streams :
        /\ s \in h.conn.triggered \ (h.conn.shut \cup h.conn.rst \cup h.conn.told)
        /\ Run(h.conn, s) > 0
        => s \in h.conn.pending_readable

\* A response that has ended has been delivered whole: no budget, no pause and
\* no missing credit lets the end overtake the body.
EndMeansAll ==
    \A s \in Streams : Stream(s).ended =>
        Stream(s).got = Cardinality({i \in DOMAIN setup.script : setup.script[i] = "D"})

Coming(types, s) ==
    \E e \in Range(inbox) \cup Range(h.batch) : e.type \in types /\ (e.s = s \/ e.s = NoStream)

\* Something will run this parked write again.
HasWaker(s) ==
    \/ Coming({"DRAIN", "RESET", "ERROR", "SESSION_CLOSE"}, s)
    \/ IF Stream(s).blocked THEN h.pending_writes[s].some
       ELSE \/ Coming({"WRITE_READY", "RETRY"}, s)
            \/ Coming({"STREAM_BLOCKED"}, s) /\ h.pending_writes[s].some
            \/ pressured /\ Outstanding > 0

\* No lost wake-up while the session is open: a parked write has a DRAIN, an
\* error, a close or a WRITE_READY coming, or pressure recorded and units still
\* to be released.
ParkedHasWaker == js.up = "open" => \A s \in Streams : Stream(s).parked.some => HasWaker(s)

\* A parked write is eventually admitted or rejected while the session is open; the
\* end of a response, and a reset, reach the application, since read credit comes
\* back as fast as it reads and no pause loses the stream: this is what must not last.
Waits ==
    js.up = "open" /\ \E s \in Streams :
        \/ Stream(s).parked.some
        \/ s \in h.conn.fin \cup h.conn.rst /\ Stream(s).st = "open" /\ ~Stream(s).ended
=============================================================================
