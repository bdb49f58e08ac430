----------------------------- MODULE QuicClients -----------------------------
(***************************************************************************)
(* Raw QUIC clients end to end: QuicStream and QuicClientSession in        *)
(* JavaScript (quic-stream.ts, quic-client.ts), QuicClientHandle, and the  *)
(* worker thread with one QuicClientHandler for each session.  A "shared"  *)
(* worker serves all sessions of a bind family                             *)
(* (run_shared_quic_client_event_loop) behind one admission window; a      *)
(* "dedicated" one serves a single session (run_event_loop).               *)
(*                                                                         *)
(* One iteration of the loop is the phases commands, rx, timers, poll and  *)
(* flush of every session, deliver.  How sessions are opened and           *)
(* how workers are found, joined and lost is the subject of SharedClients. *)
(***************************************************************************)
EXTENDS QuicConnection, QuicStreams

CONSTANT Setups
(***************************************************************************)
(* kind      "shared" or "dedicated"                                       *)
(* sessions  the sessions of the worker                                    *)
(* opened    local streams that exist already; `local' those still to open *)
(* remote    streams the server opens                                      *)
(* chunks, finals, body    sizes of write() and end(), bytes per stream    *)
(* credit    bytes of flow-control credit the peer grants a stream         *)
(* reads     reads' worth of data the peer sends on a stream               *)
(* budgets   app_event_budget values                                       *)
(* tick      MAX_COMMANDS_PER_TICK                                         *)
(* ops       which of the optional operations and faults occur             *)
(***************************************************************************)

Sizes == {x : x \in UNION {u.chunks \cup u.finals : u \in Setups}}
Budgets == {x : x \in UNION {u.budgets : u \in Setups}}
AllSessions == {x : x \in UNION {u.sessions : u \in Setups}}
AllStreams == {x : x \in UNION {u.opened \cup u.local \cup u.remote : u \in Setups}}

VARIABLES
    setup,
    queued, pressured,   \* OutboundAdmission, one for the worker
    cmds,                \* the command channel
    call,                \* the synchronous openStream() the JavaScript thread is in
    js,                  \* per session: `up' and the QuicStream of each id
    inbox,               \* per session: events handed to JavaScript
    live,                \* sessions in the worker's slab
    ses,                 \* per session: its QuicClientHandler and batch
    pc, left, releasing, \* the loop: phase, sessions still to visit, pending_release
    drained,             \* commands taken in this iteration
    net                  \* per session and stream: what the peer has left to send

admission == <<queued, pressured>>
jsVars == <<call, js, inbox>>
loop == <<pc, left, releasing, drained>>
vars == <<setup, admission, cmds, jsVars, live, ses, loop, net>>

Sessions == setup.sessions
Streams == setup.opened \cup setup.local \cup setup.remote

Command(op, x, s, n, fin) == [op |-> op, x |-> x, s |-> s, n |-> n, fin |-> fin]
NoCall == [state |-> "none", x |-> 0, id |-> 0]
WriteReady == Event("WRITE_READY", 0)
SessionClose == Event("SESSION_CLOSE", 0)
ShutdownComplete == Event("SHUTDOWN_COMPLETE", 0)

NewStream(st) == QuicStream(st, setup.body)

Handler ==
    [conn |-> [NewConnection(Streams, {s \in Streams : s % 4 = 0}, 0)
                 EXCEPT !.known_streams = setup.opened],
     pending_writes |-> [s \in Streams |-> Nothing], session_closed_emitted |-> FALSE,
     next_bidi_stream_id |-> 4 * Cardinality(setup.opened), batch |-> <<>>]

Init ==
    /\ setup \in Setups
    /\ queued = 0 /\ pressured = FALSE
    /\ cmds = <<>> /\ call = NoCall
    /\ js = [x \in Sessions |->
               [up |-> "open",
                streams |-> [s \in Streams |-> NewStream(IF s \in setup.opened THEN "open" ELSE "none")]]]
    /\ inbox = [x \in Sessions |-> <<>>]
    /\ live = Sessions
    /\ ses = [x \in Sessions |-> Handler]
    /\ pc = "commands" /\ left = {} /\ releasing = {} /\ drained = 0
    /\ net = [x \in Sessions |-> [s \in Streams |->
                [credit |-> IF s \in setup.opened \cup setup.local THEN setup.credit ELSE 0,
                 reads |-> setup.reads]]]

-----------------------------------------------------------------------------
(* JavaScript: nothing else runs while openStream() waits for its reply. *)

Stream(x, s) == js[x].streams[s]
Running == call.state = "none"

\* An admitted write is a command; after _detachTransport _doSend answers 0.
StreamSend(x, s, n, fin, st) ==
    LET out == Offer(st, queued, n, fin)
    IN  /\ queued' = out.queued
        /\ pressured' = (pressured \/ out.refused)
        /\ cmds' = IF out.admitted THEN Append(cmds, Command("send", x, s, n, fin)) ELSE cmds
        /\ js' = [js EXCEPT ![x].streams[s] = out.st]

Writable(x, s) == Running /\ CanWrite(Stream(x, s))

Write(x, s, n) ==
    /\ Writable(x, s)
    /\ n \in setup.chunks /\ n <= Stream(x, s).todo
    /\ StreamSend(x, s, n, FALSE, [Stream(x, s) EXCEPT !.todo = @ - n])
    /\ UNCHANGED <<setup, call, inbox, live, ses, loop, net>>

End(x, s, n) ==
    /\ Writable(x, s)
    /\ n \in setup.finals /\ (n > 0 => n <= Stream(x, s).todo)
    /\ StreamSend(x, s, n, TRUE, [Stream(x, s) EXCEPT !.fin = TRUE])
    /\ UNCHANGED <<setup, call, inbox, live, ses, loop, net>>

\* openStream() and QuicClientHandle::open_stream: a command with a reply
\* channel of its own, waited for at most 2 s.
OpenStream(x) ==
    /\ Running /\ js[x].up = "open"
    /\ ses[x].next_bidi_stream_id + 4 * Len(SelectSeq(cmds, LAMBDA c : c.op = "open")) \in setup.local
    /\ call' = [NoCall EXCEPT !.state = "waiting", !.x = x]
    /\ cmds' = Append(cmds, Command("open", x, 0, 1, FALSE))
    /\ UNCHANGED <<setup, admission, js, inbox, live, ses, loop, net>>

StreamOpened ==
    /\ call.state = "opened"
    /\ call' = NoCall
    /\ js' = [js EXCEPT ![call.x].streams[call.id] = NewStream("open")]
    /\ UNCHANGED <<setup, admission, cmds, inbox, live, ses, loop, net>>

\* "timed out opening stream", "session not found" or the worker has gone: the
\* caller gets an exception; a command still in the channel is carried out.
StreamNotOpened ==
    /\ \/ call.state = "failed"
       \/ call.state = "waiting" /\ (pc = "stopped" \/ "timeout" \in setup.ops)
    /\ call' = NoCall
    /\ cmds' = [i \in DOMAIN cmds |-> IF cmds[i].op = "open" THEN [cmds[i] EXCEPT !.n = 0] ELSE cmds[i]]
    /\ UNCHANGED <<setup, admission, js, inbox, live, ses, loop, net>>

\* _closeTransport
CloseTransport(x, s) ==
    cmds' = IF js[x].up = "open" THEN Append(cmds, Command("close", x, s, 0, FALSE)) ELSE cmds

Destroy(x, s) ==
    /\ Running /\ "destroy" \in setup.ops
    /\ Stream(x, s).st = "open"
    /\ CloseTransport(x, s)
    /\ js' = [js EXCEPT ![x].streams[s] = Destroyed(@)]
    /\ UNCHANGED <<setup, admission, call, inbox, live, ses, loop, net>>

\* autoDestroy once both halves are done; admitted data is left to the transport.
AutoDestroy(x, s) ==
    /\ Running
    /\ LET st == Stream(x, s)
       IN  st.st = "open" /\ st.ended /\ st.fin /\ ~st.parked.some
    /\ js' = [js EXCEPT ![x].streams[s] = Destroyed(@)]
    /\ UNCHANGED <<setup, admission, cmds, call, inbox, live, ses, loop, net>>

\* sendDatagram(): admitted by payload size, answered by the worker.
SendDatagram(x, n) ==
    /\ Running /\ js[x].up = "open" /\ "datagram" \in setup.ops
    /\ \A i \in DOMAIN cmds : cmds[i].op # "datagram"
    /\ n \in setup.chunks
    /\ queued' = IF admit_next(queued, n) THEN queued + n ELSE queued
    /\ pressured' = (pressured \/ ~admit_next(queued, n))
    /\ cmds' = IF admit_next(queued, n) THEN Append(cmds, Command("datagram", x, 0, n, FALSE)) ELSE cmds
    /\ UNCHANGED <<setup, jsVars, live, ses, loop, net>>

\* _cleanupStreams detaches and destroys every stream; QuicClientEventLoop.close
\* sends Close and ReleaseSession (Shutdown to a dedicated worker).
CleanupStreams(x) == [s \in Streams |-> IF js[x].streams[s].st \in {"open", "ghost"}
                                        THEN Destroyed(js[x].streams[s]) ELSE js[x].streams[s]]
CloseLoop(x) == <<Command("end", x, 0, 0, FALSE), Command("release", x, 0, 0, FALSE)>>

CloseSession(x) ==
    /\ Running /\ js[x].up = "open" /\ "close" \in setup.ops
    /\ js' = [js EXCEPT ![x].up = "closing", ![x].streams = CleanupStreams(x)]
    /\ cmds' = cmds \o CloseLoop(x)
    /\ UNCHANGED <<setup, admission, call, inbox, live, ses, loop, net>>

-----------------------------------------------------------------------------
(* QuicClientSession._dispatchEvents, one event of a batch. *)

Delivers(x, e) ==
    /\ Running /\ inbox[x] # <<>> /\ Head(inbox[x]) = e
    /\ inbox' = [inbox EXCEPT ![x] = Tail(@)]
    /\ UNCHANGED <<setup, call, live, ses, loop, net>>

\* The event at the head, when it is of one of these types.
IsOf(x, types) == Head(inbox[x]).type \in types

\* _onNewStream and _onData go through _getOrCreateStream: a stream the
\* application has left, or that a closed session has cleaned up, comes back as
\* one nobody holds.
OnData(x) ==
    \E e \in {Head(inbox[x])} :
        /\ Delivers(x, e) /\ IsOf(x, {"NEW_STREAM", "DATA"})
        /\ LET st == Stream(x, e.s)
           IN  js' = [js EXCEPT ![x].streams[e.s] =
                        IF st.st = "open" THEN Received(st, e)
                        ELSE IF js[x].up = "open" /\ e.type = "NEW_STREAM"
                             THEN Received(NewStream("open"), e)
                        ELSE [st EXCEPT !.st = "ghost"]]
        /\ UNCHANGED <<admission, cmds>>

OnFinished(x) ==
    \E e \in {Head(inbox[x])} :
        /\ Delivers(x, e) /\ IsOf(x, {"FINISHED"})
        /\ js' = [js EXCEPT ![x].streams[e.s] = IF @.st = "open" THEN Received(@, e) ELSE @]
        /\ UNCHANGED <<admission, cmds>>

\* _onReset closes the transport explicitly, _onError through _destroy.
OnResetOrError(x) ==
    \E e \in {Head(inbox[x])} :
        /\ Delivers(x, e) /\ IsOf(x, {"RESET", "ERROR"})
        /\ IF Stream(x, e.s).st \in {"open", "ghost"}
           THEN /\ js' = [js EXCEPT ![x].streams[e.s] = Destroyed(@)]
                /\ CloseTransport(x, e.s)
           ELSE UNCHANGED <<js, cmds>>
        /\ UNCHANGED admission

OnStreamBlocked(x) ==
    \E e \in {Head(inbox[x])} :
        /\ Delivers(x, e) /\ IsOf(x, {"STREAM_BLOCKED"})
        /\ js' = [js EXCEPT ![x].streams[e.s].blocked = @ \/ Stream(x, e.s).st = "open"]
        /\ UNCHANGED <<admission, cmds>>

\* fireDrainCallbacks
Retry(x, s, st) ==
    IF st.st = "open" /\ st.parked.some THEN StreamSend(x, s, st.parked.bytes, st.parked.fin, st)
    ELSE /\ js' = [js EXCEPT ![x].streams[s] = st]
         /\ UNCHANGED <<admission, cmds>>

\* Mutant: DRAIN retries the write but leaves _blocked set.
OnDrain_KeepsBlocked(x) ==
    \E e \in {Head(inbox[x])} :
        /\ Delivers(x, e) /\ IsOf(x, {"DRAIN"})
        /\ Retry(x, e.s, Stream(x, e.s))

OnDrain(x) ==
    \E e \in {Head(inbox[x])} :
        /\ Delivers(x, e) /\ IsOf(x, {"DRAIN"})
        /\ Retry(x, e.s, [Stream(x, e.s) EXCEPT !.blocked = FALSE])

\* WRITE_READY reaches every stream of the session; the retries happen in turn
\* while the worker runs, so each is a step ("RETRY" is not a native event).
OnWriteReady(x) ==
    /\ Running /\ inbox[x] # <<>> /\ Head(inbox[x]) = WriteReady
    /\ inbox' = [inbox EXCEPT ![x] =
                   SetToSeq({Event("RETRY", s) : s \in {t \in Streams : Stream(x, t).parked.some}})
                   \o Tail(@)]
    /\ UNCHANGED <<setup, admission, cmds, call, js, live, ses, loop, net>>

OnNativeWriteReady(x) ==
    \E e \in {Head(inbox[x])} :
        /\ Delivers(x, e) /\ IsOf(x, {"RETRY"})
        /\ Retry(x, e.s, Stream(x, e.s))

\* EVENT_SESSION_CLOSE: _cleanupStreams, _emitClose and
\* _cleanupEventLoopAfterNativeClose, which closes the event loop once.
OnSessionClose(x) ==
    /\ Delivers(x, SessionClose)
    /\ js' = [js EXCEPT ![x].up = IF @ = "open" THEN "closing" ELSE @,
                        ![x].streams = CleanupStreams(x)]
    /\ cmds' = IF js[x].up = "open" THEN cmds \o CloseLoop(x) ELSE cmds
    /\ UNCHANGED admission

\* _onShutdownSentinel: close() resolves.
OnShutdownComplete(x) ==
    /\ Delivers(x, ShutdownComplete)
    /\ js' = [js EXCEPT ![x].up = "closed"]
    /\ UNCHANGED <<admission, cmds>>

-----------------------------------------------------------------------------
(* The worker. *)

Release(units) ==
    \E out \in {Freed(queued, pressured, units)} :
        /\ queued' = out.queued
        /\ pressured' = (pressured /\ ~out.ready)

Ready(units) == IF Freed(queued, pressured, units).ready THEN <<WriteReady>> ELSE <<>>

\* emit_shared_quic_client_write_ready: into the batch of every session.
AllReady(sessions, units) ==
    [x \in Sessions |-> IF x \in live THEN [sessions[x] EXCEPT !.batch = @ \o Ready(units)]
                        ELSE sessions[x]]

\* One command off the channel.
Takes(op) ==
    /\ pc = "commands" /\ cmds # <<>> /\ Head(cmds).op = op
    /\ drained < setup.tick
    /\ cmds' = Tail(cmds) /\ drained' = drained + 1
    /\ UNCHANGED <<setup, inbox, js, pc, left, live, net>>

\* OpenStream: open_bidi_stream reserves the next id; the reply of a caller
\* that gave up is dropped.
DispatchOpenStream ==
    /\ Takes("open")
    /\ LET x == Head(cmds).x
           id == ses[x].next_bidi_stream_id
       IN  IF x \in live
           THEN /\ ses' = [ses EXCEPT ![x].next_bidi_stream_id = id + 4,
                                      ![x].conn = reserve_local_bidi_stream(@, id)]
                /\ call' = IF Head(cmds).n = 1
                           THEN [call EXCEPT !.state = "opened", !.id = id] ELSE call
           ELSE /\ call' = IF Head(cmds).n = 1
                           THEN [call EXCEPT !.state = "failed"] ELSE call
                /\ UNCHANGED ses
    /\ UNCHANGED <<admission, releasing>>

\* StreamSend: units of a session that has gone come back whole.
DispatchStreamSend ==
    /\ Takes("send")
    /\ LET c == Head(cmds)
           h == ses[c.x]
       IN  IF c.x \in live
           THEN \E out \in {queue_stream_send(h.conn, h.pending_writes[c.s], c.s, c.n, c.fin)} :
                  /\ Release(out.units)
                  /\ ses' = AllReady([ses EXCEPT ![c.x].conn = out.c,
                                                 ![c.x].pending_writes[c.s] = out.w,
                                                 ![c.x].batch = @ \o out.events], out.units)
           ELSE /\ Release(outbound_payload_units(c.n, c.fin))
                /\ ses' = AllReady(ses, outbound_payload_units(c.n, c.fin))
    /\ UNCHANGED <<call, releasing>>

\* close_stream: the pending write goes with the stream.
DispatchStreamClose ==
    /\ Takes("close")
    /\ LET c == Head(cmds)
           units == queued_units(ses[c.x].pending_writes[c.s])
       IN  IF c.x \in live
           THEN /\ Release(units)
                /\ ses' = AllReady([ses EXCEPT ![c.x].conn = stream_close(@, c.s),
                                               ![c.x].pending_writes[c.s] = Nothing], units)
           ELSE UNCHANGED <<admission, ses>>
    /\ UNCHANGED <<call, releasing>>

DispatchSendDatagram ==
    /\ Takes("datagram")
    /\ Release(Head(cmds).n)
    /\ ses' = AllReady(ses, Head(cmds).n)
    /\ UNCHANGED <<call, releasing>>

\* Close: quiche sends CONNECTION_CLOSE and drains.
DispatchClose ==
    /\ Takes("end")
    /\ ses' = [ses EXCEPT ![Head(cmds).x].conn.life = IF @ = "open" THEN "draining" ELSE @]
    /\ UNCHANGED <<admission, call, releasing>>

\* ReleaseSession waits for the sends of this iteration to leave.
DispatchReleaseSession ==
    /\ setup.kind = "shared"
    /\ Takes("release")
    /\ releasing' = releasing \cup {Head(cmds).x}
    /\ UNCHANGED <<admission, call, ses>>

\* Shutdown of a dedicated worker: the loop delivers what it has and returns.
DispatchShutdown ==
    /\ setup.kind = "dedicated"
    /\ pc = "commands" /\ cmds # <<>> /\ Head(cmds).op = "release" /\ drained < setup.tick
    /\ LET x == Head(cmds).x
       IN  /\ inbox' = [inbox EXCEPT ![x] = @ \o ses[x].batch \o <<ShutdownComplete>>]
           /\ ses' = [ses EXCEPT ![x].session_closed_emitted = TRUE, ![x].batch = <<>>]
    /\ cmds' = <<>> /\ queued' = 0 /\ pressured' = FALSE
    /\ live' = {} /\ pc' = "stopped"
    /\ UNCHANGED <<setup, call, js, left, releasing, drained, net>>

\* At most MAX_COMMANDS_PER_TICK commands, then the sends leave and the
\* pending_release loop runs remove_shared_quic_client_session: the units of
\* abandoned writes come back, but what release() answers is dropped.
EndCommands ==
    /\ pc = "commands" /\ (cmds = <<>> \/ drained = setup.tick)
    /\ pc' = "rx" /\ drained' = 0
    /\ LET gone == releasing \cap live
       IN  /\ inbox' = [x \in Sessions |-> IF x \in gone
                           THEN inbox[x] \o ses[x].batch \o <<ShutdownComplete>> ELSE inbox[x]]
           /\ Release(SumFunction([p \in gone \X Streams |-> queued_units(ses[p[1]].pending_writes[p[2]])]))
           /\ ses' = [x \in Sessions |-> IF x \in gone THEN Handler ELSE ses[x]]
           /\ live' = live \ gone
    /\ releasing' = {} /\ left' = live'
    /\ UNCHANGED <<setup, cmds, call, js, net>>

\* emit_session_close: RESET for every abandoned write, the units, the close.
emit_session_close(h) ==
    LET pending == {s \in Streams : h.pending_writes[s].some}
        units == SumFunction([s \in pending |-> queued_units(h.pending_writes[s])])
    IN  [h |-> [h EXCEPT !.pending_writes = [s \in Streams |-> Nothing],
                         !.session_closed_emitted = TRUE,
                         !.batch = @ \o SetToSeq({Event("RESET", s) : s \in pending})
                                     \o Ready(units) \o <<SessionClose>>],
         units |-> units]

CloseIfClosed(x, h) ==
    IF is_closed(h.conn) /\ ~h.session_closed_emitted
    THEN \E out \in {emit_session_close(h)} : ses' = [ses EXCEPT ![x] = out.h] /\ Release(out.units)
    ELSE /\ ses' = [ses EXCEPT ![x] = h]
         /\ UNCHANGED admission

\* process_packet_for_handle, app_event_budget 0: a packet changes the
\* connection, blocked streams are looked at, and a closed connection reported.
process_packet_for_handle(x, c) ==
    /\ pc = "rx" /\ x \in live /\ ~is_closed(ses[x].conn)
    /\ \E polled \in {poll_quic_events(c, 0)} :
         CloseIfClosed(x, [ses[x] EXCEPT !.conn = polled.c, !.batch = @ \o polled.events])
    /\ UNCHANGED <<setup, cmds, jsVars, live, loop>>

Takeable(x, s, field) ==
    /\ ses[x].conn.life = "open" /\ net[x][s][field] > 0
    /\ net' = [net EXCEPT ![x][s][field] = @ - 1]

\* A client stream exists for the peer once something of it was sent.
PeerKnows(x, s) == s \in setup.remote \/ ses[x].conn.sent[s] > 0 \/ s \in ses[x].conn.fins

CreditArrives(x, s) ==
    /\ Takeable(x, s, "credit")
    /\ process_packet_for_handle(x, PeerCredit(ses[x].conn, s))

DataArrives(x, s) ==
    /\ s \notin ses[x].conn.fin \cup ses[x].conn.rst /\ PeerKnows(x, s)
    /\ Takeable(x, s, "reads")
    /\ process_packet_for_handle(x, PeerData(ses[x].conn, s))

FinArrives(x, s) ==
    /\ ses[x].conn.life = "open" /\ setup.reads > 0
    /\ s \notin ses[x].conn.fin \cup ses[x].conn.rst /\ PeerKnows(x, s)
    /\ process_packet_for_handle(x, PeerFin(ses[x].conn, s))
    /\ UNCHANGED net

ResetArrives(x, s) ==
    /\ ses[x].conn.life = "open" /\ "reset" \in setup.ops
    /\ s \notin ses[x].conn.fin \cup ses[x].conn.rst /\ PeerKnows(x, s)
    /\ process_packet_for_handle(x, PeerResets(ses[x].conn, s))
    /\ UNCHANGED net

StopArrives(x, s) ==
    /\ ses[x].conn.life = "open" /\ "stop" \in setup.ops
    /\ s \notin ses[x].conn.stopped /\ PeerKnows(x, s)
    /\ process_packet_for_handle(x, PeerStops(ses[x].conn, s))
    /\ UNCHANGED net

\* CONNECTION_CLOSE starts the draining period; a stateless reset closes at once.
CloseArrives(x) ==
    /\ ses[x].conn.life # "closed"
    /\ \E to \in {"draining", "closed"} :
         /\ (IF to = "draining" THEN "peerclose" ELSE "statelessreset") \in setup.ops
         /\ ses[x].conn.life # to
         /\ process_packet_for_handle(x, [ses[x].conn EXCEPT !.life = to])
    /\ UNCHANGED net

\* process_timers_for_handle: the end of the draining period or an idle timeout
\* closes, any other timer polls the connection and sweeps it.
process_timers_for_handle(x, budget) ==
    /\ pc \in {"rx", "timers"} /\ x \in left
    /\ pc' = "timers" /\ left' = left \ {x}
    /\ LET life == ses[x].conn.life
       IN  \/ /\ life = "draining" \/ ("idle" \in setup.ops /\ life = "open")
              /\ CloseIfClosed(x, [ses[x] EXCEPT !.conn.life = "closed"])
           \/ /\ \E polled \in {poll_quic_events(ses[x].conn, budget)} :
                  \E swept \in {sweep_finished_streams(polled.c, budget)} :
                    ses' = [ses EXCEPT ![x].conn = swept.c,
                                       ![x].batch = @ \o polled.events \o swept.events]
              /\ UNCHANGED admission
    /\ UNCHANGED <<setup, cmds, jsVars, live, releasing, drained, net>>

EndTimers ==
    /\ pc \in {"rx", "timers"}
    /\ pc' = "poll" /\ left' = live
    /\ UNCHANGED <<setup, admission, cmds, jsVars, live, ses, releasing, drained, net>>

\* poll_app_events_for_handle and poll_drain_events_for_handle.
poll_app_events_for_handle(x, budget) ==
    /\ pc = "poll" /\ x \in left /\ \A y \in left : x <= y
    /\ pc' = "flush"
    /\ \E polled \in {IF budget = 0 THEN [c |-> ses[x].conn, events |-> <<>>]
                      ELSE poll_quic_events(ses[x].conn, budget)} :
       \E swept \in {sweep_finished_streams(polled.c, budget)} :
       \E out \in {poll_drain_events(swept.c)} :
         ses' = [ses EXCEPT ![x].conn = out.c,
                            ![x].batch = @ \o polled.events \o swept.events \o out.events]
    /\ UNCHANGED <<setup, admission, cmds, jsVars, live, left, releasing, drained, net>>

\* flush_pending_writes_for_handle: each pending write once, the units of all,
\* then DRAIN for the finished ones.
FlushOne(acc, s) ==
    LET out == flush_one_quic_pending_write(acc.h.conn, acc.h.pending_writes[s], s)
    IN  [h |-> [acc.h EXCEPT !.conn = out.c, !.pending_writes[s] = out.w],
         units |-> acc.units + out.units,
         drains |-> IF out.done THEN Append(acc.drains, Event("DRAIN", s)) ELSE acc.drains]

flush_pending_writes_for_handle(x) ==
    /\ pc = "flush" /\ x \in left /\ \A y \in left : x <= y
    /\ pc' = "poll" /\ left' = left \ {x}
    /\ \E out \in {FoldLeft(FlushOne, [h |-> ses[x], units |-> 0, drains |-> <<>>],
                           SetToSortSeq({s \in Streams : ses[x].pending_writes[s].some}, <))} :
         /\ Release(out.units)
         /\ ses' = [ses EXCEPT ![x] = [out.h EXCEPT !.batch = @ \o Ready(out.units) \o out.drains]]
    /\ UNCHANGED <<setup, cmds, jsVars, live, releasing, drained, net>>

\* is_reapable; the dedicated loop's is_done lets go of the pending writes too.
is_reapable(h) ==
    h.session_closed_emitted /\ (setup.kind = "shared" => \A s \in Streams : ~h.pending_writes[s].some)

\* The end of an iteration: every batch is delivered, closed sessions get
\* SHUTDOWN_COMPLETE and go, and a worker without sessions stops.
Deliver ==
    /\ pc = "poll" /\ left = {}
    /\ LET gone == {x \in live : is_reapable(ses[x])}
       IN  /\ inbox' = [x \in Sessions |-> IF x \in live
                  THEN inbox[x] \o ses[x].batch \o (IF x \in gone THEN <<ShutdownComplete>> ELSE <<>>)
                  ELSE inbox[x]]
           /\ ses' = [x \in Sessions |-> IF x \in gone THEN Handler ELSE [ses[x] EXCEPT !.batch = <<>>]]
           /\ live' = live \ gone
           /\ pc' = IF live = gone THEN "stopped" ELSE "commands"
    /\ UNCHANGED <<setup, admission, cmds, call, js, left, releasing, drained, net>>

-----------------------------------------------------------------------------
Application(x) ==
    \/ \E s \in AllStreams, n \in Sizes : s \in Streams /\ (Write(x, s, n) \/ End(x, s, n))
    \/ \E s \in AllStreams : s \in Streams /\ (Destroy(x, s) \/ AutoDestroy(x, s))
    \/ \E n \in Sizes : SendDatagram(x, n)
    \/ OpenStream(x) \/ CloseSession(x)

DispatchEvent(x) ==
    inbox[x] # <<>> /\ \/ OnData(x) \/ OnFinished(x) \/ OnResetOrError(x) \/ OnStreamBlocked(x)
                       \/ OnDrain(x) \/ OnWriteReady(x) \/ OnNativeWriteReady(x)
                       \/ OnSessionClose(x) \/ OnShutdownComplete(x)

Returns == StreamOpened \/ StreamNotOpened

DispatchCommand ==
    \/ DispatchOpenStream \/ DispatchStreamSend \/ DispatchStreamClose \/ DispatchSendDatagram
    \/ DispatchClose \/ DispatchReleaseSession \/ DispatchShutdown

\* One step of the loop that does not depend on the network or the clock.
LoopStep ==
    \/ DispatchCommand \/ EndCommands \/ EndTimers \/ Deliver
    \/ \E x \in AllSessions : flush_pending_writes_for_handle(x)
    \/ \E x \in AllSessions, b \in Budgets : b \in setup.budgets /\ poll_app_events_for_handle(x, b)

Arrival(x, s) ==
    \/ CreditArrives(x, s) \/ DataArrives(x, s) \/ FinArrives(x, s)
    \/ ResetArrives(x, s) \/ StopArrives(x, s)

Next ==
    \/ \E x \in AllSessions : x \in Sessions /\ (Application(x) \/ DispatchEvent(x) \/ CloseArrives(x))
    \/ Returns
    \/ LoopStep
    \/ \E x \in AllSessions, b \in Budgets : b \in setup.budgets /\ process_timers_for_handle(x, b)
    \/ \E x \in AllSessions, s \in AllStreams : x \in Sessions /\ s \in Streams /\ Arrival(x, s)

\* JavaScript and the worker keep running, and a peer that reads grants credit.
Fairness ==
    /\ WF_vars(\E x \in AllSessions : x \in Sessions /\ DispatchEvent(x))
    /\ WF_vars(LoopStep)
    /\ SF_vars(\E x \in AllSessions, s \in AllStreams : x \in Sessions /\ s \in Streams /\ CreditArrives(x, s))

SafeSpec == Init /\ [][Next]_vars
Spec == SafeSpec /\ Fairness

-----------------------------------------------------------------------------
(* Properties. *)

PendingWrites == [bytes : Nat, fin : BOOLEAN, some : BOOLEAN]
Types == {"NEW_STREAM", "DATA", "FINISHED", "RESET", "ERROR", "STREAM_BLOCKED", "DRAIN",
          "RETRY", "WRITE_READY", "SESSION_CLOSE", "SHUTDOWN_COMPLETE"}
Events == [type : Types, s : Streams \cup {0}, n : 0..1, fin : BOOLEAN]

\* Every field of the sessions, the worker and quiche keeps its type; no credit
\* is overdrawn and no stream id is given out twice.
TypeOK ==
    /\ queued \in Nat /\ pressured \in BOOLEAN /\ live \subseteq Sessions
    /\ \A x \in Sessions :
         /\ js[x].up \in {"open", "closing", "closed"}
         /\ inbox[x] \in Seq(Events) /\ ses[x].batch \in Seq(Events)
         /\ ses[x].next_bidi_stream_id \in Nat
         /\ blocked_set(ses[x].conn) \subseteq Streams
         /\ Cardinality(blocked_set(ses[x].conn)) = Len(ses[x].conn.blocked_queue)
         /\ \A s \in Streams :
              /\ js[x].streams[s].st \in {"none", "open", "gone", "ghost"}
              /\ js[x].streams[s].parked \in PendingWrites
              /\ ses[x].pending_writes[s] \in PendingWrites
              /\ ses[x].conn.cap[s] \in Nat /\ ses[x].conn.avail[s] \in Nat
              /\ js[x].streams[s].st # "none" /\ s % 4 = 0 /\ x \in live => s < ses[x].next_bidi_stream_id

Outstanding ==
    SumFunction([i \in DOMAIN cmds |-> IF cmds[i].op \in {"send", "datagram"}
                                       THEN outbound_payload_units(cmds[i].n, cmds[i].fin) ELSE 0])
    + SumFunction([p \in live \X Streams |-> queued_units(ses[p[1]].pending_writes[p[2]])])

\* The window of a raw QUIC worker bounds what sits in its channel and in the
\* pending writes of all its sessions, whatever closes, resets, refusals and
\* releases happen: never less, and more only by the unit of a FIN sent alone
\* and merged into a pending write.
WindowTight ==
    pc # "stopped" =>
        /\ Outstanding <= queued
        /\ queued <= Outstanding + IF 0 \in setup.finals THEN Cardinality(setup.sessions \X Streams) ELSE 0

\* The stream's bytes are still the worker's to send.
Alive(x, s) ==
    /\ x \in live /\ ses[x].conn.life = "open" /\ ~ses[x].session_closed_emitted
    /\ s \notin ses[x].conn.stopped

InChannel(x, s) ==
    SumFunction([i \in DOMAIN cmds |-> IF cmds[i].x = x /\ cmds[i].s = s /\ cmds[i].op = "send"
                                       THEN cmds[i].n ELSE 0])

\* A byte JavaScript was told is written is in the channel, in the pending
\* write or with quiche, once; and quiche has the FIN only behind all of them.
NoByteLost ==
    \A x \in Sessions, s \in Streams : Alive(x, s) =>
        /\ Stream(x, s).accepted = ses[x].conn.sent[s] + ses[x].pending_writes[s].bytes + InChannel(x, s)
        /\ s \in ses[x].conn.fins => ses[x].conn.sent[s] = Stream(x, s).accepted

\* When the loop goes back to sleep, a stream with a pending write is in
\* blocked_queue: only there would its credit, or its end, be noticed.
PendingIsWatched ==
    pc = "commands" => \A x \in live, s \in Streams :
        ses[x].pending_writes[s].some => s \in blocked_set(ses[x].conn)

\* A readable side that has ended has seen everything the peer sent before its
\* FIN: no budget, no pause and no sweep lets the end overtake the data.
EndMeansAll ==
    \A x \in Sessions, s \in Streams : Stream(x, s).ended =>
        Stream(x, s).got = setup.reads - net[x][s].reads

Coming(x, types, s) ==
    \E e \in Range(inbox[x]) \cup Range(ses[x].batch) : e.type \in types /\ (e.s = s \/ e.s = 0)

\* Something will run this parked write again.
HasWaker(x, s) ==
    \/ Coming(x, {"DRAIN", "RESET", "ERROR", "SESSION_CLOSE", "SHUTDOWN_COMPLETE"}, s)
    \/ IF Stream(x, s).blocked THEN ses[x].pending_writes[s].some
       ELSE \/ Coming(x, {"WRITE_READY", "RETRY"}, s)
            \/ Coming(x, {"STREAM_BLOCKED"}, s) /\ ses[x].pending_writes[s].some
            \/ pressured /\ Outstanding > 0

\* No lost wake-up in a worker with one session: a parked write has a DRAIN, an
\* error, a close or a WRITE_READY coming, or pressure recorded and units still
\* to be released.
ParkedHasWaker ==
    Cardinality(setup.sessions) = 1 =>
        \A x \in Sessions, s \in Streams : Stream(x, s).parked.some => HasWaker(x, s)

\* A parked write is eventually admitted or rejected, as long as the peer grants
\* credit, and the peer's FIN reaches the application unless it leaves the stream
\* first: this is what must not last.
Waits ==
    \E x \in Sessions, s \in Streams :
        \/ Stream(x, s).parked.some
        \/ /\ s \in ses[x].conn.fin /\ x \in live /\ js[x].up = "open"
           /\ ~Stream(x, s).ended /\ Stream(x, s).st # "gone"
=============================================================================
