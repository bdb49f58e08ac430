-------------------------- MODULE H3ServerWrites ---------------------------
(***************************************************************************)
(* The outbound write path of one HTTP/3 server connection, end to end:    *)
(* ServerHttp3Stream (lib/stream.ts) asks the admission window and sends a *)
(* command, the worker thread (H3ServerHandler, src/worker.rs) hands it to *)
(* quiche or keeps the rest in a PendingWrite / PendingResponse, and       *)
(* STREAM_BLOCKED, DRAIN, WRITE_READY, RESET, ERROR and SESSION_CLOSE      *)
(* events travel back to JavaScript.                                       *)
(*                                                                         *)
(* Bytes are counted, not represented.  A PendingWrite is its byte total   *)
(* and its FIN flag: flush_pending_write_with_progress sends the chunks in *)
(* order and puts FIN on the last one, so chunk borders never show.        *)
(* try_admit and release are one step each (OutboundAdmission shows that   *)
(* they implement that).                                                   *)
(***************************************************************************)
EXTENDS AdmissionCore, Sequences, FiniteSets, SequencesExt, FiniteSetsExt

CONSTANTS
    StreamIds,   \* request streams of the connection
    Setups,      \* what may happen in a behaviour, and its bounds: see Setup
    NoStreamId   \* stands for "no stream" in connection-level messages

OptionalOps == {"endStream", "respondWithBody", "trailers", "destroy",
                "stop", "reset", "close"}

\* streams: the ones not finished yet;  responded: those of them whose response
\* HEADERS quiche has already taken;  chunks: sizes of write(chunk);  finals: sizes of
\* the last chunk given to end(), 0 for a plain end();  body: bytes written on a
\* stream;  credit: bound on the peer's credit per stream;  datagrams: how many are
\* sent;  ops: the optional behaviours.
Setup(u) ==
    /\ u.streams \subseteq StreamIds /\ u.responded \subseteq u.streams
    /\ u.chunks \subseteq Nat \ {0} /\ u.finals \subseteq Nat
    /\ u.body \in Nat /\ u.credit \in Nat /\ u.datagrams \in Nat
    /\ u.ops \subseteq OptionalOps

Sizes == {x : x \in UNION {u.chunks \cup u.finals : u \in Setups}}

ASSUME WritesAssumption == NoStreamId \notin StreamIds /\ \A u \in Setups : Setup(u)

VARIABLES
    setup,               \* fixed at the start
    queued, pressured,   \* OutboundAdmission, shared by both threads
    cmds,                \* crossbeam channel JavaScript -> worker
    inbox,               \* ThreadsafeFunction queue worker -> JavaScript
    (* ServerHttp3Stream, JavaScript thread *)
    life,                \* "open", or "gone": destroyed, out of _streams
    headersSent, finSent,\* _headersSent, _finSent
    blocked,             \* _blocked
    parked,              \* the write whose callback waits in drainCallbacks
    todo,                \* bytes the application still wants to write
    closeSent,           \* _closeSent
    datagrams,           \* datagrams the application still sends
    (* H3ServerHandler, worker thread *)
    phase,               \* position in the loop of run_event_loop
    conn,                \* "open"; quiche is_closed: "closed", or "expired" when a
                         \* timer closed it (last_expired); "gone" once reaped
    writes,              \* pending_writes
    responses,           \* pending_responses
    batch,               \* EventBatcher's batch
    (* quiche, per stream *)
    cap,                 \* stream_capacity
    granted,             \* credit granted so far (bounds cap)
    qlife,               \* "open", "reset", "stopped", "closed"
    qhdr, qsent, qfin,   \* HEADERS, body bytes and FIN quiche has accepted
    qtrailers,           \* trailer_fin_streams
    blocked_set,         \* H3Connection.blocked_set
    accepted             \* history: body bytes JavaScript had admitted

admission == <<queued, pressured>>
streamVars == <<life, headersSent, finSent, blocked, parked, todo, closeSent, accepted>>
jsVars == <<setup, streamVars, datagrams>>
quicheVars == <<cap, granted, qlife, qhdr, qsent, qfin, qtrailers, blocked_set>>
pendingVars == <<writes, responses>>
vars == <<admission, cmds, inbox, jsVars, phase, conn, pendingVars, batch, quicheVars>>

Responded == setup.responded
Chunks == setup.chunks
Finals == setup.finals
MaxBody == setup.body
MaxCredit == setup.credit
MaxDatagrams == setup.datagrams
Ops == setup.ops

Nothing == [bytes |-> 0, fin |-> FALSE, some |-> FALSE]
PendingWrite(n, f) == [bytes |-> n, fin |-> f, some |-> TRUE]
NoResponse == [some |-> FALSE, headers_sent |-> FALSE, headers_fin |-> FALSE, body |-> Nothing]

Command(op, s, n, f) == [op |-> op, s |-> s, n |-> n, fin |-> f]
Event(t, s) == [type |-> t, s |-> s]
WriteReady == Event("WRITE_READY", NoStreamId)
SessionClose == Event("SESSION_CLOSE", NoStreamId)

Init ==
    /\ setup \in Setups
    /\ queued = 0 /\ pressured = FALSE
    /\ cmds = <<>> /\ inbox = <<>> /\ batch = <<>>
    /\ life = [s \in StreamIds |-> IF s \in setup.streams THEN "open" ELSE "gone"]
    /\ headersSent = [s \in StreamIds |-> s \in Responded]
    /\ finSent = [s \in StreamIds |-> FALSE]
    /\ blocked = [s \in StreamIds |-> FALSE]
    /\ parked = [s \in StreamIds |-> Nothing]
    /\ todo = [s \in StreamIds |-> MaxBody]
    /\ closeSent = [s \in StreamIds |-> FALSE]
    /\ datagrams = MaxDatagrams
    /\ phase = "cmds" /\ conn = "open"
    /\ writes = [s \in StreamIds |-> Nothing]
    /\ responses = [s \in StreamIds |-> NoResponse]
    /\ cap = [s \in StreamIds |-> 0]
    /\ granted = [s \in StreamIds |-> 0]
    /\ qlife = [s \in StreamIds |-> IF s \in setup.streams THEN "open" ELSE "closed"]
    /\ qhdr = [s \in StreamIds |-> s \in Responded]
    /\ qsent = [s \in StreamIds |-> 0]
    /\ qfin = [s \in StreamIds |-> FALSE]
    /\ qtrailers = [s \in StreamIds |-> FALSE]
    /\ blocked_set = {}
    /\ accepted = [s \in StreamIds |-> 0]

-----------------------------------------------------------------------------
(* JavaScript thread: lib/stream.ts, lib/event-loop.ts, src/server.rs. *)

\* respond(): headers bypass the window.  With endStream no body follows, but
\* _finSent stays unset, so a later end() still sends a FIN of its own.
Respond(s, endStream) ==
    /\ life[s] = "open" /\ ~headersSent[s]
    /\ endStream => "endStream" \in Ops
    /\ headersSent' = [headersSent EXCEPT ![s] = TRUE]
    /\ todo' = [todo EXCEPT ![s] = IF endStream THEN 0 ELSE @]
    /\ cmds' = Append(cmds, Command("headers", s, 0, endStream))
    /\ UNCHANGED <<admission, inbox, life, finSent, blocked, parked, closeSent, accepted,
                   phase, conn, pendingVars, batch, quicheVars, setup, datagrams>>

\* _writeChunk / _writeFinalChunk: a blocked stream and a refused payload both
\* park the write; an admitted one becomes a StreamSend command.
StreamSend(s, n, fin, isBlocked) ==
    LET units == outbound_payload_units(n, fin)
    IN  \/ /\ ~isBlocked /\ admit_next(queued, units)
           /\ queued' = queued + units
           /\ cmds' = Append(cmds, Command("send", s, n, fin))
           /\ accepted' = [accepted EXCEPT ![s] = @ + n]
           /\ parked' = [parked EXCEPT ![s] = Nothing]
           /\ UNCHANGED pressured
        \/ /\ isBlocked \/ ~admit_next(queued, units)
           /\ pressured' = (pressured \/ ~isBlocked)
           /\ parked' = [parked EXCEPT ![s] = PendingWrite(n, fin)]
           /\ UNCHANGED <<queued, cmds, accepted>>

\* Duplex.write(): Writable hands _write one chunk at a time.
Write(s, n) ==
    /\ life[s] = "open" /\ headersSent[s] /\ ~finSent[s] /\ ~parked[s].some
    /\ n \in Chunks /\ n <= todo[s]
    /\ todo' = [todo EXCEPT ![s] = @ - n]
    /\ StreamSend(s, n, FALSE, blocked[s])
    /\ UNCHANGED <<inbox, life, headersSent, finSent, blocked, closeSent,
                   phase, conn, pendingVars, batch, quicheVars, setup, datagrams>>

\* Duplex.end([chunk]): _final runs once every write has completed.
End(s, n) ==
    /\ life[s] = "open" /\ headersSent[s] /\ ~finSent[s] /\ ~parked[s].some
    /\ n \in Finals /\ (n > 0 => n <= todo[s])
    /\ finSent' = [finSent EXCEPT ![s] = TRUE]
    /\ StreamSend(s, n, TRUE, blocked[s])
    /\ UNCHANGED <<inbox, life, headersSent, blocked, todo, closeSent,
                   phase, conn, pendingVars, batch, quicheVars, setup, datagrams>>

\* respondWithBody(): the boolean of NativeWorkerServer.sendResponse is dropped
\* by WorkerEventLoop.sendResponse, so a refusal goes unnoticed.
RespondWithBody(s, n) ==
    /\ "respondWithBody" \in Ops /\ n \in Finals
    /\ life[s] = "open" /\ ~headersSent[s]
    /\ headersSent' = [headersSent EXCEPT ![s] = TRUE]
    /\ finSent' = [finSent EXCEPT ![s] = TRUE]
    /\ LET units == outbound_payload_units(n, TRUE)
       IN  \/ /\ admit_next(queued, units)
              /\ queued' = queued + units
              /\ cmds' = Append(cmds, Command("response", s, n, TRUE))
              /\ accepted' = [accepted EXCEPT ![s] = n]
              /\ UNCHANGED pressured
           \/ /\ ~admit_next(queued, units)
              /\ pressured' = TRUE
              /\ UNCHANGED <<queued, cmds, accepted>>
    /\ UNCHANGED <<inbox, life, blocked, parked, todo, closeSent,
                   phase, conn, pendingVars, batch, quicheVars, setup, datagrams>>

\* sendTrailers() after the body: no write callback is outstanding.
SendTrailers(s) ==
    /\ "trailers" \in Ops
    /\ life[s] = "open" /\ headersSent[s] /\ ~finSent[s] /\ ~parked[s].some
    /\ finSent' = [finSent EXCEPT ![s] = TRUE]
    /\ cmds' = Append(cmds, Command("trailers", s, 0, FALSE))
    /\ UNCHANGED <<admission, inbox, life, headersSent, blocked, parked, todo, closeSent,
                   accepted, phase, conn, pendingVars, batch, quicheVars, setup, datagrams>>

\* sendDatagram(): the reply is waited for with a 2 s timeout, which leaves the
\* command and its units in the channel; JavaScript goes on either way.
SendDatagram(n) ==
    /\ datagrams > 0 /\ n \in Chunks
    /\ datagrams' = datagrams - 1
    /\ \/ /\ admit_next(queued, n)
          /\ queued' = queued + n
          /\ cmds' = Append(cmds, Command("datagram", NoStreamId, n, FALSE))
          /\ UNCHANGED pressured
       \/ /\ ~admit_next(queued, n)
          /\ pressured' = TRUE
          /\ UNCHANGED <<queued, cmds>>
    /\ UNCHANGED <<inbox, setup, streamVars, phase, conn, pendingVars, batch, quicheVars>>

\* _closeTransport, once per stream; UNCHANGED when already sent.
CloseTransport(s) ==
    IF closeSent[s] THEN UNCHANGED <<cmds, closeSent>>
    ELSE /\ closeSent' = [closeSent EXCEPT ![s] = TRUE]
         /\ cmds' = Append(cmds, Command("close", s, 0, FALSE))

\* destroy(): parked callbacks are rejected and the stream leaves _streams.
Destroyed(s) ==
    /\ life' = [life EXCEPT ![s] = "gone"]
    /\ parked' = [parked EXCEPT ![s] = Nothing]
    /\ UNCHANGED <<headersSent, finSent, blocked, todo, accepted>>

\* The application cancels a stream: close() or destroy().
Destroy(s) ==
    /\ "destroy" \in Ops
    /\ life[s] = "open"
    /\ CloseTransport(s) /\ Destroyed(s)
    /\ UNCHANGED <<admission, inbox, phase, conn, pendingVars, batch, quicheVars, setup, datagrams>>

\* Node destroys a Duplex once both sides are done; _destroy then leaves the
\* admitted bytes to the transport.
AutoDestroy(s) ==
    /\ life[s] = "open" /\ finSent[s] /\ ~parked[s].some
    /\ Destroyed(s)
    /\ UNCHANGED <<admission, cmds, inbox, closeSent, setup, datagrams, phase, conn, pendingVars,
                   batch, quicheVars>>

\* fireDrainCallbacks: the parked write of s is tried again.
FireDrainCallbacks(s, isBlocked) ==
    IF parked[s].some THEN StreamSend(s, parked[s].bytes, parked[s].fin, isBlocked)
    ELSE UNCHANGED <<admission, cmds, accepted, parked>>

\* Http3SecureServer._dispatchEvents, one event of the batch.  Events for a
\* stream that left _streams are ignored.
Dispatchable(type, s) ==
    /\ inbox # <<>> /\ Head(inbox) = Event(type, s)
    /\ inbox' = Tail(inbox)
    /\ UNCHANGED <<phase, conn, pendingVars, batch, quicheVars, setup, datagrams>>

OnStale ==
    /\ inbox # <<>> /\ Head(inbox).s \in StreamIds /\ life[Head(inbox).s] = "gone"
    /\ inbox' = Tail(inbox)
    /\ UNCHANGED <<admission, cmds, jsVars, phase, conn, pendingVars, batch, quicheVars>>

OnStreamBlocked(s) ==
    /\ life[s] = "open" /\ Dispatchable("STREAM_BLOCKED", s)
    /\ blocked' = [blocked EXCEPT ![s] = TRUE]
    /\ UNCHANGED <<admission, cmds, life, headersSent, finSent, parked, todo, closeSent, accepted>>

OnDrain(s) ==
    /\ life[s] = "open" /\ Dispatchable("DRAIN", s)
    /\ blocked' = [blocked EXCEPT ![s] = FALSE]
    /\ FireDrainCallbacks(s, FALSE)
    /\ UNCHANGED <<life, headersSent, finSent, todo, closeSent>>

\* WRITE_READY carries handle 0 and reaches every stream; the retries happen in
\* turn while the worker runs, so each is a step ("RETRY" is not a native event).
OnWriteReady ==
    /\ inbox # <<>> /\ Head(inbox) = WriteReady
    /\ inbox' = SetToSeq({Event("RETRY", s) : s \in {t \in StreamIds : life[t] = "open"}})
                \o Tail(inbox)
    /\ UNCHANGED <<admission, cmds, jsVars, phase, conn, pendingVars, batch, quicheVars>>

OnNativeWriteReady(s) ==
    /\ life[s] = "open" /\ Dispatchable("RETRY", s)
    /\ FireDrainCallbacks(s, blocked[s])
    /\ UNCHANGED <<life, headersSent, finSent, blocked, todo, closeSent>>

\* _onReset closes the transport explicitly, _onError through _destroy.
OnResetOrError(s) ==
    /\ life[s] = "open"
    /\ Dispatchable("RESET", s) \/ Dispatchable("ERROR", s)
    /\ CloseTransport(s) /\ Destroyed(s)
    /\ UNCHANGED admission

\* _onSessionClose drops _eventLoop first, so destroying sends no command.
OnSessionClose ==
    /\ inbox # <<>> /\ Head(inbox) = SessionClose
    /\ inbox' = Tail(inbox)
    /\ life' = [s \in StreamIds |-> "gone"]
    /\ closeSent' = [s \in StreamIds |-> closeSent[s] \/ life[s] = "open"]
    /\ parked' = [s \in StreamIds |-> Nothing]
    /\ UNCHANGED <<admission, cmds, headersSent, finSent, blocked, todo, accepted,
                   phase, conn, pendingVars, batch, quicheVars, setup, datagrams>>

-----------------------------------------------------------------------------
(* quiche and H3Connection (src/connection.rs). *)

Sendable(s) == qlife[s] \in {"open", "reset"}

\* send_response: HEADERS cost one unit of capacity.
SendHeaders(s) ==
    IF ~Sendable(s) \/ qhdr[s] THEN "error" ELSE IF cap[s] = 0 THEN "blocked" ELSE "ok"

\* send_body_arcbuf: what one attempt to send n bytes, FIN riding on the last,
\* does when HEADERS sent just before took h units.  The capacity check comes
\* before the framing checks of quiche.
SendBody(s, n, fin, h) ==
    LET room == cap[s] - h
        written == IF n > room THEN room ELSE n
        idle == [ok |-> TRUE, written |-> 0, fin |-> FALSE, rest |-> FALSE, cost |-> h]
    IN  IF n = 0 /\ fin /\ qtrailers[s] THEN [idle EXCEPT !.fin = TRUE]
        ELSE IF ~Sendable(s) THEN [idle EXCEPT !.ok = FALSE]
        ELSE IF n = 0 /\ ~fin THEN idle
        ELSE IF room = 0 THEN [idle EXCEPT !.rest = TRUE]
        ELSE IF ~(qhdr[s] \/ h = 1) \/ qfin[s] THEN [idle EXCEPT !.ok = FALSE]
        ELSE [ok |-> TRUE, written |-> written, fin |-> fin /\ written = n,
              rest |-> written < n, cost |-> h + IF n = 0 THEN 1 ELSE written]

\* OutboundAdmission.release, then the events of the handler.
Release(units, events) ==
    LET next == release_next(queued, units)
        ready == units > 0 /\ release_emits_write_ready(next, pressured)
    IN  /\ queued' = next
        /\ pressured' = (pressured /\ ~ready)
        /\ batch' = batch \o (IF ready THEN <<WriteReady>> ELSE <<>>) \o events

\* PendingWriteSnapshot::queued_units, for writes and for response bodies.
QueuedUnits(s) ==
    LET units(p) == outbound_payload_units(p.bytes, p.fin)
    IN  units(writes[s]) + units(responses[s].body)

HasPending(s) == writes[s].some \/ responses[s].some

-----------------------------------------------------------------------------
(* H3ServerHandler::dispatch_command, one command at a time. *)

Dispatch(op) ==
    /\ phase = "cmds" /\ cmds # <<>> /\ Head(cmds).op = op
    /\ cmds' = Tail(cmds)
    /\ UNCHANGED <<inbox, jsVars, phase, conn>>

\* stream_close inside quiche: both directions shut, tracking cleared.
StreamShutdown(s) ==
    /\ qlife' = [qlife EXCEPT ![s] = "closed"]
    /\ blocked_set' = blocked_set \ {s}
    /\ qtrailers' = [qtrailers EXCEPT ![s] = FALSE]

\* emit_h3_send_error_and_reset, after the payload's units are given back.
SendFailed(s, units) ==
    /\ Release(units, <<Event("ERROR", s)>>)
    /\ StreamShutdown(s)
    /\ UNCHANGED <<pendingVars, cap, granted, qhdr, qsent, qfin>>

Blocks(s, response) ==
    /\ responses' = [responses EXCEPT ![s] = response]
    /\ batch' = Append(batch, Event("STREAM_BLOCKED", s))
    /\ UNCHANGED <<admission, writes, quicheVars>>

\* Mutant: a partly sent payload is released as a whole.
SendPayload_ReleasesAll(s, n, fin, h) ==
    LET out == SendBody(s, n, fin, h)
    IN  IF ~out.ok THEN SendFailed(s, outbound_payload_units(n, fin))
        ELSE /\ Release(outbound_payload_units(n, fin),
                        IF out.rest THEN <<Event("STREAM_BLOCKED", s)>> ELSE <<>>)
             /\ writes' = IF out.rest
                          THEN [writes EXCEPT ![s] = PendingWrite(n - out.written, fin)]
                          ELSE writes
             /\ blocked_set' = IF out.rest THEN blocked_set \cup {s} ELSE blocked_set
             /\ cap' = [cap EXCEPT ![s] = @ - out.cost]
             /\ qhdr' = [qhdr EXCEPT ![s] = @ \/ h = 1]
             /\ qsent' = [qsent EXCEPT ![s] = @ + out.written]
             /\ qfin' = [qfin EXCEPT ![s] = @ \/ out.fin]
             /\ UNCHANGED <<responses, granted, qlife, qtrailers>>

\* send_body_chunk and what the handlers do with its outcome.
SendPayload(s, n, fin, h) ==
    LET out == SendBody(s, n, fin, h)
    IN  IF ~out.ok THEN SendFailed(s, outbound_payload_units(n, fin))
        ELSE /\ Release(accepted_outbound_payload_units(n, fin, out.written, out.fin),
                        IF out.rest THEN <<Event("STREAM_BLOCKED", s)>> ELSE <<>>)
             /\ writes' = IF out.rest
                          THEN [writes EXCEPT ![s] = PendingWrite(n - out.written, fin)]
                          ELSE writes
             /\ blocked_set' = IF out.rest THEN blocked_set \cup {s} ELSE blocked_set
             /\ cap' = [cap EXCEPT ![s] = @ - out.cost]
             /\ qhdr' = [qhdr EXCEPT ![s] = @ \/ h = 1]
             /\ qsent' = [qsent EXCEPT ![s] = @ + out.written]
             /\ qfin' = [qfin EXCEPT ![s] = @ \/ out.fin]
             /\ UNCHANGED <<responses, granted, qlife, qtrailers>>

DispatchSendResponseHeaders ==
    /\ Dispatch("headers")
    /\ LET s == Head(cmds).s
           fin == Head(cmds).fin
           result == SendHeaders(s)
       IN  \/ /\ conn = "gone"
              /\ UNCHANGED <<admission, pendingVars, batch, quicheVars>>
           \/ /\ conn # "gone" /\ result = "blocked"
              /\ Blocks(s, [NoResponse EXCEPT !.some = TRUE, !.headers_fin = fin])
           \/ /\ conn # "gone" /\ result = "error"
              /\ SendFailed(s, 0)
           \/ /\ conn # "gone" /\ result = "ok"
              /\ cap' = [cap EXCEPT ![s] = @ - 1]
              /\ qhdr' = [qhdr EXCEPT ![s] = TRUE]
              /\ qfin' = [qfin EXCEPT ![s] = fin]
              /\ UNCHANGED <<admission, pendingVars, batch, granted, qlife, qsent,
                             qtrailers, blocked_set>>

DispatchSendResponse ==
    /\ Dispatch("response")
    /\ LET s == Head(cmds).s
           n == Head(cmds).n
           fin == Head(cmds).fin
           units == outbound_payload_units(n, fin)
           result == SendHeaders(s)
       IN  \/ /\ conn = "gone"
              /\ Release(units, <<>>)
              /\ UNCHANGED <<pendingVars, quicheVars>>
           \/ /\ conn # "gone" /\ result = "blocked"
              /\ Blocks(s, [NoResponse EXCEPT !.some = TRUE, !.body = PendingWrite(n, fin)])
           \/ /\ conn # "gone" /\ result = "error"
              /\ SendFailed(s, units)
           \/ /\ conn # "gone" /\ result = "ok"
              /\ SendPayload(s, n, fin, 1)

\* Mutant: the FIN is forgotten.
Push_DropsFin(p, n, fin) == PendingWrite(p.bytes + n, p.fin)

\* push_chunk and set_fin on a PendingWrite.
Push(p, n, fin) == PendingWrite(p.bytes + n, p.fin \/ fin)

DispatchStreamSend ==
    /\ Dispatch("send")
    /\ LET s == Head(cmds).s
           n == Head(cmds).n
           fin == Head(cmds).fin
       IN  \/ /\ responses[s].some
              /\ responses' = [responses EXCEPT ![s].body = Push(@, n, fin),
                                                ![s].headers_fin = FALSE]
              /\ UNCHANGED <<admission, writes, batch, quicheVars>>
           \/ /\ ~responses[s].some /\ writes[s].some
              /\ writes' = [writes EXCEPT ![s] = Push(@, n, fin)]
              /\ UNCHANGED <<admission, responses, batch, quicheVars>>
           \/ /\ ~HasPending(s) /\ conn # "gone"
              /\ SendPayload(s, n, fin, 0)
           \/ /\ ~HasPending(s) /\ conn = "gone"
              /\ Release(outbound_payload_units(n, fin), <<>>)
              /\ UNCHANGED <<pendingVars, quicheVars>>

\* StreamClose: pending data is dropped and given back, and only then is a
\* RESET reported.  quiche returns the unsent bytes of the closed stream to the
\* connection, which may leave room for other streams (set T).
DispatchStreamClose ==
    /\ Dispatch("close")
    /\ LET s == Head(cmds).s
       IN  \/ /\ conn = "gone"
              /\ UNCHANGED <<admission, pendingVars, batch, quicheVars>>
           \/ /\ conn # "gone"
              /\ Release(QueuedUnits(s),
                         IF QueuedUnits(s) > 0 THEN <<Event("RESET", s)>> ELSE <<>>)
              /\ writes' = [writes EXCEPT ![s] = Nothing]
              /\ responses' = [responses EXCEPT ![s] = NoResponse]
              /\ StreamShutdown(s)
              /\ \E T \in SUBSET {t \in StreamIds \ {s} : granted[t] < MaxCredit} :
                    /\ Cardinality(T) <= qsent[s]
                    /\ cap' = [t \in StreamIds |-> cap[t] + IF t \in T THEN 1 ELSE 0]
                    /\ granted' = [t \in StreamIds |-> granted[t] + IF t \in T THEN 1 ELSE 0]
              /\ UNCHANGED <<qhdr, qsent, qfin>>

\* SendTrailers: an error of send_additional_headers is only logged.
DispatchSendTrailers ==
    /\ Dispatch("trailers")
    /\ LET s == Head(cmds).s
           ok == conn # "gone" /\ Sendable(s) /\ qhdr[s] /\ ~qfin[s] /\ cap[s] > 0
       IN  /\ qtrailers' = [qtrailers EXCEPT ![s] = @ \/ ok]
           /\ qfin' = [qfin EXCEPT ![s] = @ \/ ok]
           /\ cap' = [cap EXCEPT ![s] = IF ok THEN @ - 1 ELSE @]
    /\ UNCHANGED <<admission, pendingVars, batch, granted, qlife, qhdr, qsent, blocked_set>>

\* SendDatagram: sent or not, its units come back and the reply goes out.
DispatchSendDatagram ==
    /\ Dispatch("datagram")
    /\ Release(Head(cmds).n, <<>>)
    /\ UNCHANGED <<pendingVars, quicheVars>>

-----------------------------------------------------------------------------
(* The rest of one iteration of run_event_loop. *)

\* Packets and timers follow the commands.  At most 1024 commands are taken per
\* iteration: any number may be left in the channel.
Receiving ==
    /\ phase \in {"cmds", "net"} /\ conn = "open"
    /\ phase' = "net"
    /\ UNCHANGED <<admission, cmds, inbox, jsVars, pendingVars>>

\* MAX_STREAM_DATA, MAX_DATA or an ACK makes room.
PeerCredit(s) ==
    /\ Receiving
    /\ Sendable(s) /\ granted[s] < MaxCredit
    /\ cap' = [cap EXCEPT ![s] = @ + 1]
    /\ granted' = [granted EXCEPT ![s] = @ + 1]
    /\ UNCHANGED <<conn, batch, qlife, qhdr, qsent, qfin, qtrailers, blocked_set>>

\* STOP_SENDING (poll_drain_events) and RESET_STREAM (poll_h3_events) both
\* report RESET and clear the stream's tracking; only the first ends our half.
PeerResets(s, op, to) ==
    /\ Receiving
    /\ op \in Ops /\ qlife[s] = "open"
    /\ qlife' = [qlife EXCEPT ![s] = to]
    /\ batch' = Append(batch, Event("RESET", s))
    /\ blocked_set' = blocked_set \ {s}
    /\ qtrailers' = [qtrailers EXCEPT ![s] = FALSE]
    /\ UNCHANGED <<conn, cap, granted, qhdr, qsent, qfin>>

PeerStops(s) == PeerResets(s, "stop", "stopped")
PeerResetsStream(s) == PeerResets(s, "reset", "reset")

\* The connection ends: by a packet, or by a timer, which reports it at once.
ConnCloses(to) ==
    /\ Receiving
    /\ "close" \in Ops
    /\ conn' = to
    /\ batch' = IF to = "expired" THEN Append(batch, SessionClose) ELSE batch
    /\ UNCHANGED quicheVars

\* Mutant: DRAIN is reported for transport capacity alone.
CollectDrainEvents_Unsuppressed ==
    /\ phase \in {"cmds", "net"}
    /\ phase' = "flush"
    /\ LET open == {s \in blocked_set : conn \in {"open", "closed"} /\ cap[s] > 0}
       IN  /\ blocked_set' = blocked_set \ open
           /\ batch' = batch \o SetToSeq({Event("DRAIN", s) : s \in open})
    /\ UNCHANGED <<admission, cmds, inbox, jsVars, conn, pendingVars, cap, granted, qlife,
                   qhdr, qsent, qfin, qtrailers>>

\* poll_app_events and collect_drain_events: streams that have capacity again
\* leave blocked_set; DRAIN is suppressed while a write is pending.
CollectDrainEvents ==
    /\ phase \in {"cmds", "net"}
    /\ phase' = "flush"
    /\ LET open == {s \in blocked_set : conn \in {"open", "closed"} /\ cap[s] > 0}
       IN  /\ blocked_set' = blocked_set \ open
           /\ batch' = batch \o
                SetToSeq({Event("DRAIN", s) : s \in {t \in open : ~HasPending(t)}})
    /\ UNCHANGED <<admission, cmds, inbox, jsVars, conn, pendingVars, cap, granted, qlife,
                   qhdr, qsent, qfin, qtrailers>>

\* What flush_all_pending_writes does to stream s: flush_one_h3_pending_response
\* or flush_one_h3_pending_write.
Flush(s) ==
    LET r == responses[s]
        p == IF r.some THEN r.body ELSE writes[s]
        first == r.some /\ ~r.headers_sent
        hdr == IF first THEN SendHeaders(s) ELSE "ok"
        h == IF first THEN 1 ELSE 0
        out == SendBody(s, p.bytes, p.fin, h)
        keep == [r |-> r, w |-> writes[s], hdr |-> FALSE, sent |-> 0, fin |-> FALSE,
                 cost |-> 0, units |-> 0, block |-> FALSE, events |-> <<>>, shut |-> FALSE]
        drop == [keep EXCEPT !.r = NoResponse, !.w = Nothing, !.units = QueuedUnits(s)]
        fail == [drop EXCEPT !.events = IF r.some THEN <<Event("ERROR", s)>> ELSE <<>>,
                             !.shut = r.some]
        rest == PendingWrite(p.bytes - out.written, p.fin)
    IN  IF ~HasPending(s) THEN keep
        ELSE IF conn = "gone" \/ qlife[s] = "closed" THEN drop
        ELSE IF hdr = "blocked" THEN keep
        ELSE IF hdr = "error" THEN fail
        ELSE IF r.some /\ ~p.some
             THEN [drop EXCEPT !.hdr = TRUE, !.fin = r.headers_fin, !.cost = 1,
                               !.events = <<Event("DRAIN", s)>>]
        ELSE IF ~out.ok THEN fail
        ELSE [hdr |-> first, sent |-> out.written, fin |-> out.fin, cost |-> out.cost,
              units |-> accepted_outbound_payload_units(p.bytes, p.fin, out.written, out.fin),
              r |-> IF r.some /\ out.rest
                    THEN [r EXCEPT !.headers_sent = TRUE, !.body = rest] ELSE NoResponse,
              w |-> IF ~r.some /\ out.rest THEN rest ELSE Nothing,
              block |-> out.rest, shut |-> FALSE,
              events |-> IF out.rest THEN <<>> ELSE <<Event("DRAIN", s)>>]

FlushAllPendingWrites ==
    /\ phase = "flush"
    /\ phase' = "reap"
    /\ LET f == [s \in StreamIds |-> Flush(s)]
       IN  /\ Release(SumFunction([s \in StreamIds |-> f[s].units]),
                      FlattenSeq([i \in 1..Cardinality(StreamIds) |->
                                    f[SetToSeq(StreamIds)[i]].events]))
           /\ writes' = [s \in StreamIds |-> f[s].w]
           /\ responses' = [s \in StreamIds |-> f[s].r]
           /\ qhdr' = [s \in StreamIds |-> qhdr[s] \/ f[s].hdr]
           /\ qsent' = [s \in StreamIds |-> qsent[s] + f[s].sent]
           /\ qfin' = [s \in StreamIds |-> qfin[s] \/ f[s].fin]
           /\ cap' = [s \in StreamIds |-> cap[s] - f[s].cost]
           /\ blocked_set' = {s \in StreamIds : ~f[s].shut /\ (s \in blocked_set \/ f[s].block)}
           /\ qlife' = [s \in StreamIds |-> IF f[s].shut THEN "closed" ELSE qlife[s]]
           /\ qtrailers' = [s \in StreamIds |-> qtrailers[s] /\ ~f[s].shut]
    /\ UNCHANGED <<cmds, inbox, jsVars, conn, granted>>

\* reap_closed_connections: RESET for every abandoned stream, their units back,
\* and SESSION_CLOSE unless the timer already reported it.  EventBatcher::flush
\* then hands the batch to JavaScript.
ReapAndEmit ==
    /\ phase = "reap"
    /\ phase' = "cmds"
    /\ batch' = <<>>
    /\ \/ /\ conn \in {"open", "gone"}
          /\ inbox' = inbox \o batch
          /\ UNCHANGED <<admission, conn, pendingVars, blocked_set>>
       \/ /\ conn \in {"closed", "expired"}
          /\ conn' = "gone"
          /\ LET units == SumFunction([s \in StreamIds |-> QueuedUnits(s)])
                 next == release_next(queued, units)
                 ready == units > 0 /\ release_emits_write_ready(next, pressured)
             IN  /\ queued' = next
                 /\ pressured' = (pressured /\ ~ready)
                 /\ inbox' = inbox \o batch
                       \o SetToSeq({Event("RESET", s) : s \in {t \in StreamIds : HasPending(t)}})
                       \o (IF ready THEN <<WriteReady>> ELSE <<>>)
                       \o (IF conn = "closed" THEN <<SessionClose>> ELSE <<>>)
          /\ writes' = [s \in StreamIds |-> Nothing]
          /\ responses' = [s \in StreamIds |-> NoResponse]
          /\ blocked_set' = {}
    /\ UNCHANGED <<cmds, jsVars, cap, granted, qlife, qhdr, qsent, qfin, qtrailers>>

-----------------------------------------------------------------------------
Application(s) ==
    \/ \E e \in BOOLEAN : Respond(s, e)
    \/ \E n \in Sizes : Write(s, n) \/ End(s, n) \/ RespondWithBody(s, n)
    \/ SendTrailers(s)
    \/ Destroy(s)
    \/ AutoDestroy(s)

DispatchEvent ==
    \/ OnStale \/ OnWriteReady \/ OnSessionClose
    \/ \E s \in StreamIds : \/ OnStreamBlocked(s) \/ OnDrain(s)
                          \/ OnNativeWriteReady(s) \/ OnResetOrError(s)

WorkerStep ==
    \/ DispatchSendResponseHeaders \/ DispatchSendResponse \/ DispatchStreamSend
    \/ DispatchStreamClose \/ DispatchSendTrailers \/ DispatchSendDatagram
    \/ CollectDrainEvents \/ FlushAllPendingWrites \/ ReapAndEmit

Network ==
    \/ \E s \in StreamIds : PeerCredit(s) \/ PeerStops(s) \/ PeerResetsStream(s)
    \/ \E to \in {"closed", "expired"} : ConnCloses(to)

Next ==
    \/ \E s \in StreamIds : Application(s)
    \/ \E n \in Sizes : SendDatagram(n)
    \/ DispatchEvent
    \/ WorkerStep
    \/ Network

\* The worker and the JavaScript thread keep running, no command starves in the
\* channel, and the peer goes on reading: its credit arrives.
Fairness ==
    /\ WF_vars(DispatchEvent)
    /\ WF_vars(WorkerStep)
    /\ SF_vars(cmds # <<>> /\ WorkerStep /\ cmds' = Tail(cmds))
    /\ \A s \in StreamIds : SF_vars(PeerCredit(s))

SafeSpec == Init /\ [][Next]_vars
Spec == SafeSpec /\ Fairness

-----------------------------------------------------------------------------
(* Properties. *)

Events == [type : {"STREAM_BLOCKED", "DRAIN", "RETRY", "RESET", "ERROR"}, s : StreamIds]
          \cup {WriteReady, SessionClose}
Commands == [op : {"headers", "send", "response", "trailers", "close"},
             s : StreamIds, n : Nat, fin : BOOLEAN]
            \cup [op : {"datagram"}, s : {NoStreamId}, n : Nat, fin : {FALSE}]
PendingWrites == [bytes : Nat, fin : BOOLEAN, some : BOOLEAN]

\* Every field of the two threads and of quiche keeps its type; in particular
\* no capacity is ever overdrawn.
TypeOK ==
    /\ setup \in Setups /\ queued \in Nat /\ pressured \in BOOLEAN
    /\ cmds \in Seq(Commands) /\ inbox \in Seq(Events) /\ batch \in Seq(Events)
    /\ life \in [StreamIds -> {"open", "gone"}]
    /\ headersSent \in [StreamIds -> BOOLEAN] /\ finSent \in [StreamIds -> BOOLEAN]
    /\ blocked \in [StreamIds -> BOOLEAN] /\ closeSent \in [StreamIds -> BOOLEAN]
    /\ parked \in [StreamIds -> PendingWrites] /\ todo \in [StreamIds -> 0..MaxBody]
    /\ phase \in {"cmds", "net", "flush", "reap"}
    /\ conn \in {"open", "closed", "expired", "gone"}
    /\ writes \in [StreamIds -> PendingWrites]
    /\ responses \in [StreamIds -> [some : BOOLEAN, headers_sent : BOOLEAN,
                                  headers_fin : BOOLEAN, body : PendingWrites]]
    /\ cap \in [StreamIds -> 0..MaxCredit] /\ granted \in [StreamIds -> 0..MaxCredit]
    /\ qlife \in [StreamIds -> {"open", "reset", "stopped", "closed"}]
    /\ qhdr \in [StreamIds -> BOOLEAN] /\ qfin \in [StreamIds -> BOOLEAN]
    /\ qtrailers \in [StreamIds -> BOOLEAN] /\ qsent \in [StreamIds -> Nat]
    /\ datagrams \in 0..MaxDatagrams
    /\ blocked_set \subseteq StreamIds /\ accepted \in [StreamIds -> Nat]

\* Neither JavaScript nor the peer has given the stream up.
Alive(s) == conn = "open" /\ qlife[s] = "open" /\ ~closeSent[s]

CommandUnits(c) ==
    IF c.op \in {"send", "response", "datagram"} THEN outbound_payload_units(c.n, c.fin) ELSE 0

\* Units of payload really sitting in the channel or in native pending writes.
Outstanding == SumFunction([i \in DOMAIN cmds |-> CommandUnits(cmds[i])])
               + SumFunction([s \in StreamIds |-> QueuedUnits(s)])

\* "This bounds bytes sitting in the Rust command channel or native pending
\* writes" (outbound_admission.rs): whatever commands, closes, errors and flushes
\* interleave, the counter never falls below what is there, and it counts nothing
\* else but the unit of a FIN that a plain end() sent alone, at most one for each
\* stream (merged into a pending write such a unit is never released).
WindowTight ==
    /\ Outstanding <= queued
    /\ queued <= Outstanding + IF 0 \in Finals THEN Cardinality({s \in StreamIds : finSent[s]}) ELSE 0

SumOf(s, field(_)) == SumFunction([i \in DOMAIN cmds |-> IF cmds[i].s = s THEN field(cmds[i]) ELSE 0])

\* A byte JavaScript was told is written is with quiche, in the channel or in a
\* pending write, exactly once, as long as nobody gave the stream up and no trailers
\* are out.  (A pending write that trailers have overtaken fails at its next flush and
\* is dropped.)
NoByteLost ==
    \A s \in StreamIds : Alive(s) /\ ~qtrailers[s] =>
        accepted[s] = qsent[s] + writes[s].bytes + responses[s].body.bytes
                      + SumOf(s, LAMBDA c : c.n)

\* Once ServerHttp3Stream has set _finSent, the FIN is with quiche or still on
\* its way there, whether it ends with a last chunk, with a plain end() or as a whole
\* response: the peer is not left waiting for the end of a response that JavaScript
\* considers sent.  (Trailers that quiche refuses are only logged, so
\* nothing is claimed where the application uses them.)
FinOwed ==
    "trailers" \notin Ops => \A s \in StreamIds : Alive(s) /\ finSent[s] =>
        \/ qfin[s] \/ parked[s].fin \/ writes[s].fin
        \/ responses[s].body.fin \/ responses[s].headers_fin
        \/ \E i \in DOMAIN cmds : cmds[i].s = s /\ (cmds[i].fin \/ cmds[i].op = "trailers")

\* quiche has the FIN of a stream without trailers only when it has the whole body:
\* nothing that JavaScript wrote earlier comes after it or is missing.  (Trailers go
\* to quiche past a pending write and carry FIN: once another stream has freed room
\* they overtake the rest of the body.)
FinMeansComplete ==
    \A s \in StreamIds : Alive(s) /\ qfin[s] /\ ~qtrailers[s] => qsent[s] = accepted[s]

Coming(e) == e \in Range(inbox) \/ e \in Range(batch)

\* No lost wake-up end to end: a parked write callback always has something
\* that will run it again.  A stream that believes it is blocked has native
\* data whose flush reports DRAIN, or an event on the way; one that was refused
\* admission has pressure recorded and units still to be released.
ParkedHasWaker ==
    \A s \in StreamIds : parked[s].some =>
        \/ \E t \in {"DRAIN", "RESET", "ERROR"} : Coming(Event(t, s))
        \/ Coming(SessionClose)
        \/ IF blocked[s] THEN HasPending(s)
           ELSE \/ Coming(WriteReady) \/ Coming(Event("RETRY", s))
                \/ Coming(Event("STREAM_BLOCKED", s)) /\ HasPending(s)
                \/ pressured /\ Outstanding > 0

\* "Transport capacity is not an application drain while the handler still owns
\* a pending write" (worker.rs, suppress_pending_drains): the batch handed to
\* JavaScript announces DRAIN only for streams whose retained queue is empty.
DrainMeansFlushed ==
    phase = "reap" =>
        \A s \in StreamIds : Event("DRAIN", s) \in Range(batch) => ~HasPending(s)

\* A parked write is eventually tried again with success or rejected, and an ended
\* response reaches quiche completely unless someone gives it up, as long as the
\* peer keeps granting credit: this is what must not last.
Waits ==
    \E s \in StreamIds : parked[s].some \/ (finSent[s] /\ ~qfin[s] /\ Alive(s))
=============================================================================
