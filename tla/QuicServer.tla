----------------------------- MODULE QuicServer -----------------------------
(***************************************************************************)
(* The raw QUIC server: QuicServer and its sessions in JavaScript          *)
(* (quic-server.ts), QuicServerHandle, and its SO_REUSEPORT workers, each  *)
(* run_event_loop over a QuicServerHandler with a QuicConnectionMap, a map *)
(* of pending writes keyed by slab slot and stream, and an admission       *)
(* window of its own.                                                      *)
(*                                                                         *)
(* A connection has a number (ghost) that tells it from the later ones in  *)
(* the same slot.  A connection ID is <<peer, k>>: k = 0 is the one the    *)
(* client chose for its first Initial, the others come from the server.    *)
(***************************************************************************)
EXTENDS QuicConnection, QuicStreams, TLC

CONSTANT Setups
(***************************************************************************)
(* workers   number of workers; span: handles of one (1 << WORKER_SHIFT)   *)
(* max       max_connections of a worker, at most span                     *)
(* home      the peers' workers (the kernel's choice by 4-tuple)           *)
(* retry     ~disable_retry;  cert: require_client_cert                    *)
(* sessions  bound on connections ever accepted                            *)
(* scids     bound on connection IDs issued for a peer                     *)
(* streams   stream ids; odd ones are opened by the server                 *)
(* chunks, finals, body, credit, reads, budgets, ops   as in QuicClients   *)
(***************************************************************************)

AllWorkers == 0 .. Max({u.workers : u \in Setups}) - 1
AllPeers == {x : x \in UNION {DOMAIN u.home : u \in Setups}}
AllIds == 1 .. Max({u.sessions : u \in Setups})
AllStreams == {x : x \in UNION {u.streams : u \in Setups}}
Sizes == {x : x \in UNION {u.chunks \cup u.finals : u \in Setups}}

VARIABLES
    setup,
    srv,       \* per worker: its QuicServerHandler, window, batch and phase
    cmds,      \* per worker: the command channel
    inbox,     \* events handed to JavaScript
    sessions,  \* _sessions: handle -> session or 0
    js,        \* per session: `up' and its QuicStreams
    server,    \* "running", "closing" or "closed"
    issued,    \* per peer: connection IDs generated so far
    tokens,    \* per peer: connection IDs that came with a Retry token
    accepted,  \* connections accepted so far
    net        \* per session and stream: what the peer has left to send

vars == <<setup, srv, cmds, inbox, sessions, js, server, issued, tokens, accepted, net>>
jsVars == <<inbox, sessions, js, server>>
peers == <<issued, tokens, accepted, net>>

Workers == 0..setup.workers - 1
Slots == 0..setup.span - 1
Streams == setup.streams
Ids == 1..setup.sessions
Peers == DOMAIN setup.home

\* server_sharding.rs
handle_offset(w) == w * setup.span
worker_index(h) == h \div setup.span
local_conn_handle(h) == h % setup.span
Handles == 0..setup.workers * setup.span - 1

Vacant == [id |-> 0]

\* QuicConnection as accept_new makes it, beside it what the worker keeps for
\* the slot: whether the timer heap has a deadline.
Accepted(id, peer, cids, timer) ==
    [id |-> id, peer |-> peer, cids |-> cids, timer |-> timer,
     is_established |-> FALSE, handshake_complete_emitted |-> FALSE,
     q |-> NewConnection(Streams, {s \in Streams : s % 2 = 1}, 0)]

Handler(w) ==
    [handle_offset |-> handle_offset(w), conns |-> [h \in Slots |-> Vacant], free |-> [i \in 1..setup.span |-> i - 1],
     by_dcid |-> << >>, pending_writes |-> [k \in Slots \X Streams |-> Nothing],
     last_expired |-> {}, queued |-> 0, pressured |-> FALSE, batch |-> <<>>, pc |-> "commands"]

Init ==
    /\ setup \in Setups
    /\ srv = [w \in Workers |-> Handler(w)]
    /\ cmds = [w \in Workers |-> <<>>]
    /\ inbox = <<>> /\ sessions = [h \in Handles |-> 0] /\ server = "running"
    /\ js = [i \in Ids |-> [up |-> "none", h |-> 0, closing |-> FALSE,
                            streams |-> [s \in Streams |-> QuicStream("none", setup.body)]]]
    /\ issued = [p \in Peers |-> 0] /\ tokens = [p \in Peers |-> {}] /\ accepted = 0
    /\ net = [i \in Ids |-> [s \in Streams |-> [credit |-> setup.credit, reads |-> setup.reads]]]

\* An event for JavaScript: `owner' is the connection it is about (ghost).
Stamped(e, h, owner) ==
    [type |-> e.type, s |-> e.s, n |-> e.n, fin |-> e.fin, h |-> h, owner |-> owner]
Stamp(events, h, owner) == [i \in DOMAIN events |-> Stamped(events[i], h, owner)]
SessionEvent(type, h, owner) == Stamped(Event(type, 0), h, owner)
ShutdownComplete == SessionEvent("SHUTDOWN_COMPLETE", 0, 0)

global_handle(f, h) == f.handle_offset + h
Live(f) == {h \in Slots : f.conns[h] # Vacant}
Becomes(w, f) == srv' = [srv EXCEPT ![w] = f]

-----------------------------------------------------------------------------
(* JavaScript: QuicStream, QuicServerSession and QuicServer. *)

Stream(i, s) == js[i].streams[s]

Command(op, i, s, n, fin) ==
    [op |-> op, slot |-> local_conn_handle(js[i].h), id |-> i, s |-> s, n |-> n, fin |-> fin]

\* QuicServerHandle::send_command: the handle's upper bits choose the worker,
\* whose channel refuses once its loop has returned.
send_command(cmd, i) ==
    LET w == worker_index(js[i].h)
    IN  cmds' = IF srv[w].pc = "stopped" THEN cmds ELSE [cmds EXCEPT ![w] = Append(@, cmd)]

\* try_admit_outbound on the window of the handle's worker, then the command;
\* a refused command gives its units back and counts as backpressure.
StreamSend(i, s, n, fin, st) ==
    LET w == worker_index(js[i].h)
        out == Offer(st, srv[w].queued, n, fin)
    IN  IF srv[w].pc = "stopped"
        THEN js' = [js EXCEPT ![i].streams[s] = [st EXCEPT !.parked = PendingWrite(n, fin)]]
             /\ UNCHANGED <<srv, cmds>>
        ELSE /\ srv' = [srv EXCEPT ![w].queued = out.queued, ![w].pressured = @ \/ out.refused]
             /\ IF out.admitted THEN send_command(Command("send", i, s, n, fin), i) ELSE UNCHANGED cmds
             /\ js' = [js EXCEPT ![i].streams[s] = out.st]

Write(i, s, n) ==
    /\ CanWrite(Stream(i, s))
    /\ n \in setup.chunks /\ n <= Stream(i, s).todo
    /\ StreamSend(i, s, n, FALSE, [Stream(i, s) EXCEPT !.todo = @ - n])
    /\ UNCHANGED <<setup, inbox, sessions, server, peers>>

End(i, s, n) ==
    /\ CanWrite(Stream(i, s))
    /\ n \in setup.finals /\ (n > 0 => n <= Stream(i, s).todo)
    /\ StreamSend(i, s, n, TRUE, [Stream(i, s) EXCEPT !.fin = TRUE])
    /\ UNCHANGED <<setup, inbox, sessions, server, peers>>

\* openStream(): the id is chosen here, the worker learns of it from the first
\* command.
OpenStream(i, s) ==
    /\ js[i].up = "open" /\ s % 2 = 1 /\ Stream(i, s).st = "none"
    /\ js' = [js EXCEPT ![i].streams[s].st = "open"]
    /\ UNCHANGED <<setup, srv, cmds, inbox, sessions, server, peers>>

CloseTransport(i, s) ==
    IF js[i].up = "open" THEN send_command(Command("close", i, s, 0, FALSE), i) ELSE UNCHANGED cmds

Destroy(i, s) ==
    /\ "destroy" \in setup.ops /\ Stream(i, s).st = "open"
    /\ CloseTransport(i, s)
    /\ js' = [js EXCEPT ![i].streams[s] = Destroyed(@)]
    /\ UNCHANGED <<setup, srv, inbox, sessions, server, peers>>

\* sendDatagram(): the caller waits for the worker's answer, two seconds at most.
\* Bound: none is sent while another, or a WRITE_READY, is under way.
SendDatagram(i, n) ==
    /\ "datagram" \in setup.ops /\ js[i].up = "open" /\ n \in setup.chunks
    /\ LET w == worker_index(js[i].h)
           admitted == admit_next(srv[w].queued, n)
       IN  /\ \A k \in DOMAIN cmds[w] : cmds[w][k].op # "datagram"
           /\ \A e \in Range(inbox \o srv[w].batch) : e.type # "WRITE_READY"
           /\ srv[w].pc # "stopped"
           /\ srv' = [srv EXCEPT ![w].queued = IF admitted THEN @ + n ELSE @,
                                 ![w].pressured = @ \/ ~admitted]
           /\ IF admitted THEN send_command(Command("datagram", i, 0, n, FALSE), i) ELSE UNCHANGED cmds
    /\ UNCHANGED <<setup, jsVars, peers>>

\* session.close(): only a command; the session stays until SESSION_CLOSE.
CloseSession(i) ==
    /\ "close" \in setup.ops /\ js[i].up = "open" /\ ~js[i].closing
    /\ js' = [js EXCEPT ![i].closing = TRUE]
    /\ send_command(Command("end", i, 0, 0, FALSE), i)
    /\ UNCHANGED <<setup, srv, inbox, sessions, server, peers>>

\* _cleanup
Cleaned(j) == [j EXCEPT !.up = "closed",
                        !.streams = [s \in Streams |-> IF j.streams[s].st = "open"
                                                       THEN Destroyed(j.streams[s]) ELSE j.streams[s]]]

\* QuicServer.close(): sessions are cleaned up and forgotten, then
\* QuicServerHandle::request_shutdown.
CloseServer ==
    /\ "server" \in setup.ops /\ server = "running"
    /\ server' = "closing"
    /\ js' = [i \in Ids |-> IF i \in Range(sessions) THEN Cleaned(js[i]) ELSE js[i]]
    /\ sessions' = [h \in Handles |-> 0]
    /\ cmds' = [w \in Workers |-> Append(cmds[w],
                   [op |-> "shutdown", slot |-> 0, id |-> 0, s |-> 0, n |-> 0, fin |-> FALSE])]
    /\ UNCHANGED <<setup, srv, inbox, peers>>

\* _dispatchEvents, one event.
Delivers(types) ==
    /\ inbox # <<>> /\ Head(inbox).type \in types
    /\ inbox' = Tail(inbox)
    /\ UNCHANGED <<setup, peers>>

Target == sessions[Head(inbox).h]

\* _onNewSession answers only while the server has its loop; 'session' is
\* emitted at the handshake.
OnNewSession ==
    /\ Delivers({"NEW_SESSION"})
    /\ LET e == Head(inbox)
       IN  IF server = "running"
           THEN /\ sessions' = [sessions EXCEPT ![e.h] = e.owner]
                /\ js' = [js EXCEPT ![e.owner].up = "new", ![e.owner].h = e.h]
           ELSE UNCHANGED <<sessions, js>>
    /\ UNCHANGED <<srv, cmds, server>>

OnHandshakeComplete ==
    /\ Delivers({"HANDSHAKE_COMPLETE"})
    /\ js' = IF Target = 0 THEN js ELSE [js EXCEPT ![Target].up = "open"]
    /\ UNCHANGED <<srv, cmds, sessions, server>>

\* _onNewStream and _onData: _getOrCreateStream.
OnData ==
    /\ Delivers({"NEW_STREAM", "DATA"})
    /\ LET e == Head(inbox)
           st == Stream(Target, e.s)
       IN  js' = IF Target = 0 THEN js
                 ELSE [js EXCEPT ![Target].streams[e.s] =
                         Received(IF st.st = "open" THEN st ELSE [QuicStream("open", 0) EXCEPT
                                    !.todo = IF e.type = "NEW_STREAM" THEN st.todo ELSE 0], e)]
    /\ UNCHANGED <<srv, cmds, sessions, server>>

Finds(e) == Target # 0 /\ Stream(Target, e.s).st = "open"

OnFinished ==
    /\ Delivers({"FINISHED"})
    /\ LET e == Head(inbox)
       IN  js' = IF Finds(e) THEN [js EXCEPT ![Target].streams[e.s] = Received(@, e)] ELSE js
    /\ UNCHANGED <<srv, cmds, sessions, server>>

OnResetOrError ==
    /\ Delivers({"RESET", "ERROR"})
    /\ LET e == Head(inbox)
       IN  IF Finds(e)
           THEN /\ js' = [js EXCEPT ![Target].streams[e.s] = Destroyed(@)]
                /\ CloseTransport(Target, e.s)
           ELSE UNCHANGED <<js, cmds>>
    /\ UNCHANGED <<srv, sessions, server>>

OnStreamBlocked ==
    /\ Delivers({"STREAM_BLOCKED"})
    /\ LET e == Head(inbox)
       IN  js' = IF Finds(e) THEN [js EXCEPT ![Target].streams[e.s].blocked = TRUE] ELSE js
    /\ UNCHANGED <<srv, cmds, sessions, server>>

\* fireDrainCallbacks
Retry(i, s, st) ==
    IF st.parked.some THEN StreamSend(i, s, st.parked.bytes, st.parked.fin, st)
    ELSE js' = [js EXCEPT ![i].streams[s] = st] /\ UNCHANGED <<srv, cmds>>

OnDrain ==
    /\ Delivers({"DRAIN", "RETRY"})
    /\ LET e == Head(inbox)
       IN  IF Finds(e)
           THEN Retry(Target, e.s, IF e.type = "RETRY" THEN Stream(Target, e.s)
                                   ELSE [Stream(Target, e.s) EXCEPT !.blocked = FALSE])
           ELSE UNCHANGED <<js, srv, cmds>>
    /\ UNCHANGED <<sessions, server>>

Parked == {k \in Ids \X Streams : Stream(k[1], k[2]).parked.some}

\* WRITE_READY names no session: every parked stream of the server retries, one
\* step each ("RETRY" is not a native event).
OnWriteReady ==
    /\ inbox # <<>> /\ Head(inbox).type = "WRITE_READY"
    /\ inbox' = SetToSeq({Stamped(Event("RETRY", k[2]), js[k[1]].h, k[1]) : k \in Parked}) \o Tail(inbox)
    /\ UNCHANGED <<setup, srv, cmds, sessions, js, server, peers>>

OnSessionClose ==
    /\ Delivers({"SESSION_CLOSE"})
    /\ IF Target = 0 THEN UNCHANGED <<js, sessions>>
       ELSE /\ js' = [js EXCEPT ![Target] = Cleaned(@)]
            /\ sessions' = [sessions EXCEPT ![Head(inbox).h] = 0]
    /\ UNCHANGED <<srv, cmds, server>>

\* The first sentinel resolves close(); a worker that failed sends one too.
OnShutdownComplete ==
    /\ Delivers({"SHUTDOWN_COMPLETE"})
    /\ server' = IF server = "closing" THEN "closed" ELSE server
    /\ UNCHANGED <<srv, cmds, sessions, js>>

-----------------------------------------------------------------------------
(* The worker: commands. *)

\* release_outbound_admission: WRITE_READY for the whole server.
release_outbound_admission(f, units) ==
    LET out == Freed(f.queued, f.pressured, units)
    IN  [f EXCEPT !.queued = out.queued, !.pressured = @ /\ ~out.ready,
                  !.batch = IF out.ready THEN Append(@, SessionEvent("WRITE_READY", 0, 0)) ELSE @]

\* The command at the head, taken by worker w.
Takes(w, op) ==
    /\ srv[w].pc = "commands" /\ cmds[w] # <<>> /\ Head(cmds[w]).op = op
    /\ cmds' = [cmds EXCEPT ![w] = Tail(@)]
    /\ UNCHANGED <<setup, jsVars, peers>>

\* StreamSend.  STREAM_BLOCKED and ERROR carry the handle as the command
\* brought it: remap_command_handle has taken the worker's bits off.
DispatchStreamSend(w) ==
    /\ Takes(w, "send")
    /\ \E c \in {Head(cmds[w])}, f \in {srv[w]} :
        IF f.conns[c.slot] = Vacant
        THEN Becomes(w, release_outbound_admission(f, outbound_payload_units(c.n, c.fin)))
        ELSE \E out \in {queue_stream_send(f.conns[c.slot].q, f.pending_writes[<<c.slot, c.s>>],
                                           c.s, c.n, c.fin)} :
             \E g \in {release_outbound_admission(f, out.units)} :
                Becomes(w,
                    [g EXCEPT !.conns[c.slot].q = out.c, !.pending_writes[<<c.slot, c.s>>] = out.w,
                              !.batch = @ \o Stamp(out.events, c.slot, f.conns[c.slot].id)])

\* StreamClose: RESET, with the local handle, for a write that had units left.
DispatchStreamClose(w) ==
    /\ Takes(w, "close")
    /\ \E c \in {Head(cmds[w])}, f \in {srv[w]} :
        IF f.conns[c.slot] = Vacant THEN Becomes(w, f)
        ELSE \E units \in {queued_units(f.pending_writes[<<c.slot, c.s>>])} :
             \E g \in {release_outbound_admission(f, units)} :
                Becomes(w,
                    [g EXCEPT !.conns[c.slot].q = stream_close(@, c.s),
                              !.pending_writes[<<c.slot, c.s>>] = Nothing,
                              !.batch = IF units > 0
                                  THEN Append(@, Stamped(Event("RESET", c.s), c.slot, f.conns[c.slot].id))
                                  ELSE @])

\* SendDatagram: queue_datagram, or not; its units come back at once.
DispatchSendDatagram(w) ==
    /\ Takes(w, "datagram")
    /\ Becomes(w, release_outbound_admission(srv[w], Head(cmds[w]).n))

\* quiche's close(): refused once closing; CONNECTION_CLOSE leaves with the
\* next flush_sends and the draining period begins.
Drained(q) == [q EXCEPT !.life = IF @ = "open" THEN "draining" ELSE @]

DispatchCloseSession(w) ==
    /\ Takes(w, "end")
    /\ \E c \in {Head(cmds[w])}, f \in {srv[w]} :
        Becomes(w, IF f.conns[c.slot] = Vacant THEN f
                             ELSE [f EXCEPT !.conns[c.slot].q = Drained(@)])

\* Shutdown: every connection is closed, the CONNECTION_CLOSEs leave, and the
\* loop delivers its batch with the sentinel and returns.
DispatchShutdown(w) ==
    /\ srv[w].pc = "commands" /\ cmds[w] # <<>> /\ Head(cmds[w]).op = "shutdown"
    /\ inbox' = inbox \o srv[w].batch \o <<ShutdownComplete>>
    /\ srv' = [srv EXCEPT ![w] = [Handler(w) EXCEPT !.pc = "stopped"]]
    /\ cmds' = [cmds EXCEPT ![w] = <<>>]
    /\ UNCHANGED <<setup, sessions, js, server, peers>>

EndCommands(w) ==
    /\ srv[w].pc = "commands" /\ cmds[w] = <<>>
    /\ Becomes(w, [srv[w] EXCEPT !.pc = "rx"])
    /\ UNCHANGED <<setup, cmds, jsVars, peers>>

-----------------------------------------------------------------------------
(* The worker: packets (process_packet with app_event_budget 0). *)

Receives(w, p) == srv[w].pc = "rx" /\ setup.home[p] = w

\* An Initial without token whose connection ID routes nowhere is answered with
\* a Retry: a fresh connection ID and a token that names the first one.
SendRetry(w, p) ==
    /\ Receives(w, p) /\ setup.retry /\ issued[p] < setup.scids
    /\ <<p, 0>> \notin DOMAIN srv[w].by_dcid
    /\ issued' = [issued EXCEPT ![p] = @ + 1]
    /\ tokens' = [tokens EXCEPT ![p] = @ \cup {issued[p] + 1}]
    /\ UNCHANGED <<setup, srv, cmds, jsVars, accepted, net>>

\* accept_new: the slab's next free slot and a route.
accept_new(f, conn) ==
    [f EXCEPT !.conns[Head(f.free)] = conn, !.free = Tail(@),
              !.by_dcid = [c \in conn.cids |-> Head(f.free)] @@ @]

\* An Initial that is accepted: without Retry under a fresh connection ID, else
\* under the one its valid token came with; the client's first ID routes too.
\* When quiche rejects the packet that brought the connection, process_packet
\* returns before set_deadline.
Accept(w, p, k) ==
    /\ Receives(w, p) /\ accepted < setup.sessions
    /\ Cardinality(Live(srv[w])) < setup.max
    /\ IF setup.retry THEN k \in tokens[p] /\ UNCHANGED issued
       ELSE /\ k = issued[p] + 1 /\ k <= setup.scids /\ <<p, 0>> \notin DOMAIN srv[w].by_dcid
            /\ issued' = [issued EXCEPT ![p] = k]
    /\ <<p, k>> \notin DOMAIN srv[w].by_dcid
    /\ accepted' = accepted + 1
    /\ \E received \in BOOLEAN :
         /\ received \/ "garbled" \in setup.ops
         /\ LET f == accept_new(srv[w], Accepted(accepted', p, {<<p, 0>>, <<p, k>>}, received))
            IN  Becomes(w, [f EXCEPT !.batch = Append(@, SessionEvent("NEW_SESSION",
                               global_handle(srv[w], Head(srv[w].free)), accepted'))])
    /\ UNCHANGED <<setup, cmds, jsVars, tokens, net>>

\* top_up_server_scids: an established connection is kept at two connection
\* IDs, not counting the client's own.
top_up_server_scids(f, h, k) ==
    IF f.conns[h].is_established /\ Cardinality(f.conns[h].cids \ {<<f.conns[h].peer, 0>>}) < 2 /\ k <= setup.scids
    THEN [f |-> [f EXCEPT !.conns[h].cids = @ \cup {<<f.conns[h].peer, k>>},
                          !.by_dcid = (<<f.conns[h].peer, k>> :> h) @@ @],
          issued |-> k]
    ELSE [f |-> f, issued |-> k - 1]

\* The rest of process_packet: the connection after recv is polled with no
\* budget, loses the routes it retired, gets a spare one and its deadline.
Routed(w, h, conn, events, retired) ==
    \E polled \in {poll_quic_events(conn.q, 0)} :
    \E topped \in {top_up_server_scids([srv[w] EXCEPT
                       !.conns[h] = [conn EXCEPT !.q = polled.c, !.timer = TRUE, !.cids = @ \ retired],
                       !.by_dcid = Restrict(@, DOMAIN @ \ retired),
                       !.batch = @ \o Stamp(events \o polled.events, global_handle(srv[w], h), conn.id)],
                       h, issued[conn.peer] + 1)} :
        /\ Becomes(w, topped.f)
        /\ issued' = [issued EXCEPT ![conn.peer] = topped.issued]
        /\ UNCHANGED <<setup, cmds, jsVars, tokens, accepted>>

\* Some connection ID of peer p routes to slot h.
RouteTo(w, p, h) ==
    /\ Receives(w, p)
    /\ \E k \in 0..setup.scids : <<p, k>> \in DOMAIN srv[w].by_dcid /\ srv[w].by_dcid[<<p, k>>] = h
    /\ srv[w].conns[h].q.life = "open"

\* The handshake completes, or the required certificate is missing.
HandshakeArrives(w, p, h) ==
    /\ RouteTo(w, p, h) /\ ~srv[w].conns[h].is_established
    /\ LET conn == [srv[w].conns[h] EXCEPT !.is_established = TRUE]
       IN  \/ Routed(w, h, [conn EXCEPT !.handshake_complete_emitted = TRUE],
                     <<Event("HANDSHAKE_COMPLETE", 0)>>, {})
           \/ setup.cert /\ Routed(w, h, [conn EXCEPT !.q = Drained(@)], <<>>, {})
    /\ UNCHANGED net

\* The peer retires a connection ID (never its last).
RetireArrives(w, p, h, k) ==
    /\ RouteTo(w, p, h) /\ "retire" \in setup.ops
    /\ <<p, k>> \in srv[w].conns[h].cids \ {<<p, 0>>}
    /\ Cardinality(srv[w].conns[h].cids \ {<<p, 0>>}) > 1
    /\ Routed(w, h, srv[w].conns[h], <<>>, {<<p, k>>})
    /\ UNCHANGED net

\* A packet of an established connection: flow-control credit for a stream.
CreditArrives(w, p, h, s) ==
    /\ RouteTo(w, p, h) /\ srv[w].conns[h].handshake_complete_emitted
    /\ LET conn == srv[w].conns[h]
       IN  /\ net[conn.id][s].credit > 0
           /\ Routed(w, h, [conn EXCEPT !.q = PeerCredit(@, s)], <<>>, {})
           /\ net' = [net EXCEPT ![conn.id][s].credit = @ - 1]

\* Data, FIN, RESET_STREAM or STOP_SENDING for a stream the peer knows.
StreamArrives(w, p, h, s) ==
    /\ RouteTo(w, p, h) /\ srv[w].conns[h].handshake_complete_emitted
    /\ LET conn == srv[w].conns[h]
           q == conn.q
           known == s % 2 = 0 \/ q.sent[s] > 0 \/ s \in q.fins
           open == known /\ s \notin q.fin \cup q.rst
           Arrives(next) == Routed(w, h, [conn EXCEPT !.q = next], <<>>, {})
       IN  \/ /\ open /\ net[conn.id][s].reads > 0
              /\ Arrives(PeerData(q, s))
              /\ net' = [net EXCEPT ![conn.id][s].reads = @ - 1]
           \/ /\ \/ open /\ setup.reads > 0 /\ Arrives(PeerFin(q, s))
                 \/ open /\ "reset" \in setup.ops /\ Arrives(PeerResets(q, s))
                 \/ known /\ s \notin q.stopped /\ "stop" \in setup.ops /\ Arrives(PeerStops(q, s))
              /\ UNCHANGED net

CloseArrives(w, p, h) ==
    /\ RouteTo(w, p, h) /\ "peerclose" \in setup.ops
    /\ Routed(w, h, [srv[w].conns[h] EXCEPT !.q = Drained(@)], <<>>, {})
    /\ UNCHANGED net

-----------------------------------------------------------------------------
(* The worker: timers, polls, flush and reaping. *)

\* g(f, h) for the slots in order.
EachSlot(g(_, _), f, slots) == FoldLeft(g, f, SetToSortSeq(slots, <))

Polled(f, h, out) ==
    [f EXCEPT !.conns[h].q = out.c,
              !.batch = @ \o Stamp(out.events, global_handle(f, h), f.conns[h].id)]

\* on_timeout of an expired connection: the end of the draining period or an
\* idle timeout closes it and SESSION_CLOSE goes out; any other timer polls.
ExpireOne(f, h, closes, budget) ==
    IF h \in closes
    THEN [f EXCEPT !.conns[h].q.life = "closed", !.conns[h].timer = FALSE,
                   !.batch = Append(@, SessionEvent("SESSION_CLOSE", global_handle(f, h), f.conns[h].id))]
    ELSE Polled(f, h, poll_quic_events(f.conns[h].q, budget))

Sweep(f, budget) ==
    EachSlot(LAMBDA g, h : Polled(g, h, sweep_finished_streams(g.conns[h].q, budget)), f, Live(f))

\* expire_timers: the expired connections, then late FINs of all.
expire_timers(w, due, closes, budget) ==
    LET f == srv[w]
    IN  /\ f.pc = "rx"
        /\ due \subseteq {h \in Live(f) : f.conns[h].timer} /\ closes \subseteq due
        /\ \A h \in closes : f.conns[h].q.life \in {"draining"} \cup (IF "idle" \in setup.ops THEN {"open"} ELSE {})
        /\ Becomes(w, [Sweep(EachSlot(LAMBDA g, h : ExpireOne(g, h, closes, budget), f, due), budget)
                         EXCEPT !.last_expired = due, !.pc = "poll"])
        /\ UNCHANGED <<setup, cmds, jsVars, peers>>

\* collect_app_events: the connections in turn share the budget.
PollOne(f, h, limit) ==
    LET left == limit - Len(f.batch)
    IN  IF left > 0 THEN Polled(f, h, poll_quic_events(f.conns[h].q, left)) ELSE f

\* collect_drain_events: late FINs again, and the blocked streams of those
\* connections that no timer has polled in this iteration.
DrainOne(f, h, budget) ==
    LET g == Polled(f, h, sweep_finished_streams(f.conns[h].q, budget))
    IN  IF h \in f.last_expired THEN g ELSE Polled(g, h, poll_drain_events(g.conns[h].q))

Poll(w, budget) ==
    /\ srv[w].pc = "poll"
    /\ \E f \in {EachSlot(LAMBDA g, h : PollOne(g, h, Len(srv[w].batch) + budget), srv[w], Live(srv[w]))} :
         Becomes(w, [EachSlot(LAMBDA g, h : DrainOne(g, h, budget), f, Live(f)) EXCEPT !.pc = "flush"])
    /\ UNCHANGED <<setup, cmds, jsVars, peers>>

Keys == SetToSortSeq(Slots \X Streams, LAMBDA a, b : a[1] < b[1] \/ (a[1] = b[1] /\ a[2] < b[2]))

\* flush_quic_pending_writes: a write whose connection has gone is dropped.
FlushOne(acc, k) ==
    LET f == acc.f
        out == flush_one_quic_pending_write(f.conns[k[1]].q, f.pending_writes[k], k[2])
    IN  IF ~f.pending_writes[k].some THEN acc
        ELSE IF f.conns[k[1]] = Vacant
             THEN [acc EXCEPT !.f.pending_writes[k] = Nothing, !.units = @ + queued_units(f.pending_writes[k])]
        ELSE [f |-> [f EXCEPT !.conns[k[1]].q = out.c, !.pending_writes[k] = out.w],
              units |-> acc.units + out.units,
              drains |-> IF out.done
                  THEN Append(acc.drains, Stamped(Event("DRAIN", k[2]), global_handle(f, k[1]), f.conns[k[1]].id))
                  ELSE acc.drains]

\* Mutant: the units of flushed writes are not released.
flush_all_pending_writes_KeepsUnits(w) ==
    /\ srv[w].pc = "flush"
    /\ \E out \in {FoldLeft(FlushOne, [f |-> srv[w], units |-> 0, drains |-> <<>>], Keys)} :
         Becomes(w, [out.f EXCEPT !.batch = @ \o out.drains, !.pc = "reap"])
    /\ UNCHANGED <<setup, cmds, jsVars, peers>>

flush_all_pending_writes(w) ==
    /\ srv[w].pc = "flush"
    /\ \E out \in {FoldLeft(FlushOne, [f |-> srv[w], units |-> 0, drains |-> <<>>], Keys)} :
       \E g \in {release_outbound_admission(out.f, out.units)} :
         Becomes(w, [g EXCEPT !.batch = @ \o out.drains, !.pc = "reap"])
    /\ UNCHANGED <<setup, cmds, jsVars, peers>>

\* Mutant: the routes of a removed slot stay.
remove_KeepsRoutes(f, h) == [f EXCEPT !.conns[h] = Vacant, !.free = <<h>> \o @]

\* QuicConnectionMap::remove: the slot is free and nothing routes to it.
remove(f, h) ==
    [f EXCEPT !.conns[h] = Vacant, !.free = <<h>> \o @,
              !.by_dcid = Restrict(@, {c \in DOMAIN @ : @[c] # h})]

\* A closed connection is removed: RESET for each abandoned write, their units,
\* and SESSION_CLOSE unless a timer has sent it.
ReapOne(f, h) ==
    LET id == f.conns[h].id
        writes == {s \in Streams : f.pending_writes[<<h, s>>].some}
        units == SumFunction([s \in writes |-> queued_units(f.pending_writes[<<h, s>>])])
        resets == Stamp([i \in 1..Cardinality(writes) |-> Event("RESET", SetToSortSeq(writes, <)[i])],
                        global_handle(f, h), id)
        g == release_outbound_admission(
                 [remove(f, h) EXCEPT !.batch = @ \o resets,
                     !.pending_writes = [k \in DOMAIN @ |-> IF k[1] = h THEN Nothing ELSE @[k]]],
                 units)
    IN  IF h \in f.last_expired THEN g
        ELSE [g EXCEPT !.batch = Append(@, SessionEvent("SESSION_CLOSE", global_handle(f, h), id))]

\* reap_closed_connections, and the end of the iteration: the batch is delivered.
reap_closed_connections(w) ==
    /\ srv[w].pc = "reap"
    /\ \E f \in {EachSlot(ReapOne, srv[w], {h \in Live(srv[w]) : is_closed(srv[w].conns[h].q)})} :
         /\ inbox' = inbox \o f.batch
         /\ Becomes(w, [f EXCEPT !.last_expired = {}, !.batch = <<>>, !.pc = "commands"])
    /\ UNCHANGED <<setup, cmds, sessions, js, server, peers>>

\* The driver fails: flush_runtime_error closes every session
\* (emit_session_close_for_all_active) and the loop ends.
RuntimeError(w) ==
    /\ "fail" \in setup.ops /\ srv[w].pc \in {"rx", "reap"}
    /\ inbox' = inbox \o srv[w].batch
                 \o [i \in 1..Cardinality(Live(srv[w])) |->
                       LET h == SetToSortSeq(Live(srv[w]), <)[i]
                       IN  SessionEvent("SESSION_CLOSE", global_handle(srv[w], h), srv[w].conns[h].id)]
                 \o <<ShutdownComplete>>
    /\ srv' = [srv EXCEPT ![w] = [Handler(w) EXCEPT !.pc = "stopped"]]
    /\ cmds' = [cmds EXCEPT ![w] = <<>>]
    /\ UNCHANGED <<setup, sessions, js, server, peers>>

-----------------------------------------------------------------------------
Application(i) ==
    \/ \E s \in AllStreams, n \in Sizes : s \in Streams /\ (Write(i, s, n) \/ End(i, s, n))
    \/ \E s \in AllStreams : s \in Streams /\ (Destroy(i, s) \/ OpenStream(i, s))
    \/ \E n \in Sizes : SendDatagram(i, n)
    \/ CloseSession(i)

DispatchEvent ==
    \/ OnNewSession \/ OnHandshakeComplete \/ OnData \/ OnFinished \/ OnResetOrError
    \/ OnStreamBlocked \/ OnDrain \/ OnWriteReady \/ OnSessionClose \/ OnShutdownComplete

DispatchCommand(w) ==
    cmds[w] # <<>> /\ \/ DispatchStreamSend(w) \/ DispatchStreamClose(w)
                      \/ DispatchSendDatagram(w) \/ DispatchCloseSession(w) \/ DispatchShutdown(w)

Due(w) == {h \in Live(srv[w]) : srv[w].conns[h].timer}

Expires(w) ==
    \E due \in SUBSET Due(w) : \E closes \in SUBSET due, b \in setup.budgets :
        expire_timers(w, due, closes, b)

LoopStep(w) ==
    \/ DispatchCommand(w) \/ EndCommands(w) \/ Expires(w)
    \/ \E b \in setup.budgets : Poll(w, b)
    \/ flush_all_pending_writes(w) \/ reap_closed_connections(w)

Packet(w, p) ==
    \/ SendRetry(w, p)
    \/ \E k \in 1..setup.scids : Accept(w, p, k)
    \/ \E h \in Slots : HandshakeArrives(w, p, h) \/ CloseArrives(w, p, h)
    \/ \E h \in Slots, k \in 1..setup.scids : RetireArrives(w, p, h, k)
    \/ \E h \in Slots, s \in Streams : CreditArrives(w, p, h, s) \/ StreamArrives(w, p, h, s)

Next ==
    \/ \E i \in AllIds : i \in Ids /\ Application(i)
    \/ CloseServer \/ DispatchEvent
    \/ \E w \in AllWorkers : w \in Workers /\ (LoopStep(w) \/ RuntimeError(w))
    \/ \E w \in AllWorkers, p \in AllPeers : w \in Workers /\ p \in Peers /\ Packet(w, p)

\* The end of the draining period comes.
Ends(w) ==
    \E due \in SUBSET Due(w) : \E b \in setup.budgets :
        expire_timers(w, due, {h \in due : srv[w].conns[h].q.life = "draining"}, b)
        /\ \E h \in due : srv[w].conns[h].q.life = "draining"

\* JavaScript and the workers keep running, and the draining period ends.
Fairness ==
    /\ WF_vars(DispatchEvent)
    /\ \A w \in AllWorkers : WF_vars(w \in Workers /\ LoopStep(w)) /\ SF_vars(w \in Workers /\ Ends(w))

SafeSpec == Init /\ [][Next]_vars
Spec == SafeSpec /\ Fairness

-----------------------------------------------------------------------------
(* Properties. *)

PendingWrites == [bytes : Nat, fin : BOOLEAN, some : BOOLEAN]
Types == {"NEW_SESSION", "HANDSHAKE_COMPLETE", "NEW_STREAM", "DATA", "FINISHED", "RESET", "ERROR",
          "STREAM_BLOCKED", "DRAIN", "RETRY", "WRITE_READY", "SESSION_CLOSE", "SHUTDOWN_COMPLETE"}
Events == [type : Types, s : Streams \cup {0}, n : 0..1, fin : BOOLEAN, h : Handles, owner : Ids \cup {0}]

\* Every field of the workers, the sessions and the queues keeps its type, and
\* the slab's free list is exactly the slots without a connection.
TypeOK ==
    /\ server \in {"running", "closing", "closed"} /\ inbox \in Seq(Events)
    /\ sessions \in [Handles -> Ids \cup {0}]
    /\ \A i \in Ids, s \in Streams : Stream(i, s).parked \in PendingWrites
    /\ \A w \in Workers :
         /\ srv[w].queued \in Nat /\ srv[w].pressured \in BOOLEAN /\ srv[w].batch \in Seq(Events)
         /\ srv[w].pending_writes \in [Slots \X Streams -> PendingWrites]
         /\ Range(srv[w].free) = Slots \ Live(srv[w]) /\ Len(srv[w].free) = Cardinality(Slots \ Live(srv[w]))
         /\ \A h \in Live(srv[w]) : srv[w].conns[h].id \in Ids /\ srv[w].conns[h].q.cap \in [Streams -> Nat]

Outstanding(w) ==
    SumFunction([i \in DOMAIN cmds[w] |-> IF cmds[w][i].op \in {"send", "datagram"}
                     THEN outbound_payload_units(cmds[w][i].n, cmds[w][i].fin) ELSE 0])
    + SumFunction([k \in Slots \X Streams |-> queued_units(srv[w].pending_writes[k])])

\* The window of a worker bounds what sits in its channel and in the pending
\* writes of all its connections, through refusals, closes and reaping: never
\* less, and more only by the unit of a FIN merged into a pending write.
WindowTight ==
    \A w \in Workers : srv[w].pc # "stopped" =>
        /\ Outstanding(w) <= srv[w].queued
        /\ srv[w].queued <= Outstanding(w)
              + IF 0 \in setup.finals THEN Cardinality(Ids \X Streams) ELSE 0

\* A connection ID leads to the peer it was issued for, whatever slots were
\* freed and reused meanwhile, and never to a free slot.
RoutesToOwner ==
    \A w \in Workers : \A c \in DOMAIN srv[w].by_dcid :
        LET h == srv[w].by_dcid[c]
        IN  srv[w].conns[h] # Vacant /\ srv[w].conns[h].peer = c[1]

\* When a worker goes back to sleep, every pending write belongs to a live
\* connection in whose blocked_queue its stream is: a slot is not reused with
\* the writes of its predecessor, and credit for the stream will be noticed.
PendingIsWatched ==
    \A w \in Workers : srv[w].pc = "commands" =>
        \A k \in Slots \X Streams : srv[w].pending_writes[k].some =>
            /\ srv[w].conns[k[1]] # Vacant
            /\ k[2] \in blocked_set(srv[w].conns[k[1]].q)

\* What _sessions will hold for a handle once the queued events are dispatched.
SessionAfter(h) ==
    LET mine == SelectSeq(inbox, LAMBDA e : e.h = h /\ e.type \in {"NEW_SESSION", "SESSION_CLOSE"})
    IN  IF mine = <<>> THEN sessions[h]
        ELSE IF Last(mine).type = "NEW_SESSION" THEN Last(mine).owner ELSE 0

\* JavaScript's sessions and the workers' connections stay in step: between two
\* iterations the events under way turn _sessions into exactly the connection
\* map, each session under the handle of its own connection.
SessionsInStep ==
    server = "running" => \A w \in Workers : srv[w].pc \in {"commands", "stopped"} =>
        \A h \in Slots : SessionAfter(global_handle(srv[w], h)) = srv[w].conns[h].id

Coming(i, types, s) ==
    \E e \in Range(inbox) \cup UNION {Range(srv[w].batch) : w \in Workers} :
        e.type \in types /\ (e.type = "WRITE_READY" \/ (e.owner = i /\ e.s \in {s, 0}))

\* Something will run this parked write again.
HasWaker(i, s) ==
    LET w == worker_index(js[i].h)
        pending == srv[w].pending_writes[<<local_conn_handle(js[i].h), s>>].some
    IN  \/ Coming(i, {"DRAIN", "RESET", "ERROR", "SESSION_CLOSE"}, s)
        \/ IF Stream(i, s).blocked THEN pending
           ELSE \/ Coming(i, {"WRITE_READY", "RETRY"}, s)
                \/ Coming(i, {"STREAM_BLOCKED"}, s) /\ pending
                \/ srv[w].pressured /\ Outstanding(w) > 0

\* No lost wake-up in a server with one worker: a parked write has a DRAIN, an
\* error, a close or a WRITE_READY coming, whichever connection freed the room.
ParkedHasWaker == setup.workers = 1 => \A k \in Parked : HasWaker(k[1], k[2])

\* session.close() is eventually answered by SESSION_CLOSE: this is what must not last.
Waits == \E i \in Ids : js[i].closing /\ js[i].up # "closed"
=============================================================================
