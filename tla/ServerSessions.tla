--------------------------- MODULE ServerSessions ---------------------------
(***************************************************************************)
(* The life of the sessions of an HTTP/3 server, from the first Initial to *)
(* the 'close' event: the connection map of each worker (slab handles,     *)
(* DCID routes), the phases of a tick of H3ServerHandler that open, close  *)
(* and reap connections, the handles that carry the worker index, and the  *)
(* session and stream maps of Http3SecureServer that are keyed by them.    *)
(*                                                                         *)
(* A connection has a number (ghost) that tells it from the later ones in  *)
(* the same slab slot.  What waits in channels and queues carries it too.  *)
(* Delivery, batching and the event budget are EventDelivery's subject:    *)
(* here a poll is paused or not, and a tick ends with one delivery.        *)
(***************************************************************************)
EXTENDS Naturals, Sequences, FiniteSets, TLC, Functions

CONSTANT Setups  \* servers, what may happen to them, and bounds: see Setup

AllUserOps == {"write", "cancel", "close", "destroy", "server"}

\* workers: SO_REUSEPORT workers;  span: 1 << WORKER_SHIFT, the handles of one worker;
\* connections: max_connections of one worker;  scids: bound on the connection IDs a
\* connection ever has, but for its first;  sessions: bound on the connections ever
\* accepted;  streams: request streams of a connection;  pauses: whether event
\* backpressure may pause the polls;  ops: what the application does.
Setup(u) ==
    /\ u.workers \in Nat \ {0} /\ u.span \in Nat \ {0} /\ u.sessions \in Nat
    /\ u.connections \in 0..u.span /\ u.scids \in Nat \ {0}
    /\ u.streams \subseteq Nat /\ IsFiniteSet(u.streams)
    /\ u.pauses \in BOOLEAN /\ u.ops \subseteq AllUserOps

\* All workers and connections of any setup.
Workers == UNION {0 .. u.workers - 1 : u \in Setups}
Ids == UNION {1 .. u.sessions : u \in Setups}

VARIABLES
    setup,     \* fixed at the start
    (* a worker *)
    conns,     \* conn_map.connections: slot -> connection or NoConn
    free,      \* the slab's free list
    by_dcid,   \* conn_map.by_dcid: connection ID -> slot
    deferred,  \* pending_session_closes: slot -> who asked, or 0
    expired,   \* last_expired
    cmds,      \* command channel
    batch,     \* events collected in this tick
    pc,        \* phase of the tick
    (* JavaScript *)
    queue,     \* events on their way
    sessions,  \* _sessions: handle -> session, or 0
    streams,   \* _streams
    handleOf,  \* _connHandle of every session ever announced
    closing,   \* sessions whose close() was called
    destroyed, \* sessions whose destroy() was called
    gone,      \* _closeEmitted
    server,    \* "running", "closing", "closed"
    sentinel,  \* SHUTDOWN_COMPLETE was dispatched
    (* bound *)
    accepted   \* connections accepted so far

Span == setup.span
Slots == 0..Span - 1
Handles == 0..setup.workers * Span - 1
Streams == setup.streams
UserOps == setup.ops
Pauses == setup.pauses

worker_index(h) == h \div Span
local_conn_handle(h) == h % Span
handle_offset(w) == w * Span

native == <<conns, free, by_dcid, deferred, expired, batch, pc>>
script == <<setup, sessions, streams, handleOf, closing, destroyed, gone, server, sentinel>>
vars == <<native, cmds, queue, script, accepted>>

NoConn == [id |-> 0]

\* H3Connection, reduced to what ends a session: the state of the QUIC connection,
\* whether quiche has a timer for it, whether it was closed locally and for whom,
\* request streams not yet polled, polled ones, and those with a pending write.
\* fresh: its timers were renewed in this tick, so none that ends it can be due.
Connection(id, state, timer) ==
    [id |-> id, state |-> state, timer |-> timer, fresh |-> TRUE, by |-> 0,
     unread |-> {}, used |-> {}, pending |-> {}]

Init ==
    /\ setup \in Setups
    /\ conns = [w \in Workers |-> [s \in Slots |-> NoConn]]
    /\ free = [w \in Workers |-> [i \in 1..Span |-> i - 1]]
    /\ by_dcid = [w \in Workers |-> << >>]
    /\ deferred = [w \in Workers |-> [s \in Slots |-> 0]]
    /\ expired = [w \in Workers |-> {}]
    /\ cmds = [w \in Workers |-> << >>]
    /\ batch = [w \in Workers |-> << >>]
    /\ pc = [w \in Workers |-> IF w < setup.workers THEN "commands" ELSE "stopped"]
    /\ queue = << >>
    /\ sessions = [h \in Handles |-> 0]
    /\ streams = {}
    /\ handleOf = << >>
    /\ closing = {} /\ destroyed = {} /\ gone = {}
    /\ server = "running" /\ sentinel = FALSE
    /\ accepted = 0

Live(w) == {s \in Slots : conns[w][s] # NoConn}
Global(w, slot) == handle_offset(w) + slot
Event(type, h, stream, id) == [type |-> type, h |-> h, stream |-> stream, id |-> id]
InOrder(S) ==
    CHOOSE q \in [1..Cardinality(S) -> S] : \A i, j \in DOMAIN q : i < j => q[i] < q[j]

Reversed(q) == [i \in DOMAIN q |-> q[Len(q) + 1 - i]]

\* The events of the slots S, in slab order.
PerSlot(S, events(_)) ==
    LET upTo[i \in 0..Cardinality(S)] ==
            IF i = 0 THEN << >> ELSE upTo[i - 1] \o events(InOrder(S)[i])
    IN upTo[Cardinality(S)]

Goto(w, label) == pc' = [pc EXCEPT ![w] = label]
Collect(w, events) == batch' = [batch EXCEPT ![w] = @ \o events]

-----------------------------------------------------------------------------
(* Commands. *)

\* quiche's close(): refused once the connection is closing.  The CLOSE frame
\* goes out with the next flush_sends, so the draining period starts at once.
Closed(c, who) ==
    IF c.state = "open" THEN [c EXCEPT !.state = "draining", !.by = who, !.timer = TRUE, !.fresh = TRUE]
    ELSE c

\* Mutant: the close is taken and not performed.
DispatchCloseSession_Dropped(w, cmd) == UNCHANGED <<conns, deferred, batch>>

\* quiche's is_established or is_in_early_data: nothing to say about it here, a
\* GOAWAY may succeed or not.
DispatchCloseSession(w, cmd) ==
    \/ /\ deferred' = [deferred EXCEPT ![w][cmd.slot] = cmd.id]
       /\ UNCHANGED <<conns, batch>>
    \/ /\ conns' = [conns EXCEPT ![w][cmd.slot] = Closed(@, cmd.id)]
       /\ UNCHANGED <<deferred, batch>>

DispatchStreamSend(w, cmd) ==
    /\ \E blocked \in SUBSET {cmd.stream} :
         conns' = [conns EXCEPT ![w][cmd.slot].pending = @ \cup blocked]
    /\ UNCHANGED <<deferred, batch>>

\* The reset carries the handle of the command, which is the local one.
DispatchStreamClose(w, cmd) ==
    LET c == conns[w][cmd.slot]
    IN /\ conns' = [conns EXCEPT ![w][cmd.slot].pending = @ \ {cmd.stream}]
       /\ Collect(w, IF cmd.stream \in c.pending
                     THEN <<Event("reset", cmd.slot, cmd.stream, c.id)>> ELSE << >>)
       /\ UNCHANGED deferred

DispatchCommand(w) ==
    /\ pc[w] = "commands" /\ cmds[w] # << >> /\ Head(cmds[w]).op # "shutdown"
    /\ cmds' = [cmds EXCEPT ![w] = Tail(@)]
    /\ LET cmd == Head(cmds[w])
       IN IF conns[w][cmd.slot] = NoConn THEN UNCHANGED <<conns, deferred, batch>>
          ELSE \/ cmd.op = "session" /\ DispatchCloseSession(w, cmd)
               \/ cmd.op = "send" /\ DispatchStreamSend(w, cmd)
               \/ cmd.op = "close" /\ DispatchStreamClose(w, cmd)
    /\ UNCHANGED <<free, by_dcid, expired, pc, queue, script, accepted>>

\* The connections are told to close; the worker delivers and ends.
DispatchShutdown(w) ==
    /\ pc[w] = "commands" /\ cmds[w] # << >> /\ Head(cmds[w]).op = "shutdown"
    /\ cmds' = [cmds EXCEPT ![w] = Tail(@)]
    /\ conns' = [conns EXCEPT ![w] =
                   [s \in Slots |-> IF @[s] = NoConn THEN NoConn ELSE Closed(@[s], @[s].id)]]
    /\ queue' = queue \o Append(batch[w], Event("shutdown", 0, 0, 0))
    /\ batch' = [batch EXCEPT ![w] = << >>]
    /\ Goto(w, "stopped")
    /\ UNCHANGED <<free, by_dcid, deferred, expired, script, accepted>>

EndCommands(w) ==
    /\ pc[w] = "commands" /\ cmds[w] = << >> /\ Goto(w, "packets")
    /\ UNCHANGED <<conns, free, by_dcid, deferred, expired, batch, cmds, queue, script, accepted>>

-----------------------------------------------------------------------------
(* Packets. *)

\* The routes of a worker when the connection IDs ids lead to a slot.
AddDcids(routes, ids, slot) ==
    [d \in DOMAIN routes \cup ids |-> IF d \in ids THEN slot ELSE routes[d]]

\* process_packet for an Initial that no DCID routes (after the retry round trip,
\* when retry is on): accept_new takes a slab slot and enters the two connection
\* IDs.  quiche may refuse the packet, which closes the connection and leaves the
\* handler early, or ignore it, so that there is no timer yet.
Accept(w) ==
    /\ pc[w] = "packets" /\ accepted < setup.sessions
    /\ Cardinality(Live(w)) < setup.connections
    /\ accepted' = accepted + 1
    /\ LET slot == Head(free[w])
           id == accepted + 1
       IN /\ free' = [free EXCEPT ![w] = Tail(@)]
          /\ by_dcid' = [by_dcid EXCEPT ![w] = AddDcids(@, {<<id, 0>>, <<id, 1>>}, slot)]
          /\ \E outcome \in {<<"open", TRUE>>, <<"open", FALSE>>, <<"closed", FALSE>>} :
               conns' = [conns EXCEPT ![w][slot] = Connection(id, outcome[1], outcome[2])]
          /\ Collect(w, <<Event("new", Global(w, slot), 0, id)>>)
    /\ UNCHANGED <<deferred, expired, cmds, pc, queue, script>>

\* What one packet of its peer can do to an open connection: keep it alive, open a
\* request stream, close it, break the protocol (quiche closes), or end it at once
\* (stateless reset).
Received(c) ==
    LET alive == [c EXCEPT !.timer = TRUE, !.fresh = TRUE]
    IN {alive}
       \cup {[alive EXCEPT !.unread = @ \cup {s}, !.used = @ \cup {s}] : s \in Streams \ c.used}
       \cup {[alive EXCEPT !.state = "draining"], [alive EXCEPT !.state = "draining", !.by = c.id],
             [c EXCEPT !.state = "closed", !.timer = FALSE]}

\* process_packet for a routed packet; bytes of one connection mean nothing to
\* another.  App events wait for the polls.  At the end the IDs the peer retired
\* are removed and top_up_server_scids issues new ones.
PacketFor(w, d) ==
    LET slot == by_dcid[w][d]
        id == d[1]
        scids == {x \in DOMAIN by_dcid[w] : x[1] = id /\ x[2] > 0}
        unused == {<<id, k>> : k \in (1..setup.scids) \ {x[2] : x \in scids}}
    IN /\ pc[w] = "packets"
       /\ conns[w][slot].id = id /\ conns[w][slot].state = "open"
       /\ \E c \in Received(conns[w][slot]) : conns' = [conns EXCEPT ![w][slot] = c]
       /\ \E issued \in SUBSET unused, retired \in SUBSET scids :
            /\ retired # {} => issued # {}
            /\ by_dcid' = [by_dcid EXCEPT ![w] =
                             Restrict(AddDcids(@, issued, slot), (DOMAIN @ \ retired) \cup issued)]
       /\ UNCHANGED <<free, deferred, expired, batch, cmds, pc, queue, script, accepted>>

EndPackets(w) ==
    /\ pc[w] = "packets" /\ Goto(w, "timers")
    /\ UNCHANGED <<conns, free, by_dcid, deferred, expired, batch, cmds, queue, script, accepted>>

-----------------------------------------------------------------------------
(* Timers, polls, and the end of the tick. *)

\* poll_h3_events: HEADERS of the streams not yet polled, also of a connection that
\* is closed but not yet reaped; quiche has nothing to say after a local close.
Polled(w, c, slot) ==
    IF c.by # 0 THEN << >>
    ELSE [i \in DOMAIN InOrder(c.unread) |->
            Event("headers", Global(w, slot), InOrder(c.unread)[i], c.id)]
AfterPoll(c) == IF c.by # 0 THEN c ELSE [c EXCEPT !.unread = {}]

\* Mutant: a connection that ends by its timer is not announced.
TimeoutEvents_Silent(w, s, over, paused) ==
    IF s \in over \/ paused THEN << >> ELSE Polled(w, conns[w][s], s)

\* What expire_timers emits for a connection whose timer is due: SESSION_CLOSE when
\* its idle or draining period is over, or else what a poll yields.
TimeoutEvents(w, s, over, paused) ==
    IF s \in over THEN <<Event("close", Global(w, s), 0, conns[w][s].id)>>
    ELSE IF paused THEN << >> ELSE Polled(w, conns[w][s], s)

\* expire_timers for the due connections, then for the deferred closes that are due.
Timers(w, due, over, closes, paused) ==
    LET events(s) == TimeoutEvents(w, s, over, paused)
        timeout(s) == LET c == conns[w][s] IN
            IF s \in over THEN [c EXCEPT !.state = "closed", !.timer = FALSE]
            ELSE IF s \in due /\ ~paused THEN AfterPoll(c) ELSE c
    IN /\ pc[w] = "timers"
       /\ expired' = [expired EXCEPT ![w] = due]
       /\ Collect(w, PerSlot(due, events))
       /\ conns' = [conns EXCEPT ![w] = [s \in Slots |->
                      IF s \in closes /\ @[s] # NoConn THEN Closed(timeout(s), deferred[w][s])
                      ELSE timeout(s)]]
       /\ deferred' = [deferred EXCEPT ![w] = [s \in Slots |-> IF s \in closes THEN 0 ELSE @[s]]]
       /\ Goto(w, "app")
       /\ UNCHANGED <<free, by_dcid, cmds, queue, script, accepted>>

Deferred(w) == {s \in Slots : deferred[w][s] # 0}

ProcessTimers(w) ==
    LET armed == {s \in Live(w) : conns[w][s].timer}
    IN \E due \in SUBSET armed, closes \in SUBSET Deferred(w), paused \in {FALSE, Pauses} :
         \E over \in SUBSET {s \in due : ~conns[w][s].fresh} : Timers(w, due, over, closes, paused)

\* poll_app_events, and flush_pending_writes.
PollAppEvents(w) ==
    /\ pc[w] = "app" /\ Goto(w, "reap")
    /\ \E paused \in {FALSE, Pauses}, flushed \in SUBSET Streams :
         LET events(s) == Polled(w, conns[w][s], s)
             after(c) == [(IF paused THEN c ELSE AfterPoll(c)) EXCEPT !.pending = @ \ flushed]
         IN /\ Collect(w, IF paused THEN << >> ELSE PerSlot(Live(w), events))
            /\ conns' = [conns EXCEPT ![w] =
                           [s \in Slots |-> IF @[s] = NoConn THEN NoConn ELSE after(@[s])]]
    /\ UNCHANGED <<free, by_dcid, deferred, expired, cmds, queue, script, accepted>>

\* Mutant: only the first connection ID of a slot is removed.
RemoveRoutes_FirstOnly(routes, closed) ==
    Restrict(routes, {d \in DOMAIN routes : routes[d] \in closed => d[2] > 1})

\* ConnectionMap::remove drops every connection ID of the slots.
RemoveRoutes(routes, closed) == RestrictValues(routes, LAMBDA s : s \notin closed)

\* cleanup_closed (drain_closed, remove), then the delivery that ends the tick.
Reap(w) ==
    LET closed == {s \in Live(w) : conns[w][s].state = "closed"}
        events(s) ==
            [i \in DOMAIN InOrder(conns[w][s].pending) |->
                Event("reset", Global(w, s), InOrder(conns[w][s].pending)[i], conns[w][s].id)]
            \o IF s \in expired[w] THEN << >>
               ELSE <<Event("close", Global(w, s), 0, conns[w][s].id)>>
    IN /\ pc[w] = "reap" /\ Goto(w, "commands")
       /\ queue' = queue \o batch[w] \o PerSlot(closed, events)
       /\ batch' = [batch EXCEPT ![w] = << >>]
       /\ conns' = [conns EXCEPT ![w] = [s \in Slots |->
                      IF s \in closed \/ @[s] = NoConn THEN NoConn ELSE [@[s] EXCEPT !.fresh = FALSE]]]
       /\ free' = [free EXCEPT ![w] = Reversed(InOrder(closed)) \o @]
       /\ by_dcid' = [by_dcid EXCEPT ![w] = RemoveRoutes(@, closed)]
       /\ deferred' = [deferred EXCEPT ![w] = [s \in Slots |-> IF s \in closed THEN 0 ELSE @[s]]]
       /\ expired' = [expired EXCEPT ![w] = {}]
       /\ UNCHANGED <<cmds, script, accepted>>

\* flush_runtime_error: a failed poll or submit_sends closes the active sessions.
RuntimeError(w) ==
    LET events(s) == <<Event("close", Global(w, s), 0, conns[w][s].id)>>
    IN /\ pc[w] \in {"commands", "packets", "timers", "reap"} /\ Goto(w, "stopped")
       /\ queue' = queue \o batch[w] \o Append(PerSlot(Live(w), events), Event("shutdown", 0, 0, 0))
       /\ batch' = [batch EXCEPT ![w] = << >>]
       /\ UNCHANGED <<conns, free, by_dcid, deferred, expired, cmds, script, accepted>>

WorkerStep(w) ==
    \/ DispatchCommand(w) \/ DispatchShutdown(w) \/ EndCommands(w)
    \/ EndPackets(w) \/ ProcessTimers(w) \/ PollAppEvents(w) \/ Reap(w)

-----------------------------------------------------------------------------
(* JavaScript. *)

\* WorkerHandle::send_command: to the worker the handle names, with its local handle.
SendCommand(op, h, stream, id) ==
    LET w == worker_index(h)
    IN cmds' = IF pc[w] = "stopped" THEN cmds
               ELSE [cmds EXCEPT ![w] = Append(@, [op |-> op, slot |-> local_conn_handle(h),
                                                   stream |-> stream, id |-> id])]

OnNewSession(e) ==
    /\ sessions' = [sessions EXCEPT ![e.h] = e.id]
    /\ handleOf' = (e.id :> e.h) @@ handleOf
    /\ UNCHANGED <<streams, gone, sentinel, cmds>>

\* HEADERS for a known stream are trailers.
OnHeaders(e) ==
    /\ streams' = IF \E st \in streams : st.h = e.h /\ st.stream = e.stream THEN streams
                  ELSE streams \cup {[h |-> e.h, stream |-> e.stream, id |-> e.id, wrote |-> FALSE]}
    /\ UNCHANGED <<sessions, handleOf, gone, sentinel, cmds>>

\* _onReset closes the transport and destroys the stream.
OnReset(e) ==
    LET hit == {st \in streams : st.h = e.h /\ st.stream = e.stream}
    IN /\ streams' = streams \ hit
       /\ IF hit = {} THEN UNCHANGED cmds
          ELSE SendCommand("close", e.h, e.stream, (CHOOSE st \in hit : TRUE).id)
       /\ UNCHANGED <<sessions, handleOf, gone, sentinel>>

OnSessionClose(e) ==
    /\ gone' = gone \cup ({sessions[e.h]} \ {0})
    /\ sessions' = [sessions EXCEPT ![e.h] = 0]
    /\ streams' = {st \in streams : st.h # e.h}
    /\ UNCHANGED <<handleOf, sentinel, cmds>>

Dispatch ==
    /\ queue # << >> /\ queue' = Tail(queue)
    /\ LET e == Head(queue)
       IN CASE e.type = "new" -> OnNewSession(e)
            [] e.type = "headers" -> OnHeaders(e)
            [] e.type = "reset" -> OnReset(e)
            [] e.type = "close" -> OnSessionClose(e)
            [] e.type = "shutdown" ->
                 sentinel' = TRUE /\ UNCHANGED <<sessions, streams, handleOf, gone, cmds>>
    /\ UNCHANGED <<native, closing, destroyed, server, setup, accepted>>

\* The application writes to a stream (once; whether the worker queues the data is
\* the worker's choice), cancels it, or is done with it.
WriteStream(st) ==
    /\ "write" \in UserOps /\ server = "running" /\ ~st.wrote
    /\ streams' = (streams \ {st}) \cup {[st EXCEPT !.wrote = TRUE]}
    /\ SendCommand("send", st.h, st.stream, st.id)
    /\ UNCHANGED <<native, queue, sessions, handleOf, closing, destroyed, gone, server, sentinel, setup, accepted>>

CancelStream(st) ==
    /\ "cancel" \in UserOps /\ server = "running"
    /\ streams' = streams \ {st}
    /\ SendCommand("close", st.h, st.stream, st.id)
    /\ UNCHANGED <<native, queue, sessions, handleOf, closing, destroyed, gone, server, sentinel, setup, accepted>>

FinishStream(st) ==
    /\ server = "running" /\ streams' = streams \ {st}
    /\ UNCHANGED <<native, cmds, queue, sessions, handleOf, closing, destroyed, gone, server, sentinel, setup, accepted>>

Announced == DOMAIN handleOf

\* Http3ServerSession.close returns at once on a session that is closing or closed.
CloseSession(id) ==
    /\ "close" \in UserOps /\ server = "running"
    /\ id \in Announced \ (closing \cup gone)
    /\ closing' = closing \cup {id}
    /\ SendCommand("session", handleOf[id], 0, id)
    /\ UNCHANGED <<native, queue, sessions, streams, handleOf, destroyed, gone, server, sentinel, setup, accepted>>

\* Http3ServerSession.destroy, called at most once by a sane application.
DestroySession(id) ==
    /\ "destroy" \in UserOps /\ server = "running"
    /\ id \in Announced \ destroyed
    /\ destroyed' = destroyed \cup {id}
    /\ gone' = gone \cup {id}
    /\ SendCommand("session", handleOf[id], 0, id)
    /\ UNCHANGED <<native, queue, sessions, streams, handleOf, closing, server, sentinel, setup, accepted>>

\* Http3SecureServer.close: Shutdown to every worker, then the sentinel and the
\* join, then the maps are cleared.
CloseServer ==
    /\ "server" \in UserOps /\ server = "running" /\ server' = "closing"
    /\ cmds' = [w \in Workers |-> IF pc[w] = "stopped" THEN cmds[w]
                   ELSE Append(cmds[w], [op |-> "shutdown", slot |-> 0, stream |-> 0, id |-> 0])]
    /\ UNCHANGED <<native, queue, sessions, streams, handleOf, closing, destroyed, gone, sentinel, setup, accepted>>

ClearMaps ==
    /\ server = "closing" /\ sentinel /\ \A w \in Workers : pc[w] = "stopped"
    /\ server' = "closed"
    /\ sessions' = [h \in Handles |-> 0] /\ streams' = {}
    /\ UNCHANGED <<native, cmds, queue, handleOf, closing, destroyed, gone, sentinel, setup, accepted>>

UserStep ==
    \/ \E st \in streams : WriteStream(st) \/ CancelStream(st) \/ FinishStream(st)
    \/ \E id \in Announced : CloseSession(id) \/ DestroySession(id)
    \/ CloseServer

PacketStep(w) ==
    Accept(w) \/ \E d \in DOMAIN by_dcid[w] : PacketFor(w, d)

Next ==
    \/ \E w \in Workers : WorkerStep(w) \/ PacketStep(w) \/ RuntimeError(w)
    \/ Dispatch \/ UserStep \/ ClearMaps
    \/ (\A w \in Workers : pc[w] = "stopped") /\ queue = << >> /\ UNCHANGED vars

\* The drain timers of a worker run and every deferred close is carried out.
DrainsEnd(w) ==
    LET ending == {s \in Live(w) : conns[w][s].state = "draining" /\ ~conns[w][s].fresh}
    IN Timers(w, ending, ending, Deferred(w), FALSE)

\* The worker threads and the JavaScript thread run; the close of a session that
\* is due and the end of a draining period come, tick after tick, in the end.
Fairness ==
    /\ \A w \in Workers :
         /\ WF_vars(WorkerStep(w))
         /\ SF_vars(DrainsEnd(w))
    /\ WF_vars(Dispatch)

SafeSpec == Init /\ [][Next]_vars
Spec == SafeSpec /\ Fairness

-----------------------------------------------------------------------------
(* Properties. *)

Connections == [id : Ids, state : {"open", "draining", "closed"}, timer : BOOLEAN, fresh : BOOLEAN,
                by : Ids \cup {0}, unread : SUBSET Streams, used : SUBSET Streams,
                pending : SUBSET Streams]

\* Every map, channel and queue keeps its type; handles stay in the range of the
\* workers.
TypeOK ==
    /\ setup \in Setups
    /\ conns \in [Workers -> [Slots -> Connections \cup {NoConn}]]
    /\ \A w \in Workers : /\ Range(free[w]) = Slots \ Live(w)
                          /\ Len(free[w]) = Cardinality(Range(free[w]))
                          /\ DOMAIN by_dcid[w] \subseteq Ids \X (0..setup.scids)
                          /\ expired[w] \subseteq Slots
                          /\ Range(cmds[w]) \subseteq
                               [op : {"session", "send", "close", "shutdown"}, slot : Slots,
                                stream : Streams \cup {0}, id : Ids \cup {0}]
    /\ deferred \in [Workers -> [Slots -> Ids \cup {0}]]
    /\ pc \in [Workers -> {"commands", "packets", "timers", "app", "reap", "stopped"}]
    /\ sessions \in [Handles -> Ids \cup {0}]
    /\ streams \subseteq [h : Handles, stream : Streams, id : Ids, wrote : BOOLEAN]
    /\ DOMAIN handleOf \subseteq Ids /\ \A id \in DOMAIN handleOf : handleOf[id] \in Handles
    /\ closing \subseteq Ids /\ destroyed \subseteq Ids /\ gone \subseteq Ids
    /\ server \in {"running", "closing", "closed"} /\ sentinel \in BOOLEAN

OnTheWay == UNION {Range(batch[w]) : w \in Workers} \cup Range(queue)

\* Slab handles are reused, so NEW_SESSION and SESSION_CLOSE have to come in step:
\* a new session never takes the place of one that was not closed, and a close
\* never hits a later session with the same handle.
SessionEventsInStep ==
    queue # << >> /\ server # "closed" =>
        LET e == Head(queue)
        IN /\ e.type = "new" => sessions[e.h] = 0
           /\ e.type = "close" => sessions[e.h] \in {0, e.id}

\* No session is forgotten: one that JavaScript holds is in the connection map of
\* the worker its handle names, or its SESSION_CLOSE is on the way, or the server
\* is being closed.
SessionNotForgotten ==
    \A h \in Handles : sessions[h] # 0 =>
        \/ LET c == conns[worker_index(h)][local_conn_handle(h)]
           IN c.id = sessions[h] /\ pc[worker_index(h)] # "stopped"
        \/ Event("close", h, 0, sessions[h]) \in OnTheWay
        \/ server # "running"

\* Every connection ID leads to the connection it was issued for, also after the
\* slab has given its slot to another connection (ConnectionMap::remove).
RoutesToOwner ==
    \A w \in Workers : \A d \in DOMAIN by_dcid[w] : conns[w][by_dcid[w][d]].id = d[1]

\* Closing a session takes its streams along: "active stream count, blocked stream
\* count, and pending write count converge to zero after session close"
\* (LIFECYCLE_VALIDATION_CHECKLIST.md), unless a pause kept HEADERS unread until
\* after the session's timeout.
StreamsGoWithSession ==
    server # "closed" /\ ~Pauses => \A st \in streams : sessions[st.h] = st.id

\* A reset is for a stream of the connection that was reset: handles are offset
\* "for global uniqueness" (server_sharding.rs).
ResetHitsOwnStream ==
    queue # << >> /\ Head(queue).type = "reset" =>
        LET e == Head(queue)
        IN \A st \in streams : st.h = e.h /\ st.stream = e.stream => st.id = e.id

\* session.close() is answered by the native close, and so does not have to wait for
\* its five-second timeout: this is what must not last.
Waits == server = "running" /\ ~(closing \subseteq gone)
=============================================================================
