---------------------------- MODULE SharedClients ----------------------------
(***************************************************************************)
(* The shared HTTP/3 client worker: one thread and one UDP socket for all  *)
(* the client sessions of an address family.  connect() finds the worker   *)
(* in a process-wide registry or spawns it, opens a session in its slab    *)
(* and counts it; close() asks for the close, releases the session, waits  *)
(* for its SHUTDOWN_COMPLETE and, for the last session, joins the thread.  *)
(* The worker removes sessions that were released or that ended, and       *)
(* leaves when it has none.                                                *)
(*                                                                         *)
(* One address family, so one key of the registry.  connect(), request()   *)
(* and joinWorker() block the JavaScript thread: `call' is what it is      *)
(* blocked in.  A client connects once; its session carries its name as a  *)
(* ghost, and that name is also the random connection ID of the session,   *)
(* which a client never changes.  What a session sends and receives is     *)
(* H3Client's subject.                                                     *)
(***************************************************************************)
EXTENDS Naturals, Sequences, FiniteSets, SequencesExt, Functions

CONSTANT Setups  \* clients, what may happen to them, and bounds: see Setup

AllFaults == {"reply", "sentinel", "driver", "sink", "open", "backlog"}

\* clients: how many connect;  handles: slab slots ever needed;  commands:
\* MAX_COMMANDS_PER_TICK;  closers: the clients whose application calls close();
\* peers: servers may close;  idles: sessions may idle out;
\* faults: reply - a worker may be too slow to answer within 2 s, sentinel - or to
\* shut down within SHUTDOWN_TIMEOUT_MS, driver - poll or submit_sends may fail,
\* sink - the event sink of a client may close, open - a session may not be created,
\* backlog - the driver may still hold datagrams when the last session goes.
Setup(u) ==
    /\ u.clients \in Nat /\ u.handles \in Nat \ {0} /\ u.commands \in Nat \ {0}
    /\ u.closers \subseteq 1..u.clients /\ u.peers \in BOOLEAN /\ u.idles \in BOOLEAN
    /\ u.faults \subseteq AllFaults

ASSUME ClientsAssumption == \A u \in Setups : Setup(u)

\* All clients of any setup, and the workers they may spawn.
Clients == 1 .. Max({u.clients : u \in Setups})
Workers == Clients

VARIABLES
    setup,     \* fixed at the start
    registry,  \* the family's entry of shared_client_worker_registry(), or 0
    (* SharedClientWorkerControl and the thread of a worker *)
    thread,    \* "none", "running", "returned" (running is still set), "stopped"
    count,     \* session_count
    cmds,      \* command channel
    wake,      \* the waker was called
    (* run_shared_client_event_loop *)
    pc,        \* phase of the tick
    left,      \* commands that may still be drained in this tick
    pollNow,   \* poll_now
    slab,      \* sessions: handle -> session or Vacant
    vacant,    \* the slab's free list, last freed first
    route,     \* route_by_dcid: set of <<connection ID, handle>>
    parked,    \* pending_release
    (* network and sinks *)
    rx,        \* connections whose server closed, the packet not yet received
    dead,      \* clients whose event sink is closed
    (* JavaScript *)
    phase,     \* of a client
    home,      \* its SharedClientWorkerControl
    handle,    \* its session_handle
    reply,     \* the answer to its OpenSession
    inq,       \* events delivered and not yet dispatched
    seen,      \* kinds of events dispatched to it
    call       \* the client whose native call blocks the thread, or 0

native == <<thread, cmds, wake, pc, left, pollNow, slab, vacant, route, parked>>
script == <<registry, count, phase, home, handle, seen, call>>
vars == <<setup, native, script, rx, dead, reply, inq>>

Handles == 0..setup.handles - 1
Vacant == [id |-> 0, conn |-> "none", due |-> FALSE, emitted |-> FALSE, batch |-> << >>]

\* conn is the state of the QUIC connection: "closing" while a CONNECTION_CLOSE
\* waits to be sent, "draining" once it was sent or received.
\* due: its timer has expired.
Session(c) == [Vacant EXCEPT !.id = c, !.conn = "open"]

Reply(kind, h) == [kind |-> kind, h |-> h]

Phases == {"absent", "idle", "opening", "open", "closing", "waiting", "joining", "closed", "failed"}
Commands == {"open", "close", "release"}
Events == {"close", "complete", "error"}

Init ==
    /\ setup \in Setups
    /\ registry = 0
    /\ thread = [w \in Workers |-> "none"]
    /\ count = [w \in Workers |-> 0]
    /\ cmds = [w \in Workers |-> << >>]
    /\ wake = [w \in Workers |-> FALSE]
    /\ pc = [w \in Workers |-> "poll"]
    /\ left = [w \in Workers |-> 0]
    /\ pollNow = [w \in Workers |-> FALSE]
    /\ slab = [w \in Workers |-> [h \in Handles |-> Vacant]]
    /\ vacant = [w \in Workers |-> [i \in 1..setup.handles |-> i - 1]]
    /\ route = [w \in Workers |-> {}]
    /\ parked = [w \in Workers |-> << >>]
    /\ rx = {} /\ dead = {}
    /\ phase = [c \in Clients |-> IF c <= setup.clients THEN "idle" ELSE "absent"]
    /\ home = [c \in Clients |-> 0]
    /\ handle = [c \in Clients |-> 0]
    /\ reply = [c \in Clients |-> Reply("none", 0)]
    /\ inq = [c \in Clients |-> << >>]
    /\ seen = [c \in Clients |-> {}]
    /\ call = 0

Live(w) == {h \in Handles : slab[w][h] # Vacant}
InOrder(S) == SetToSortSeq(S, <)
May(fault) == fault \in setup.faults

-----------------------------------------------------------------------------
(* The client side: connect. *)

\* The running flag, which the thread clears after the loop has returned.
Running(w) == w # 0 /\ thread[w] \in {"running", "returned"}
Spawned == {w \in Workers : thread[w] # "none"}

\* The worker of the registry while its flag is set, else one to spawn.
acquire_shared_client_worker ==
    IF Running(registry) THEN registry ELSE Cardinality(Spawned) + 1

\* A command is lost once the loop has returned, and with it the receiver.
Sends(w, queue) ==
    IF thread[w] = "running"
    THEN /\ cmds' = [cmds EXCEPT ![w] = @ \o queue]
         /\ wake' = [wake EXCEPT ![w] = TRUE]
    ELSE UNCHANGED <<cmds, wake>>

Command(op, c, h) == [op |-> op, id |-> c, h |-> h]

\* Clients are named in the order in which they connect.
spawn_shared_client_worker(c) ==
    LET w == acquire_shared_client_worker
    IN  /\ phase[c] = "idle" /\ call = 0
        /\ \A d \in 1..c - 1 : phase[d] # "idle"
        /\ registry' = w
        /\ home' = [home EXCEPT ![c] = w]
        /\ IF thread[w] \in {"none", "running"}
           THEN /\ thread' = [thread EXCEPT ![w] = "running"]
                /\ cmds' = [cmds EXCEPT ![w] = Append(@, Command("open", c, 0))]
                /\ wake' = [wake EXCEPT ![w] = TRUE]
                /\ phase' = [phase EXCEPT ![c] = "opening"]
                /\ call' = c
           ELSE /\ phase' = [phase EXCEPT ![c] = "failed"]
                /\ UNCHANGED <<thread, cmds, wake, call>>
        /\ UNCHANGED <<setup, pc, left, pollNow, slab, vacant, route, parked, count,
                       handle, seen, rx, dead, reply, inq>>

\* recv_worker_reply: the answer, the end of the channel (the command was dropped
\* with the receiver), or 2 s without either.
SessionOpened(c) ==
    /\ call = c /\ phase[c] = "opening"
    /\ reply[c].kind = "opened"
    /\ phase' = [phase EXCEPT ![c] = "open"]
    /\ handle' = [handle EXCEPT ![c] = reply[c].h]
    /\ count' = [count EXCEPT ![home[c]] = @ + 1]
    /\ call' = 0
    /\ UNCHANGED <<setup, native, registry, home, seen, rx, dead, reply, inq>>

SessionNotOpened(c) ==
    /\ call = c /\ phase[c] = "opening"
    /\ \/ reply[c].kind = "failed"
       \/ reply[c].kind = "none" /\ thread[home[c]] # "running"
       \/ reply[c].kind = "none" /\ May("reply")
    /\ phase' = [phase EXCEPT ![c] = "failed"]
    /\ call' = 0
    /\ UNCHANGED <<setup, native, registry, count, home, handle, seen, rx, dead, reply, inq>>

-----------------------------------------------------------------------------
(* The client side: close. *)

_shutdownObserved(c) == "complete" \in seen[c]

\* ClientEventLoop.close: worker.close(), then requestShutdown().
Close(c) ==
    /\ phase[c] = "open" /\ call = 0
    /\ Sends(home[c], << Command("close", c, handle[c]) >>)
    /\ phase' = [phase EXCEPT ![c] = "closing"]
    /\ call' = c

close(c) ==
    /\ c \in setup.closers
    /\ Close(c)
    /\ UNCHANGED <<setup, thread, pc, left, pollNow, slab, vacant, route, parked, registry,
                   count, home, handle, seen, rx, dead, reply, inq>>

request_shutdown(c) ==
    /\ phase[c] = "closing" /\ call = c
    /\ Sends(home[c], << Command("release", c, handle[c]) >>)
    /\ phase' = [phase EXCEPT ![c] = "waiting"]
    /\ call' = 0
    /\ UNCHANGED <<setup, thread, pc, left, pollNow, slab, vacant, route, parked, registry,
                   count, home, handle, seen, rx, dead, reply, inq>>

\* The last session of the worker joins its thread.
join(c) ==
    /\ phase[c] = "waiting" /\ call = 0
    /\ _shutdownObserved(c) \/ May("sentinel")
    /\ count' = [count EXCEPT ![home[c]] = @ - 1]
    /\ IF count[home[c]] = 1
       THEN phase' = [phase EXCEPT ![c] = "joining"] /\ call' = c
       ELSE phase' = [phase EXCEPT ![c] = "closed"] /\ UNCHANGED call
    /\ UNCHANGED <<setup, native, registry, home, handle, seen, rx, dead, reply, inq>>

Joined(c) ==
    /\ phase[c] = "joining" /\ call = c
    /\ thread[home[c]] = "stopped"
    /\ registry' = 0
    /\ phase' = [phase EXCEPT ![c] = "closed"]
    /\ call' = 0
    /\ UNCHANGED <<setup, native, count, home, handle, seen, rx, dead, reply, inq>>

\* One event of a batch: SESSION_CLOSE closes the event loop of an open session,
\* SHUTDOWN_COMPLETE is the seen, RUNTIME_ERROR goes to the application.
Dispatch(c) ==
    /\ call = 0 /\ inq[c] # << >>
    /\ inq' = [inq EXCEPT ![c] = Tail(@)]
    /\ seen' = [seen EXCEPT ![c] = @ \cup {Head(inq[c])}]
    /\ IF Head(inq[c]) = "close" /\ phase[c] = "open"
       THEN Close(c)
       ELSE UNCHANGED <<phase, call, cmds, wake>>
    /\ UNCHANGED <<setup, thread, pc, left, pollNow, slab, vacant, route, parked, registry,
                   count, home, handle, rx, dead, reply>>

-----------------------------------------------------------------------------
(* The worker: poll and commands. *)

\* Mutant: the peer's address stays registered.
remove_shared_client_session_KeepsRoute(w, after, gone) ==
    /\ slab' = [slab EXCEPT ![w] = [h \in Handles |-> IF h \in Range(gone) THEN Vacant ELSE after[h]]]
    /\ vacant' = [vacant EXCEPT ![w] = Reverse(gone) \o @]
    /\ UNCHANGED route

\* The slab becomes `after' without the sessions of the handles in `gone'.
remove_shared_client_session(w, after, gone) ==
    /\ slab' = [slab EXCEPT ![w] = [h \in Handles |-> IF h \in Range(gone) THEN Vacant ELSE after[h]]]
    /\ vacant' = [vacant EXCEPT ![w] = Reverse(gone) \o @]
    /\ route' = [route EXCEPT ![w] = {r \in @ : r[2] \notin Range(gone)}]

\* EventBatcher::flush of the sessions of some handles, those in `told' with a last
\* event; a closed sink takes nothing.
Flush(w, handles, told, last) ==
    inq' = [c \in Clients |->
              IF c \in dead \/ \A h \in handles : slab[w][h].id # c THEN inq[c]
              ELSE LET h == CHOOSE h \in handles : slab[w][h].id = c
                   IN  inq[c] \o slab[w][h].batch \o IF h \in told THEN <<last>> ELSE << >>]

Flushed(s) == IF s.id \in dead THEN s ELSE [s EXCEPT !.batch = << >>]

\* Every session is told, up to the first that cannot be flushed.
emit_shared_client_runtime_error(w) ==
    LET told == {h \in Live(w) : \A k \in Live(w) : slab[w][k].id \in dead => h < k}
    IN  Flush(w, told, told, "error")

\* The loop returns: receiver, sessions and sinks are dropped.
Returns(w) ==
    /\ thread' = [thread EXCEPT ![w] = "returned"]
    /\ cmds' = [cmds EXCEPT ![w] = << >>]
    /\ slab' = [slab EXCEPT ![w] = [h \in Handles |-> Vacant]]
    /\ vacant' = [vacant EXCEPT ![w] = << >>]
    /\ route' = [route EXCEPT ![w] = {}]
    /\ parked' = [parked EXCEPT ![w] = << >>]
    /\ wake' = [wake EXCEPT ![w] = FALSE]
    /\ pc' = [pc EXCEPT ![w] = "poll"]
    /\ left' = [left EXCEPT ![w] = 0]
    /\ pollNow' = [pollNow EXCEPT ![w] = FALSE]

Stops(w) ==
    /\ thread[w] = "returned"
    /\ thread' = [thread EXCEPT ![w] = "stopped"]
    /\ UNCHANGED <<setup, cmds, wake, pc, left, pollNow, slab, vacant, route, parked,
                   script, rx, dead, reply, inq>>

Expired(w) == {h \in Live(w) : slab[w][h].due}
Arrived(w) == {r \in route[w] : r[1] \in rx}

Poll(w) ==
    /\ thread[w] = "running" /\ pc[w] = "poll"
    /\ pollNow[w] \/ wake[w] \/ Expired(w) # {} \/ Arrived(w) # {}
    /\ pollNow' = [pollNow EXCEPT ![w] = FALSE]
    /\ wake' = [wake EXCEPT ![w] = FALSE]
    /\ left' = [left EXCEPT ![w] = setup.commands]
    /\ pc' = [pc EXCEPT ![w] = "commands"]
    /\ UNCHANGED <<setup, thread, cmds, slab, vacant, route, parked, script, rx, dead, reply, inq>>

PollFails(w) ==
    /\ thread[w] = "running" /\ pc[w] = "poll" /\ May("driver")
    /\ emit_shared_client_runtime_error(w)
    /\ Returns(w)
    /\ UNCHANGED <<setup, script, rx, dead, reply>>

OpenSession(w, cmd) ==
    \/ LET h == Head(vacant[w]) IN
       /\ slab' = [slab EXCEPT ![w][h] = Session(cmd.id)]
       /\ vacant' = [vacant EXCEPT ![w] = Tail(@)]
       /\ route' = [route EXCEPT ![w] = @ \cup {<< cmd.id, h >>}]
       /\ reply' = [reply EXCEPT ![cmd.id] = Reply("opened", h)]
       /\ UNCHANGED parked
    \/ /\ May("open")
       /\ reply' = [reply EXCEPT ![cmd.id] = Reply("failed", 0)]
       /\ UNCHANGED <<slab, vacant, route, parked>>

\* quiche's close(): an error when the connection is already closing.
close_session(s) == IF s.conn = "open" THEN [s EXCEPT !.conn = "closing", !.due = FALSE] ELSE s

CloseSession(w, cmd) ==
    /\ slab' = [slab EXCEPT ![w][cmd.h] = close_session(@)]
    /\ UNCHANGED <<vacant, route, parked, reply>>

\* The removal waits for the sends of this tick.
ReleaseSession(w, cmd) ==
    /\ parked' = [parked EXCEPT ![w] = Append(@, cmd.h)]
    /\ UNCHANGED <<slab, vacant, route, reply>>

DrainCommand(w) ==
    /\ thread[w] = "running" /\ pc[w] = "commands"
    /\ left[w] > 0 /\ cmds[w] # << >>
    /\ LET cmd == Head(cmds[w]) IN
       \/ cmd.op = "open" /\ OpenSession(w, cmd)
       \/ cmd.op = "close" /\ CloseSession(w, cmd)
       \/ cmd.op = "release" /\ ReleaseSession(w, cmd)
    /\ cmds' = [cmds EXCEPT ![w] = Tail(@)]
    /\ left' = [left EXCEPT ![w] = @ - 1]
    /\ UNCHANGED <<setup, thread, wake, pc, pollNow, script, rx, dead, inq>>

\* Commands left behind have no wake of their own any more.
EndCommands(w) ==
    /\ thread[w] = "running" /\ pc[w] = "commands"
    /\ left[w] = 0 \/ cmds[w] = << >>
    /\ pollNow' = [pollNow EXCEPT ![w] = cmds[w] # << >>]
    /\ pc' = [pc EXCEPT ![w] = "send"]
    /\ UNCHANGED <<setup, thread, cmds, wake, left, slab, vacant, route, parked,
                   script, rx, dead, reply, inq>>

-----------------------------------------------------------------------------
(* The worker: the rest of the tick. *)

\* flush_shared_client_sends and the timers after it: a queued CONNECTION_CLOSE
\* leaves, and the draining period starts.
flush_shared_client_sends(s) == IF s.conn = "closing" THEN [s EXCEPT !.conn = "draining"] ELSE s

\* submit_sends fails only if there is something to send, which a session may
\* always have.
SubmitFails(w) ==
    /\ thread[w] = "running" /\ pc[w] \in {"send", "reap"} /\ May("driver")
    /\ Live(w) # {}
    /\ emit_shared_client_runtime_error(w)
    /\ Returns(w)
    /\ UNCHANGED <<setup, script, rx, dead, reply>>

\* Mutant: the pass does not send.
Send_Nothing(w) ==
    /\ thread[w] = "running" /\ pc[w] = "send"
    /\ pc' = [pc EXCEPT ![w] = "release"]
    /\ UNCHANGED <<setup, thread, cmds, wake, left, pollNow, slab, vacant, route, parked,
                   script, rx, dead, reply, inq>>

Send(w) ==
    /\ thread[w] = "running" /\ pc[w] = "send"
    /\ slab' = [slab EXCEPT ![w] = [h \in Handles |-> flush_shared_client_sends(@[h])]]
    /\ pc' = [pc EXCEPT ![w] = "release"]
    /\ UNCHANGED <<setup, thread, cmds, wake, left, pollNow, vacant, route, parked,
                   script, rx, dead, reply, inq>>

\* push_shutdown_complete, flush and remove, for each of the released.
Complete(w, after, handles) ==
    /\ Flush(w, Live(w), Range(handles), "complete")
    /\ remove_shared_client_session(w, after, handles)

ReleaseParked(w) ==
    LET released == FoldLeft(LAMBDA seq, h : IF h \in Live(w) \ Range(seq) THEN Append(seq, h) ELSE seq,
                             << >>, parked[w])
    IN  /\ thread[w] = "running" /\ pc[w] = "release"
        /\ Complete(w, slab[w], released)
        /\ parked' = [parked EXCEPT ![w] = << >>]
        /\ pc' = [pc EXCEPT ![w] = "receive"]
        /\ UNCHANGED <<setup, thread, cmds, wake, left, pollNow, script, rx, dead, reply>>

\* process_packet_for_handle, for a packet with the server's CONNECTION_CLOSE.
\* quiche then drains; the session ends when its timer expires.
process_packet_for_handle(s) ==
    IF s.conn \in {"open", "closing"} THEN [s EXCEPT !.conn = "draining", !.due = FALSE] ELSE s

emit_session_close(s) ==
    IF s.emitted THEN s ELSE [s EXCEPT !.batch = Append(@, "close"), !.emitted = TRUE]

\* on_timeout ends the connection: idle, or drained.
process_timers_for_handle(s) ==
    IF s.due THEN emit_session_close([s EXCEPT !.conn = "closed", !.due = FALSE]) ELSE s

\* Packets, timers and application events; a session whose events find no sink is removed.
ReceiveAndExpire(w) ==
    LET routed == {r[2] : r \in Arrived(w)}
        received(h) == IF h \in routed THEN process_packet_for_handle(slab[w][h]) ELSE slab[w][h]
    IN  /\ thread[w] = "running" /\ pc[w] = "receive"
        /\ remove_shared_client_session(w, [h \in Handles |-> process_timers_for_handle(received(h))],
                                        InOrder({h \in Live(w) : slab[w][h].id \in dead}))
        /\ rx' = rx \ {r[1] : r \in Arrived(w)}
        /\ pc' = [pc EXCEPT ![w] = "reap"]
        /\ UNCHANGED <<setup, thread, cmds, wake, left, pollNow, parked, script, dead, reply, inq>>

is_reapable(s) == s.emitted

\* The last sends of the tick, then the batches; the loop ends without sessions, once
\* the driver has sent everything (which its next poll waits for).
ReapOrExit(w) ==
    LET closed == {h \in Live(w) : slab[w][h].id \in dead \/ is_reapable(slab[w][h])}
    IN  /\ thread[w] = "running" /\ pc[w] = "reap"
        /\ \E backlog \in {FALSE} \cup (IF May("backlog") THEN {TRUE} ELSE {}) :
           IF closed = Live(w) /\ ~backlog
           THEN Flush(w, Live(w), Live(w), "complete") /\ Returns(w)
           ELSE /\ Complete(w, [h \in Handles |-> Flushed(flush_shared_client_sends(slab[w][h]))],
                            InOrder(closed))
                /\ pc' = [pc EXCEPT ![w] = "poll"]
                /\ left' = [left EXCEPT ![w] = 0]
                /\ wake' = [wake EXCEPT ![w] = @ \/ backlog]
                /\ UNCHANGED <<thread, cmds, pollNow, parked>>
        /\ UNCHANGED <<setup, script, rx, dead, reply>>

-----------------------------------------------------------------------------
(* The environment. *)

\* A timer of quiche: the end of the draining period, or the idle timeout.
TimerExpires(w, h) ==
    /\ thread[w] = "running" /\ h \in Live(w)
    /\ \/ slab[w][h].conn = "draining"
       \/ slab[w][h].conn = "open" /\ setup.idles
    /\ ~slab[w][h].due
    /\ slab' = [slab EXCEPT ![w][h].due = TRUE]
    /\ UNCHANGED <<setup, thread, cmds, wake, pc, left, pollNow, vacant, route, parked,
                   script, rx, dead, reply, inq>>

ServerCloses(w, h) ==
    /\ setup.peers /\ h \in Live(w) /\ slab[w][h].conn = "open"
    /\ slab[w][h].id \notin rx
    /\ rx' = rx \cup {slab[w][h].id}
    /\ UNCHANGED <<setup, native, script, dead, reply, inq>>

SinkCloses(c) ==
    /\ May("sink") /\ phase[c] = "open" /\ c \notin dead
    /\ dead' = dead \cup {c}
    /\ UNCHANGED <<setup, native, script, rx, reply, inq>>

Application(c) == spawn_shared_client_worker(c) \/ close(c)

\* What the JavaScript thread does without being asked.
Script(c) ==
    \/ SessionOpened(c) \/ SessionNotOpened(c)
    \/ request_shutdown(c) \/ join(c) \/ Joined(c) \/ Dispatch(c)

Worker(w) ==
    \/ Poll(w) \/ DrainCommand(w) \/ EndCommands(w) \/ Send(w) \/ ReleaseParked(w)
    \/ ReceiveAndExpire(w) \/ ReapOrExit(w) \/ Stops(w)

Slots == 0 .. Max({u.handles : u \in Setups}) - 1

Next ==
    \/ \E c \in Clients : Application(c) \/ Script(c) \/ SinkCloses(c)
    \/ \E w \in Workers : Worker(w) \/ PollFails(w) \/ SubmitFails(w)
    \/ \E w \in Workers, h \in Slots : TimerExpires(w, h) \/ ServerCloses(w, h)

\* Some thread that can run does, and timers expire.  Nobody has to connect or to
\* call close(), and no server has to close.
Fairness ==
    /\ WF_vars(\E w \in Workers : Worker(w))
    /\ WF_vars(\E c \in Clients : Script(c))
    /\ WF_vars(\E w \in Workers, h \in Slots : TimerExpires(w, h))

SafeSpec == Init /\ [][Next]_vars
Spec == SafeSpec /\ Fairness

-----------------------------------------------------------------------------
(* Properties. *)

\* The type invariant: sessions, routes and joins of the shared workers have their shape,
\* and the session count of a worker (session_count) never falls below zero.
TypeOK ==
    /\ registry \in Workers \cup {0} /\ call \in Clients \cup {0}
    /\ \A w \in Workers :
         /\ thread[w] \in {"none", "running", "returned", "stopped"}
         /\ pc[w] \in {"poll", "commands", "send", "release", "receive", "reap"}
         /\ count[w] \in Nat /\ left[w] \in 0..setup.commands
         /\ Range(vacant[w]) \subseteq Handles /\ route[w] \subseteq Clients \X Handles
         /\ Range(parked[w]) \subseteq Handles
         /\ \A i \in DOMAIN cmds[w] : cmds[w][i].op \in Commands
    /\ \A c \in Clients :
         /\ phase[c] \in Phases /\ home[c] \in Workers \cup {0}
         /\ seen[c] \subseteq Events /\ Range(inq[c]) \subseteq Events

LiveIds(w) == {slab[w][h].id : h \in Live(w)}
Told(c) == seen[c] \cup Range(inq[c])

\* Whatever sessions open, end and reuse slots, route_by_dcid leads from the
\* connection ID of every session to its slot, and from no other ID anywhere.
RoutesToOwner ==
    \A w \in Workers : route[w] = {<< slab[w][h].id, h >> : h \in Live(w)}

\* A session the application still counts on is in the slab, or the worker sent
\* SHUTDOWN_COMPLETE or RUNTIME_ERROR for it, so ClientEventLoop.close() need not
\* run into its timeout.  A closed sink keeps its own client, and on a driver error
\* the ones after it, from being told.
NoSilentLoss ==
    \A c \in Clients :
        phase[c] \in {"open", "closing", "waiting"} =>
            \/ c \in LiveIds(home[c])
            \/ Told(c) \cap {"complete", "error"} # {}
            \/ c \in dead
            \/ dead # {} /\ May("driver")

\* SHUTDOWN_COMPLETE is the last event of a session: none is delivered after it,
\* and the session it ends is not in any slab any more.
SentinelIsLast ==
    \A c \in Clients : "complete" \in Told(c) =>
        /\ \A w \in Workers : c \notin LiveIds(w)
        /\ Last(<< "complete" >> \o inq[c]) = "complete"
        /\ Cardinality({i \in DOMAIN inq[c] : inq[c][i] = "complete"})
             = IF "complete" \in seen[c] THEN 0 ELSE 1
        /\ "complete" \in seen[c] => inq[c] = << >>

\* joinWorker blocks the JavaScript thread only for a worker no other client uses.
JoinsLast ==
    \A c, d \in Clients :
        phase[c] = "joining" /\ c # d /\ home[d] = home[c] =>
            phase[d] \notin {"open", "closing", "waiting", "joining"}

\* A CONNECTION_CLOSE that close() queued leaves before its session is removed
\* ("otherwise the peer never sees the close"), unless the driver failed.
CloseGoesFirst ==
    \A w \in Workers : \A h \in Handles :
       slab[w][h].conn = "closing" /\ slab'[w][h].id # slab[w][h].id =>
           thread'[w] = "returned" /\ May("driver")

\* close() ends, and so does every native call that blocks the JavaScript thread,
\* though a session that answered too late to be counted keeps the thread alive
\* until it idles out: this is what must not last.
Waits == call # 0 \/ \E c \in Clients : phase[c] \in {"closing", "waiting", "joining"}
=============================================================================
