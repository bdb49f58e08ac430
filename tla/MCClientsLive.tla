--------------------------- MODULE MCClientsLive ----------------------------
(***************************************************************************)
(* The clients, and the threads and drivers below them, for progress: raw  *)
(* QUIC clients (QuicClients), the HTTP/3 client (H3Client), the clients   *)
(* of a shared worker (SharedClients) and of the WASM build (WasmClient),  *)
(* the worker threads and their calls (WorkerThreads) and the drivers      *)
(* (ReadinessDrivers, IoUringDriver). They are explored side by side, as   *)
(* in MCClients.                                                           *)
(***************************************************************************)
EXTENDS QuicClients

VARIABLES part, \* which part a behaviour is about
    registry, thread, count, wake, pollNow, slab, vacant, route, parked, rx, dead, phase,
    home, handle, reply, inq, seen, h, wasmLoop, core, app, next, arrived, woken, delivered,
    host, fleet, results, effects, io, waits

-----------------------------------------------------------------------------
(* QuicClients *)

\* A peer that keeps reading, one that answers, and one that opens a stream.
Writing == [kind |-> "shared", sessions |-> {1}, opened |-> {0}, local |-> {}, remote |-> {},
            chunks |-> {1}, finals |-> {1}, body |-> 3, credit |-> 2, reads |-> 0,
            budgets |-> {1}, tick |-> 2, ops |-> {"stop"}]
Exchange == [Writing EXCEPT !.body = 1, !.reads = 2, !.credit = 1, !.budgets = {1, 2}, !.ops = {}]
Remote == [Writing EXCEPT !.opened = {}, !.remote = {1}, !.chunks = {}, !.finals = {},
                          !.reads = 2, !.budgets = {1, 2}, !.ops = {}]

QuicSetups == {Writing, Exchange, Remote}

-----------------------------------------------------------------------------
(* SharedClients *)

\* Two clients whose peers end them, or whose worker answers too late or not at all.
Peers == [clients |-> 2, handles |-> 2, commands |-> 1, closers |-> {1, 2},
          peers |-> TRUE, idles |-> FALSE, faults |-> {}]
Slow == [Peers EXCEPT !.idles = TRUE, !.peers = FALSE, !.faults = {"reply", "open"}]

SharingSetups == {Peers, Slow}

Sharing == INSTANCE SharedClients WITH Setups <- SharingSetups

ASSUME \A u \in SharingSetups : Sharing!Setup(u)

-----------------------------------------------------------------------------
(* H3Client *)

\* The body of a request; a response longer than the window.
Request == [streams |-> {0}, chunks |-> {1}, finals |-> {1}, body |-> 2, credit |-> 2, grants |-> 2,
            script |-> << >>, window |-> 2, hwm |-> 1, budgets |-> {1}, tick |-> 2, ops |-> {"stop"}]
Response == [Request EXCEPT !.chunks = {}, !.finals = {}, !.body = 0, !.credit = 1, !.grants = 0,
                            !.script = <<"H", "D", "D", "D">>, !.budgets = {1, 2},
                            !.ops = {"nobody", "reset"}]

H3Setups == {Request, Response}

H3 == INSTANCE H3Client WITH Setups <- H3Setups

-----------------------------------------------------------------------------
(* WasmClient *)

\* A connection that starts, fails or is closed, over each protocol.
Starts == [proto |-> "h3", initial |-> 1, window |-> 2, body |-> 1, chunk |-> 2, reply |-> 3,
           ticks |-> 2, packets |-> 3, kinds |-> {"hello", "finish", "close"},
           ops |-> {"close", "destroy"}, faults |-> {"socket", "config"}]
RawStarts == [Starts EXCEPT !.proto = "quic", !.body = 0, !.packets = 4,
                            !.kinds = {"hello", "finish", "bad", "close"}]

WasmSetups == {Starts, RawStarts}

Wasm == INSTANCE WasmClient WITH Setups <- WasmSetups, loop <- wasmLoop

-----------------------------------------------------------------------------
(* ReadinessDrivers *)

Poll == [kind |-> "poll", pkts |-> <<1, 1, 2>>, batch |-> 3, room |-> 2, gso |-> TRUE, msgx |-> FALSE,
         chunk |-> 2, maxrx |-> 2, tokens |-> 1, rx |-> 1, wakes |-> 1, norx |-> FALSE,
         faults |-> {"fail", "size", "intr"}, errors |-> 1]
Batched == [Poll EXCEPT !.kind = "kqueue", !.pkts = <<1, 1, 1>>, !.room = 1, !.gso = FALSE,
                        !.msgx = TRUE, !.maxrx = 1, !.faults = {"fail", "nosys", "norecvx"}]
Single == [Batched EXCEPT !.msgx = FALSE, !.norx = TRUE, !.faults = {"fail", "rxerr", "intr"}]
Mock == [Poll EXCEPT !.kind = "mock", !.tokens = 2, !.wakes = 3, !.norx = TRUE,
                     !.faults = {"loss", "closed"}]

ReadySetups == {Poll, Batched, Single, Mock}

Readiness == INSTANCE ReadinessDrivers WITH Setups <- ReadySetups

ASSUME \A u \in ReadySetups : Readiness!Setup(u)

-----------------------------------------------------------------------------
(* WorkerThreads *)

\* One worker whose thread may end under two calls, a fallback driver, a client.
Ends == [kind |-> "h3server", want |-> 1, max_connections |-> 2, auto |-> FALSE,
         fails |-> {}, faults |-> {"ends"}, calls |-> 2, timeouts |-> FALSE]
Fallback == [Ends EXCEPT !.want = 2, !.fails = {"unavailable"}, !.auto = TRUE, !.faults = {}, !.calls = 0]
Client == [Ends EXCEPT !.kind = "quicclient", !.max_connections = 1]

ThreadsSetups == {Ends, Fallback, Client}

Threads == INSTANCE WorkerThreads WITH Setups <- ThreadsSetups

ASSUME \A u \in ThreadsSetups : Threads!Setup(u)

-----------------------------------------------------------------------------
(* IoUringDriver *)

\* GSO on a deferring ring that receives, is woken and loses its multishot receive.
Gso == [pkts |-> <<[len |-> 1, to |-> 1], [len |-> 1, to |-> 1]>>, batch |-> 3, gso |-> TRUE,
        bundle |-> FALSE, defer |-> TRUE, slots |-> 3, cap |-> 3, entry |-> 1, seg |-> 1, waits |-> 1,
        bufs |-> 1, early |-> 0, rx |-> 1, wakes |-> 1, norx |-> TRUE, faults |-> {"size"}, errors |-> 1]

IoSetups == {Gso}

Io == INSTANCE IoUringDriver WITH Setups <- IoSetups

ASSUME \A u \in IoSetups : Io!Setup(u)

-----------------------------------------------------------------------------

QuicRest == <<part,
      registry, thread, count, wake, pollNow, slab, vacant, route, parked, rx, dead, phase,
      home, handle, reply, inq, seen, h, wasmLoop, core, app, next, arrived, woken,
      delivered, host, fleet, results, effects, io, waits>>
SharingRest == <<part,
      queued, pressured, js, inbox, live, ses, releasing, drained, net, h, wasmLoop, core,
      app, next, arrived, woken, delivered, host, fleet, results, effects, io, waits>>
H3Rest == <<part,
      live, ses, left, releasing, registry, thread, count, wake, pollNow, slab, vacant,
      route, parked, rx, dead, phase, home, handle, reply, inq, seen, wasmLoop, core, app,
      next, arrived, woken, delivered, host, fleet, results, effects, io, waits>>
WasmRest == <<part,
      queued, pressured, cmds, call, js, live, ses, pc, left, releasing, drained, registry,
      thread, count, wake, pollNow, slab, vacant, route, parked, rx, dead, phase, home,
      handle, reply, inq, seen, h, next, arrived, woken, delivered, host, fleet, results,
      effects, io, waits>>
ReadyRest == <<part,
      queued, pressured, cmds, call, js, inbox, live, ses, pc, left, releasing, drained,
      registry, thread, count, wake, pollNow, slab, vacant, route, parked, rx, phase, home,
      handle, reply, inq, seen, h, wasmLoop, core, app, host, fleet, results, effects, io,
      waits>>
ThreadsRest == <<part,
      queued, pressured, cmds, js, inbox, live, ses, pc, left, releasing, drained, net,
      registry, thread, count, wake, pollNow, slab, vacant, route, parked, rx, dead, phase,
      home, handle, reply, inq, seen, h, wasmLoop, core, app, next, arrived, woken,
      delivered, io, waits>>
IoRest == <<part,
      queued, pressured, cmds, call, js, inbox, live, ses, left, releasing, drained, net,
      registry, thread, count, wake, pollNow, slab, vacant, route, parked, rx, dead, phase,
      home, handle, reply, inq, seen, h, wasmLoop, core, app, host, fleet, results, effects>>
everything == <<part, vars,
      registry, thread, count, wake, pollNow, slab, vacant, route, parked, rx, dead, phase,
      home, handle, reply, inq, seen, h, wasmLoop, core, app, next, arrived, woken,
      delivered, host, fleet, results, effects, io, waits>>

QuicInit ==
    /\ part = "quic" /\ Init
    /\ registry = 0 /\ thread = 0 /\ count = 0 /\ wake = 0 /\ pollNow = 0 /\ slab = 0
    /\ vacant = 0 /\ route = 0 /\ parked = 0 /\ rx = 0 /\ dead = 0 /\ phase = 0 /\ home = 0
    /\ handle = 0 /\ reply = 0 /\ inq = 0 /\ seen = 0 /\ h = 0 /\ wasmLoop = 0 /\ core = 0
    /\ app = 0 /\ next = 0 /\ arrived = 0 /\ woken = 0 /\ delivered = 0 /\ host = 0
    /\ fleet = 0 /\ results = 0 /\ effects = 0 /\ io = 0 /\ waits = 0
SharingInit ==
    /\ part = "sharing" /\ Sharing!Init
    /\ queued = 0 /\ pressured = 0 /\ js = 0 /\ inbox = 0 /\ live = 0 /\ ses = 0
    /\ releasing = 0 /\ drained = 0 /\ net = 0 /\ h = 0 /\ wasmLoop = 0 /\ core = 0
    /\ app = 0 /\ next = 0 /\ arrived = 0 /\ woken = 0 /\ delivered = 0 /\ host = 0
    /\ fleet = 0 /\ results = 0 /\ effects = 0 /\ io = 0 /\ waits = 0
H3Init ==
    /\ part = "h3" /\ H3!Init
    /\ live = 0 /\ ses = 0 /\ left = 0 /\ releasing = 0 /\ registry = 0 /\ thread = 0
    /\ count = 0 /\ wake = 0 /\ pollNow = 0 /\ slab = 0 /\ vacant = 0 /\ route = 0
    /\ parked = 0 /\ rx = 0 /\ dead = 0 /\ phase = 0 /\ home = 0 /\ handle = 0 /\ reply = 0
    /\ inq = 0 /\ seen = 0 /\ wasmLoop = 0 /\ core = 0 /\ app = 0 /\ next = 0 /\ arrived = 0
    /\ woken = 0 /\ delivered = 0 /\ host = 0 /\ fleet = 0 /\ results = 0 /\ effects = 0
    /\ io = 0 /\ waits = 0
WasmInit ==
    /\ part = "wasm" /\ Wasm!Init
    /\ queued = 0 /\ pressured = 0 /\ cmds = 0 /\ call = 0 /\ js = 0 /\ live = 0 /\ ses = 0
    /\ pc = 0 /\ left = 0 /\ releasing = 0 /\ drained = 0 /\ registry = 0 /\ thread = 0
    /\ count = 0 /\ wake = 0 /\ pollNow = 0 /\ slab = 0 /\ vacant = 0 /\ route = 0
    /\ parked = 0 /\ rx = 0 /\ dead = 0 /\ phase = 0 /\ home = 0 /\ handle = 0 /\ reply = 0
    /\ inq = 0 /\ seen = 0 /\ h = 0 /\ next = 0 /\ arrived = 0 /\ woken = 0 /\ delivered = 0
    /\ host = 0 /\ fleet = 0 /\ results = 0 /\ effects = 0 /\ io = 0 /\ waits = 0
ReadyInit ==
    /\ part = "readiness" /\ Readiness!Init
    /\ queued = 0 /\ pressured = 0 /\ cmds = 0 /\ call = 0 /\ js = 0 /\ inbox = 0
    /\ live = 0 /\ ses = 0 /\ pc = 0 /\ left = 0 /\ releasing = 0 /\ drained = 0
    /\ registry = 0 /\ thread = 0 /\ count = 0 /\ wake = 0 /\ pollNow = 0 /\ slab = 0
    /\ vacant = 0 /\ route = 0 /\ parked = 0 /\ rx = 0 /\ phase = 0 /\ home = 0
    /\ handle = 0 /\ reply = 0 /\ inq = 0 /\ seen = 0 /\ h = 0 /\ wasmLoop = 0 /\ core = 0
    /\ app = 0 /\ host = 0 /\ fleet = 0 /\ results = 0 /\ effects = 0 /\ io = 0 /\ waits = 0
ThreadsInit ==
    /\ part = "threads" /\ Threads!Init
    /\ queued = 0 /\ pressured = 0 /\ cmds = 0 /\ js = 0 /\ inbox = 0 /\ live = 0 /\ ses = 0
    /\ pc = 0 /\ left = 0 /\ releasing = 0 /\ drained = 0 /\ net = 0 /\ registry = 0
    /\ thread = 0 /\ count = 0 /\ wake = 0 /\ pollNow = 0 /\ slab = 0 /\ vacant = 0
    /\ route = 0 /\ parked = 0 /\ rx = 0 /\ dead = 0 /\ phase = 0 /\ home = 0 /\ handle = 0
    /\ reply = 0 /\ inq = 0 /\ seen = 0 /\ h = 0 /\ wasmLoop = 0 /\ core = 0 /\ app = 0
    /\ next = 0 /\ arrived = 0 /\ woken = 0 /\ delivered = 0 /\ io = 0 /\ waits = 0
IoInit ==
    /\ part = "iouring" /\ Io!Init
    /\ queued = 0 /\ pressured = 0 /\ cmds = 0 /\ call = 0 /\ js = 0 /\ inbox = 0
    /\ live = 0 /\ ses = 0 /\ left = 0 /\ releasing = 0 /\ drained = 0 /\ net = 0
    /\ registry = 0 /\ thread = 0 /\ count = 0 /\ wake = 0 /\ pollNow = 0 /\ slab = 0
    /\ vacant = 0 /\ route = 0 /\ parked = 0 /\ rx = 0 /\ dead = 0 /\ phase = 0 /\ home = 0
    /\ handle = 0 /\ reply = 0 /\ inq = 0 /\ seen = 0 /\ h = 0 /\ wasmLoop = 0 /\ core = 0
    /\ app = 0 /\ host = 0 /\ fleet = 0 /\ results = 0 /\ effects = 0

ClientsInit ==
    \/ QuicInit \/ SharingInit \/ H3Init \/ WasmInit \/ ReadyInit \/ ThreadsInit \/ IoInit

ClientsNext ==
    \/ part = "quic" /\ Next /\ UNCHANGED QuicRest
    \/ part = "sharing" /\ Sharing!Next /\ UNCHANGED SharingRest
    \/ part = "h3" /\ H3!Next /\ UNCHANGED H3Rest
    \/ part = "wasm" /\ Wasm!Next /\ UNCHANGED WasmRest
    \/ part = "readiness" /\ Readiness!Next /\ UNCHANGED ReadyRest
    \/ part = "threads" /\ Threads!Next /\ UNCHANGED ThreadsRest
    \/ part = "iouring" /\ Io!Next /\ UNCHANGED IoRest

\* Every part has the fairness of its module.  Actions of different parts share a conjunct:
\* only those of the part a behaviour is about are ever enabled in it.
LiveFairness ==
    /\ WF_everything(\/ part = "quic" /\ (\E x \in AllSessions : x \in Sessions /\ DispatchEvent(x)) /\ UNCHANGED QuicRest
                     \/ part = "sharing" /\ (\E w \in Sharing!Workers : Sharing!Worker(w)) /\ UNCHANGED SharingRest
                     \/ part = "h3" /\ (H3!DispatchEvent \/ H3!Returns) /\ UNCHANGED H3Rest
                     \/ part = "wasm" /\ Wasm!Dispatch /\ UNCHANGED WasmRest
                     \/ part = "readiness" /\ Readiness!Polls(TRUE) /\ UNCHANGED ReadyRest
                     \/ part = "threads" /\ Threads!HostStep /\ UNCHANGED ThreadsRest
                     \/ part = "iouring" /\ Io!PollReturn /\ UNCHANGED IoRest)
    /\ WF_everything(\/ part = "quic" /\ LoopStep /\ UNCHANGED QuicRest
                     \/ part = "sharing" /\ (\E c \in Sharing!Clients : Sharing!Script(c)) /\ UNCHANGED SharingRest
                     \/ part = "h3" /\ H3!LoopStep /\ UNCHANGED H3Rest
                     \/ part = "wasm" /\ (Wasm!SocketConnected \/ Wasm!Resume \/ Wasm!Free) /\ UNCHANGED WasmRest
                     \/ part = "readiness" /\ Readiness!SocketDrains /\ UNCHANGED ReadyRest
                     \/ part = "threads" /\ (Threads!InitHandler(0) \/ Threads!TakeCommand(0)) /\ UNCHANGED ThreadsRest
                     \/ part = "iouring" /\ Io!WaitReturn /\ UNCHANGED IoRest)
    /\ WF_everything(\/ part = "sharing" /\ (\E w \in Sharing!Workers, k \in Sharing!Slots : Sharing!TimerExpires(w, k)) /\ UNCHANGED SharingRest
                     \/ part = "h3" /\ H3!Consumer /\ UNCHANGED H3Rest
                     \/ part = "wasm" /\ Wasm!TimerFire(FALSE) /\ UNCHANGED WasmRest
                     \/ part = "threads" /\ (Threads!InitHandler(1) \/ Threads!TakeCommand(1)) /\ UNCHANGED ThreadsRest
                     \/ part = "iouring" /\ Io!Kernel /\ UNCHANGED IoRest)
    /\ WF_everything(part = "wasm" /\ Wasm!DrainTick(FALSE, FALSE) /\ UNCHANGED WasmRest)
    /\ SF_everything(\/ part = "quic" /\ (\E x \in AllSessions, s \in AllStreams : x \in Sessions /\ s \in Streams /\ CreditArrives(x, s)) /\ UNCHANGED QuicRest
                     \/ part = "h3" /\ (\E s \in H3!AllStreams : s \in H3!Streams /\ H3!CreditArrives(s)) /\ UNCHANGED H3Rest
                     \/ part = "iouring" /\ Io!PollEnter("poll") /\ UNCHANGED IoRest)

ClientsSpec == ClientsInit /\ [][ClientsNext]_everything /\ LiveFairness

-----------------------------------------------------------------------------
(* What must not last, and what is claimed of it. *)

DataWaits ==
    \/ part = "quic" /\ Waits
    \/ part = "h3" /\ H3!Waits
    \/ part = "readiness" /\ Readiness!Promise!Owes
    \/ part = "iouring" /\ Io!Promise!Owes

\* What was written, sent and received moves on: a parked write is admitted or
\* rejected while the session is open and the peer grants credit; the end of a
\* response, and a reset, reach the application, unless it leaves first; the
\* drivers transmit or give up what they hold, deliver what arrived and report
\* wakes: nothing stays unsent for want of a write filter or a completion, or
\* undelivered because poll_without_rx put it off.
DataMoves == DataWaits ~> ~DataWaits

CallWaits ==
    \/ part = "sharing" /\ Sharing!Waits
    \/ part = "threads" /\ Threads!Waits
    \/ part = "wasm" /\ Wasm!Waits

\* Every synchronous call returns, even if its timeout never fires; close() does,
\* on a shared worker, on one of its own and in the WASM build, and so do connect()
\* and the clean-up of a listen that failed; a connection that the peer closes ends
\* the session of a WASM client, which is told, and frees its handle and its
\* socket.
CallsAndClosesReturn == CallWaits ~> ~CallWaits
=============================================================================
