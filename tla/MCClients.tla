----------------------------- MODULE MCClients ------------------------------
(***************************************************************************)
(* The clients, for safety: those that share a worker (SharedClients), the *)
(* HTTP/3 client and one connection of it (H3Client), and the client of    *)
(* the WASM build (WasmClient). They are explored side by side: `part'     *)
(* says which of them a behaviour is about. Variables of the same name are *)
(* shared, and those a part does not have stay 0.                          *)
(***************************************************************************)
EXTENDS SharedClients

CONSTANTS HighParam, LowParam

VARIABLES part, \* which part a behaviour is about
    queued, pressured, js, inbox, h, drained, net, loop, core, app

-----------------------------------------------------------------------------
(* SharedClients *)

Two == [clients |-> 2, handles |-> 2, commands |-> 1, closers |-> {1, 2},
        peers |-> TRUE, idles |-> FALSE, faults |-> {}]

\* Two clients and a worker that is too slow; a driver that fails and sinks that close;
\* sessions that cannot be opened.
Slow == [Two EXCEPT !.idles = TRUE, !.peers = FALSE, !.faults = {"reply", "sentinel"}]
Failing == [Two EXCEPT !.closers = {1}, !.faults = {"driver", "sink"}]
Opening == [Two EXCEPT !.closers = {1}, !.faults = {"open", "backlog"}]

\* Three clients of one worker.
Three == [Two EXCEPT !.clients = 3, !.handles = 3, !.peers = FALSE]

SharingSetups == {Slow, Failing, Opening, Three}

-----------------------------------------------------------------------------
(* H3Client *)

H3Base == [streams |-> {0}, chunks |-> {}, finals |-> {}, body |-> 0, credit |-> 1, grants |-> 0,
           script |-> <<>>, window |-> 2, hwm |-> 1, budgets |-> {1}, tick |-> 2, ops |-> {"nobody"}]

\* The body of a request, written to its end while it is stopped or destroyed
\* and the session closed from either side.
Writing == [H3Base EXCEPT !.chunks = {1}, !.finals = {1}, !.body = 2, !.credit = 2, !.grants = 1,
                          !.ops = {"destroy", "stop", "peerclose"}]
Closing == [Writing EXCEPT !.finals = {0}, !.ops = {"close", "datagram"}]

\* A response longer than the window, read under every budget, reset or left.
Reading == [H3Base EXCEPT !.script = <<"H", "D", "D", "D">>, !.budgets = {0, 1, 2},
                          !.ops = {"nobody", "reset", "dgram", "idle"}]
Leaving == [Reading EXCEPT !.script = <<"H", "D", "H">>, !.window = 1, !.budgets = {1, 2},
                           !.ops = {"nobody", "destroy", "statelessreset", "broken"}]

\* Two responses read at once; requests that block, time out or are refused.
TwoReads == [H3Base EXCEPT !.streams = {0, 4}, !.script = <<"H", "D">>, !.window = 1, !.budgets = {1, 2}]
Requests == [H3Base EXCEPT !.streams = {0, 4}, !.credit = 0, !.grants = 1,
                           !.ops = {"nobody", "timeout", "goaway"}]

\* A request and its response on one stream.
Exchange == [Writing EXCEPT !.body = 1, !.credit = 1, !.grants = 1, !.script = <<"H", "D">>,
                            !.window = 1, !.ops = {"stop"}]

H3Setups == {Writing, Closing, Reading, Leaving, TwoReads, Requests, Exchange}

H3 == INSTANCE H3Client WITH Setups <- H3Setups

-----------------------------------------------------------------------------
(* WasmClient *)

\* A request against credit in both directions, over each protocol.
Bodies == [proto |-> "h3", initial |-> 1, window |-> 2, body |-> 3, chunk |-> 2, reply |-> 3,
           ticks |-> 2, packets |-> 6,
           kinds |-> {"hello", "finish", "data", "end", "credit", "stop", "close", "reset"},
           ops |-> {"close", "destroy"}, faults |-> {}]
RawBodies == [Bodies EXCEPT !.proto = "quic"]

\* An empty body, and a connection that starts and fails.
Empty == [Bodies EXCEPT !.body = 0, !.initial = 0, !.reply = 0]
Starts == [Bodies EXCEPT !.packets = 3, !.kinds = {"hello", "finish", "bad", "close"},
                         !.faults = {"socket", "config"}, !.body = 1]
RawStarts == [Starts EXCEPT !.proto = "quic"]

WasmSetups == {Bodies, RawBodies, Empty, Starts, RawStarts}

Wasm == INSTANCE WasmClient WITH Setups <- WasmSetups

-----------------------------------------------------------------------------

SharingRest == <<part,
      queued, pressured, js, inbox, h, drained, net, loop, core, app>>
H3Rest == <<part,
      registry, thread, count, wake, left, pollNow, slab, vacant, route, parked, rx, dead,
      phase, home, handle, reply, inq, seen, loop, core, app>>
WasmRest == <<part,
      registry, thread, count, cmds, wake, pc, left, pollNow, slab, vacant, route, parked,
      rx, dead, phase, home, handle, reply, inq, seen, call, queued, pressured, js, h,
      drained>>
everything == <<part, vars,
      queued, pressured, js, inbox, h, drained, net, loop, core, app>>

SharingInit ==
    /\ part = "sharing" /\ Init
    /\ queued = 0 /\ pressured = 0 /\ js = 0 /\ inbox = 0 /\ h = 0 /\ drained = 0 /\ net = 0
    /\ loop = 0 /\ core = 0 /\ app = 0
H3Init ==
    /\ part = "h3" /\ H3!Init
    /\ registry = 0 /\ thread = 0 /\ count = 0 /\ wake = 0 /\ left = 0 /\ pollNow = 0
    /\ slab = 0 /\ vacant = 0 /\ route = 0 /\ parked = 0 /\ rx = 0 /\ dead = 0 /\ phase = 0
    /\ home = 0 /\ handle = 0 /\ reply = 0 /\ inq = 0 /\ seen = 0 /\ loop = 0 /\ core = 0
    /\ app = 0
WasmInit ==
    /\ part = "wasm" /\ Wasm!Init
    /\ registry = 0 /\ thread = 0 /\ count = 0 /\ cmds = 0 /\ wake = 0 /\ pc = 0 /\ left = 0
    /\ pollNow = 0 /\ slab = 0 /\ vacant = 0 /\ route = 0 /\ parked = 0 /\ rx = 0
    /\ dead = 0 /\ phase = 0 /\ home = 0 /\ handle = 0 /\ reply = 0 /\ inq = 0 /\ seen = 0
    /\ call = 0 /\ queued = 0 /\ pressured = 0 /\ js = 0 /\ h = 0 /\ drained = 0

ClientsInit ==
    \/ SharingInit \/ H3Init \/ WasmInit

ClientsNext ==
    \/ part = "sharing" /\ Next /\ UNCHANGED SharingRest
    \/ part = "h3" /\ H3!Next /\ UNCHANGED H3Rest
    \/ part = "wasm" /\ Wasm!Next /\ UNCHANGED WasmRest

ClientsSpec == ClientsInit /\ [][ClientsNext]_everything

-----------------------------------------------------------------------------
(* The properties of the parts. *)

\* Sessions that share a worker are told apart and told of their end: an event goes
\* to the session whose handle it names (shared_client routes), a session that ends
\* is told so before it is forgotten, the sentinel is the last event, and a worker
\* is joined once, by its last session.
SessionsAreTold == part = "sharing" => /\ TypeOK /\ RoutesToOwner /\ NoSilentLoss
                                       /\ SentinelIsLast /\ JoinsLast

\* The admission window of a client holds exactly the units of what is queued,
\* retained or being released, each payload being admitted once however often it is
\* retried.
WindowsTight ==
    /\ part = "h3" => H3!TypeOK /\ H3!WindowTight
    /\ part = "wasm" => Wasm!TypeOK /\ Wasm!AdmittedOnce

\* A request reaches quiche whole and the end of a response follows its last byte:
\* no byte written is lost while its stream lives, and JavaScript sees the end only
\* after everything quiche had (connection.rs).
BodyIntact == part = "h3" => H3!NoByteLost /\ H3!EndMeansAll

\* Read credit is returned once for every byte consumed, and a stream paused for
\* want of it is remembered until it is read again (pending_readable): no body
\* stalls for credit that was given.
CreditKept ==
    /\ part = "h3" => H3!CreditConserved /\ H3!PausedIsRemembered
    /\ part = "wasm" => Wasm!CreditConserved

\* A chunk parked in JavaScript has something still to come that tries it again or
\* rejects it (stream.ts, the WASM streams), on workers with one session.
WritersHaveWakers ==
    /\ part = "h3" => H3!ParkedHasWaker
    /\ part = "wasm" => Wasm!ParkedHasWaker

\* The WASM client leaves nothing behind: once closed it has freed its session,
\* socket and timer, whichever of connect() and close() ends last; and between
\* tasks nothing it could send waits and its timer is current.
NothingLeft == part = "wasm" => Wasm!NothingLeft /\ Wasm!IdleMeansDrained /\ Wasm!TimerIsCurrent

\* A CONNECTION_CLOSE that close() queued leaves before its session is removed
\* ("otherwise the peer never sees the close"), unless the driver failed.
CloseLeaves == [][part = "sharing" => CloseGoesFirst]_everything
=============================================================================
