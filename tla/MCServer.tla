------------------------------ MODULE MCServer ------------------------------
(***************************************************************************)
(* The servers, for safety: the write path of an HTTP/3 connection         *)
(* (H3ServerWrites), the sessions of an HTTP/3 server (ServerSessions) and *)
(* the servers of the WASM build, which have a loop of their own           *)
(* (WasmServer). They are explored side by side: `part' says which of them *)
(* a behaviour is about. Variables of the same name are shared, and those  *)
(* a part does not have stay 0.                                            *)
(***************************************************************************)
EXTENDS H3ServerWrites

CONSTANTS s1, s2

VARIABLES part, \* which part a behaviour is about
    conns, free, by_dcid, deferred, expired, pc, queue, sessions, streams, handleOf,
    closing, destroyed, gone, server, sentinel, loop, core, app, net

-----------------------------------------------------------------------------
(* H3ServerWrites *)

\* Two streams of one connection share the window and block on flow control.
TwoStreams ==
    [streams |-> {s1, s2}, responded |-> {s1, s2}, chunks |-> {1}, finals |-> {},
     body |-> 2, credit |-> 1, datagrams |-> 0, ops |-> {}]
TwoEnds == [TwoStreams EXCEPT !.chunks = {}, !.finals = {1, 2}]

\* One stream from HEADERS to its end, in every way it can end.
Teardown ==
    [streams |-> {s1}, responded |-> {}, chunks |-> {1}, finals |-> {},
     body |-> 1, credit |-> 3, datagrams |-> 0,
     ops |-> {"destroy", "stop", "reset", "close", "endStream"}]
Cancelling == [Teardown EXCEPT !.finals = {1}, !.body = 2, !.credit = 2, !.ops = {"destroy", "stop", "reset"}]

\* Whole responses: of a connection that may close, and against a window that
\* another stream has filled.
Whole == [Teardown EXCEPT !.chunks = {}, !.finals = {0, 1}, !.credit = 2,
                          !.ops = {"close", "stop", "respondWithBody"}]
Refused ==
    [streams |-> {s1, s2}, responded |-> {s1}, chunks |-> {2}, finals |-> {1},
     body |-> 2, credit |-> 0, datagrams |-> 0, ops |-> {"respondWithBody", "trailers"}]

\* Datagrams take window beside a stream that is torn down.
Datagrams == [Teardown EXCEPT !.chunks = {2}, !.body = 2, !.credit = 2, !.datagrams = 1, !.ops = {"destroy", "close"}]

\* One stream ended by end() or end(chunk).
Endings ==
    [streams |-> {s1}, responded |-> {}, chunks |-> {1, 2}, finals |-> {0, 1},
     body |-> 3, credit |-> 3, datagrams |-> 0, ops |-> {}]

\* Two streams that end with trailers; the room a cancelled one frees lets those of
\* the other overtake its pending write.
Trailers == [TwoStreams EXCEPT !.body = 1, !.credit = 2, !.ops = {"trailers", "destroy"}]

WritesSetups == {TwoStreams, TwoEnds, Teardown, Cancelling, Whole, Refused, Datagrams, Endings, Trailers}

-----------------------------------------------------------------------------
(* ServerSessions *)

\* One slot, two connections, one request stream each, nothing done by the user.
Basic ==
    [workers |-> 1, span |-> 1, connections |-> 1, scids |-> 1, sessions |-> 2,
     streams |-> {0}, pauses |-> FALSE, ops |-> {}]

\* Three connections in two slots.
Slab == [Basic EXCEPT !.span = 2, !.connections = 2, !.sessions = 3, !.streams = {}]

\* Two shards of one slot each.
Shards == [Basic EXCEPT !.workers = 2, !.streams = {}]

\* Connection IDs issued and retired over three connections in one slot.
Routes == [Basic EXCEPT !.scids = 3, !.sessions = 3, !.streams = {}]

\* Streams that are written, cancelled and reset, with polls that may be paused; and
\* streams that are closed with their session.
Requests == [Basic EXCEPT !.ops = {"write", "cancel"}, !.pauses = TRUE]
Closes == [Basic EXCEPT !.ops = {"cancel", "close"}]

\* The server is closed while its sessions are.
Ending == [Basic EXCEPT !.ops = {"close", "server"}]

\* Sessions that are destroyed with a stream open.
Destroying == [Basic EXCEPT !.ops = {"destroy"}]

SessionsSetups == {Slab, Shards, Routes, Requests, Closes, Ending, Destroying}

Sessions == INSTANCE ServerSessions WITH Setups <- SessionsSetups

ASSUME \A u \in SessionsSetups : Sessions!Setup(u)

-----------------------------------------------------------------------------
(* WasmServer *)

WasmBase == [proto |-> "h3", retry |-> FALSE, no_cert |-> FALSE, max_connections |-> 1,
         clients |-> {"a"}, initial |-> 1, body |-> 3, chunk |-> 2, ticks |-> 2, packets |-> 6,
         kinds |-> {"initial", "finish", "request", "credit", "stop", "close"},
         ops |-> {}, faults |-> {}]

\* One HTTP/3 connection: a response against credit, a stop and a deferred close.
Bodies == [WasmBase EXCEPT !.ops = {"withBody", "destroy", "closeSession"}, !.packets = 7]

\* The same over raw QUIC.
RawBodies == [WasmBase EXCEPT !.proto = "quic", !.ops = {"destroy", "closeSession"}, !.packets = 7]

\* Two clients share one slot, one after the other; a deferred close, retries.
Reuse == [WasmBase EXCEPT !.clients = {"a", "b"}, !.retry = TRUE, !.packets = 8, !.body = 1,
                      !.kinds = {"initial", "token", "finish", "close"},
                      !.ops = {"closeSession"}]

\* Two slots, a first packet that is refused, and the end of the server.
Closing == [WasmBase EXCEPT !.clients = {"a", "b"}, !.max_connections = 2, !.packets = 4, !.body = 1,
                        !.kinds = {"initial", "junk", "finish", "close"},
                        !.ops = {"closeSession", "close"}, !.faults = {"badConfig"}]

\* A client certificate is required and missing.
NoCert == [WasmBase EXCEPT !.no_cert = TRUE, !.packets = 4, !.ops = {"closeSession", "close"}]

\* Two HTTP/3 connections with small bodies; an empty body over each protocol.
Pair == [WasmBase EXCEPT !.clients = {"a", "b"}, !.max_connections = 2, !.initial = 0, !.body = 1,
                     !.kinds = {"initial", "finish", "request", "credit"}, !.packets = 5,
                     !.ops = {"withBody"}]
NoBody == [WasmBase EXCEPT !.body = 0, !.initial = 0, !.ops = {"destroy"}]
RawNoBody == [NoBody EXCEPT !.proto = "quic"]

WasmSetups == {Bodies, RawBodies, Reuse, Closing, NoCert, Pair, NoBody, RawNoBody}

Wasm == INSTANCE WasmServer WITH Setups <- WasmSetups

-----------------------------------------------------------------------------

WritesRest == <<part,
      conns, free, by_dcid, deferred, expired, pc, queue, sessions, streams, handleOf,
      closing, destroyed, gone, server, sentinel, loop, core, app, net>>
SessionsRest == <<part,
      queued, pressured, inbox, life, headersSent, finSent, blocked, parked, todo,
      closeSent, datagrams, phase, conn, writes, responses, cap, granted, qlife, qhdr,
      qsent, qfin, qtrailers, blocked_set, loop, core, app, net>>
WasmRest == <<part,
      queued, pressured, cmds, life, headersSent, finSent, blocked, parked, todo, closeSent,
      datagrams, phase, conn, writes, responses, batch, cap, granted, qlife, qhdr, qsent,
      qfin, qtrailers, blocked_set, accepted, conns, free, by_dcid, deferred, expired, pc,
      queue, sessions, streams, handleOf, closing, destroyed, gone, server, sentinel>>
everything == <<part, vars,
      conns, free, by_dcid, deferred, expired, pc, queue, sessions, streams, handleOf,
      closing, destroyed, gone, server, sentinel, loop, core, app, net>>

WritesInit ==
    /\ part = "writes" /\ Init
    /\ conns = 0 /\ free = 0 /\ by_dcid = 0 /\ deferred = 0 /\ expired = 0 /\ pc = 0
    /\ queue = 0 /\ sessions = 0 /\ streams = 0 /\ handleOf = 0 /\ closing = 0
    /\ destroyed = 0 /\ gone = 0 /\ server = 0 /\ sentinel = 0 /\ loop = 0 /\ core = 0
    /\ app = 0 /\ net = 0
SessionsInit ==
    /\ part = "sessions" /\ Sessions!Init
    /\ queued = 0 /\ pressured = 0 /\ inbox = 0 /\ life = 0 /\ headersSent = 0
    /\ finSent = 0 /\ blocked = 0 /\ parked = 0 /\ todo = 0 /\ closeSent = 0
    /\ datagrams = 0 /\ phase = 0 /\ conn = 0 /\ writes = 0 /\ responses = 0 /\ cap = 0
    /\ granted = 0 /\ qlife = 0 /\ qhdr = 0 /\ qsent = 0 /\ qfin = 0 /\ qtrailers = 0
    /\ blocked_set = 0 /\ loop = 0 /\ core = 0 /\ app = 0 /\ net = 0
WasmInit ==
    /\ part = "wasm" /\ Wasm!Init
    /\ queued = 0 /\ pressured = 0 /\ cmds = 0 /\ life = 0 /\ headersSent = 0 /\ finSent = 0
    /\ blocked = 0 /\ parked = 0 /\ todo = 0 /\ closeSent = 0 /\ datagrams = 0 /\ phase = 0
    /\ conn = 0 /\ writes = 0 /\ responses = 0 /\ batch = 0 /\ cap = 0 /\ granted = 0
    /\ qlife = 0 /\ qhdr = 0 /\ qsent = 0 /\ qfin = 0 /\ qtrailers = 0 /\ blocked_set = 0
    /\ accepted = 0 /\ conns = 0 /\ free = 0 /\ by_dcid = 0 /\ deferred = 0 /\ expired = 0
    /\ pc = 0 /\ queue = 0 /\ sessions = 0 /\ streams = 0 /\ handleOf = 0 /\ closing = 0
    /\ destroyed = 0 /\ gone = 0 /\ server = 0 /\ sentinel = 0

ServerInit ==
    \/ WritesInit \/ SessionsInit \/ WasmInit

ServerNext ==
    \/ part = "writes" /\ Next /\ UNCHANGED WritesRest
    \/ part = "sessions" /\ Sessions!Next /\ UNCHANGED SessionsRest
    \/ part = "wasm" /\ Wasm!Next /\ UNCHANGED WasmRest
    \/ part \in {"wasm"} /\ UNCHANGED everything

ServerSpec == ServerInit /\ [][ServerNext]_everything

-----------------------------------------------------------------------------
(* The properties of the parts. *)

\* The admission window holds exactly the units of what is on its way: the
\* variables keep their types, and the counter is the sum of what commands,
\* retained payloads and releases account for (worker.rs), the WASM server
\* admitting every payload once however often it retries it (wasm).
WindowsTight ==
    /\ part = "writes" => TypeOK /\ WindowTight
    /\ part = "wasm" => Wasm!TypeOK /\ Wasm!AdmittedOnce

\* A response reaches quiche whole and in order: no byte written is lost while its
\* stream lives, quiche has the FIN of an ended response or someone still owes it,
\* a FIN follows the last byte, and DRAIN is reported only for a stream whose
\* retained bytes are flushed, so that no later write overtakes them. The bytes of
\* a stream whose trailers quiche has taken are left out: trailers overtake them.
BodyIntact == part = "writes" => NoByteLost /\ FinOwed /\ FinMeansComplete /\ DrainMeansFlushed

\* A chunk parked in JavaScript with its callback has something still to come that
\* tries it again or rejects it: credit, a release, DRAIN, RESET or the end of the
\* session (stream.ts, the WASM streams).
WritersHaveWakers ==
    /\ part = "writes" => ParkedHasWaker
    /\ part = "wasm" => Wasm!ParkedHasWaker

\* JavaScript and the worker agree on which sessions exist, as of the events on
\* their way: SESSION_CLOSE comes once for every announced session and before its
\* slot is announced again, a session that is gone natively is not forgotten in
\* JavaScript, and the streams of a closed session are closed with it.
SessionsAgree ==
    /\ part = "sessions" => /\ Sessions!TypeOK
                            /\ Sessions!SessionEventsInStep
                            /\ Sessions!SessionNotForgotten
                            /\ Sessions!StreamsGoWithSession
    /\ part = "wasm" => Wasm!SlotsInStep

\* What names a slot belongs to the connection in it: every connection ID that
\* routes a packet was issued by the connection it leads to, through the reuse of
\* slots (connection_map.rs), and a close the WASM server has deferred is for the
\* connection that asked for it.
RoutesToOwners ==
    /\ part = "sessions" => Sessions!RoutesToOwner
    /\ part = "wasm" => Wasm!DeferredCloseIsOwn

\* Between two tasks of the WASM server nothing that could be sent or dispatched
\* waits, and its one timer is no later than the earliest deadline of the core
\* (h3-server-event-loop.ts, pump and rearm).
LoopIsArmed == part = "wasm" => Wasm!IdleMeansDrained /\ Wasm!TimerCovers
=============================================================================
