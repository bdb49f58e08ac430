---------------------------- MODULE MCServerLive ----------------------------
(***************************************************************************)
(* The servers, for progress: the write path of an HTTP/3 connection       *)
(* (H3ServerWrites), the sessions of the HTTP/3 server (ServerSessions),   *)
(* of the raw QUIC server (QuicServer) and of the WASM servers             *)
(* (WasmServer), and the delivery of events (EventDelivery). They are      *)
(* explored side by side, as in MCServer.                                  *)
(***************************************************************************)
EXTENDS H3ServerWrites

CONSTANTS s1

VARIABLES part, \* which part a behaviour is about
    conns, free, by_dcid, deferred, expired, pc, queue, sessions, streams, handleOf,
    closing, destroyed, gone, server, sentinel, srv, js, issued, tokens, net, loop, core,
    app, outstanding, stale, loopPc, drained, pollNow, wake, packets, events, taken, after,
    left, healed, lost

-----------------------------------------------------------------------------
(* H3ServerWrites *)

\* A peer that keeps reading a response that ends with end(chunk), or with end().
Reading ==
    [streams |-> {s1}, responded |-> {}, chunks |-> {1}, finals |-> {1},
     body |-> 2, credit |-> 3, datagrams |-> 0, ops |-> {"destroy", "stop"}]

ReadingEnd == [Reading EXCEPT !.finals = {0}, !.body = 1]

WritesSetups == {Reading, ReadingEnd}

-----------------------------------------------------------------------------
(* ServerSessions *)

\* Two connections, one after the other, closed from either side.
SessionsSetups ==
    {[workers |-> 1, span |-> 1, connections |-> 1, scids |-> 1, sessions |-> 2,
      streams |-> {0}, pauses |-> FALSE, ops |-> {"close"}]}

Sessions == INSTANCE ServerSessions WITH Setups <- SessionsSetups

ASSUME \A u \in SessionsSetups : Sessions!Setup(u)

-----------------------------------------------------------------------------
(* QuicServer *)

QuicSetups ==
    {[workers |-> 1, span |-> 1, max |-> 1, home |-> <<0, 0>>, retry |-> FALSE, cert |-> FALSE,
      sessions |-> 2, scids |-> 1, streams |-> {}, chunks |-> {}, finals |-> {}, body |-> 0,
      credit |-> 0, reads |-> 0, budgets |-> {2}, ops |-> {"close", "idle"}]}

Quic == INSTANCE QuicServer WITH Setups <- QuicSetups

-----------------------------------------------------------------------------
(* WasmServer *)

\* Two slots; and a response over raw QUIC.
Two == [proto |-> "h3", retry |-> FALSE, no_cert |-> FALSE, max_connections |-> 2,
        clients |-> {"a", "b"}, initial |-> 1, body |-> 1, chunk |-> 2, ticks |-> 2, packets |-> 3,
        kinds |-> {"initial", "finish"}, ops |-> {"closeSession", "close"}, faults |-> {"badConfig"}]
Raw == [Two EXCEPT !.proto = "quic", !.max_connections = 1, !.clients = {"a"}, !.body = 3,
                   !.kinds = {"initial", "finish", "request", "credit", "stop", "close"}, !.faults = {}]

WasmSetups == {Two, Raw}

Wasm == INSTANCE WasmServer WITH Setups <- WasmSetups

-----------------------------------------------------------------------------
(* EventDelivery *)

DeliverySetups ==
    {[bindings |-> {{1}}, batch |-> 1, conns |-> 2, app |-> 3, ctl |-> 0, sends |-> 1,
      faults |-> {"driver", "slow"}]}

Delivery == INSTANCE EventDelivery WITH
    Setups <- DeliverySetups, MaxCommands <- 1, pc <- loopPc, ready <- events

ASSUME \A u \in DeliverySetups : Delivery!Setup(u)

-----------------------------------------------------------------------------

WritesRest == <<part,
      conns, free, by_dcid, deferred, expired, pc, queue, sessions, streams, handleOf,
      closing, destroyed, gone, server, sentinel, srv, js, issued, tokens, net, loop, core,
      app, outstanding, stale, loopPc, drained, pollNow, wake, packets, events, taken,
      after, left, healed, lost>>
SessionsRest == <<part,
      queued, pressured, inbox, life, headersSent, finSent, blocked, parked, todo,
      closeSent, datagrams, phase, conn, writes, responses, cap, granted, qlife, qhdr,
      qsent, qfin, qtrailers, blocked_set, srv, js, issued, tokens, net, loop, core, app,
      outstanding, stale, loopPc, drained, pollNow, wake, packets, events, taken, after,
      left, healed, lost>>
QuicRest == <<part,
      queued, pressured, life, headersSent, finSent, blocked, parked, todo, closeSent,
      datagrams, phase, conn, writes, responses, batch, cap, granted, qlife, qhdr, qsent,
      qfin, qtrailers, blocked_set, conns, free, by_dcid, deferred, expired, pc, queue,
      streams, handleOf, closing, destroyed, gone, sentinel, loop, core, app, outstanding,
      stale, loopPc, drained, pollNow, wake, packets, events, taken, after, left, healed,
      lost>>
WasmRest == <<part,
      queued, pressured, cmds, life, headersSent, finSent, blocked, parked, todo, closeSent,
      datagrams, phase, conn, writes, responses, batch, cap, granted, qlife, qhdr, qsent,
      qfin, qtrailers, blocked_set, accepted, conns, free, by_dcid, deferred, expired, pc,
      queue, sessions, streams, handleOf, closing, destroyed, gone, server, sentinel, srv,
      js, issued, tokens, outstanding, stale, loopPc, drained, pollNow, wake, packets,
      events, taken, after, left, healed, lost>>
DeliveryRest == <<part,
      queued, pressured, inbox, life, headersSent, finSent, blocked, parked, todo,
      closeSent, datagrams, phase, conn, writes, responses, cap, granted, qlife, qhdr,
      qsent, qfin, qtrailers, blocked_set, accepted, conns, free, by_dcid, deferred,
      expired, pc, sessions, streams, handleOf, closing, destroyed, gone, server, srv,
      issued, tokens, net, loop, core, app>>
everything == <<part, vars,
      conns, free, by_dcid, deferred, expired, pc, queue, sessions, streams, handleOf,
      closing, destroyed, gone, server, sentinel, srv, js, issued, tokens, net, loop, core,
      app, outstanding, stale, loopPc, drained, pollNow, wake, packets, events, taken,
      after, left, healed, lost>>

WritesInit ==
    /\ part = "writes" /\ Init
    /\ conns = 0 /\ free = 0 /\ by_dcid = 0 /\ deferred = 0 /\ expired = 0 /\ pc = 0
    /\ queue = 0 /\ sessions = 0 /\ streams = 0 /\ handleOf = 0 /\ closing = 0
    /\ destroyed = 0 /\ gone = 0 /\ server = 0 /\ sentinel = 0 /\ srv = 0 /\ js = 0
    /\ issued = 0 /\ tokens = 0 /\ net = 0 /\ loop = 0 /\ core = 0 /\ app = 0
    /\ outstanding = 0 /\ stale = 0 /\ loopPc = 0 /\ drained = 0 /\ pollNow = 0 /\ wake = 0
    /\ packets = 0 /\ events = 0 /\ taken = 0 /\ after = 0 /\ left = 0 /\ healed = 0
    /\ lost = 0
SessionsInit ==
    /\ part = "sessions" /\ Sessions!Init
    /\ queued = 0 /\ pressured = 0 /\ inbox = 0 /\ life = 0 /\ headersSent = 0
    /\ finSent = 0 /\ blocked = 0 /\ parked = 0 /\ todo = 0 /\ closeSent = 0
    /\ datagrams = 0 /\ phase = 0 /\ conn = 0 /\ writes = 0 /\ responses = 0 /\ cap = 0
    /\ granted = 0 /\ qlife = 0 /\ qhdr = 0 /\ qsent = 0 /\ qfin = 0 /\ qtrailers = 0
    /\ blocked_set = 0 /\ srv = 0 /\ js = 0 /\ issued = 0 /\ tokens = 0 /\ net = 0
    /\ loop = 0 /\ core = 0 /\ app = 0 /\ outstanding = 0 /\ stale = 0 /\ loopPc = 0
    /\ drained = 0 /\ pollNow = 0 /\ wake = 0 /\ packets = 0 /\ events = 0 /\ taken = 0
    /\ after = 0 /\ left = 0 /\ healed = 0 /\ lost = 0
QuicInit ==
    /\ part = "quic" /\ Quic!Init
    /\ queued = 0 /\ pressured = 0 /\ life = 0 /\ headersSent = 0 /\ finSent = 0
    /\ blocked = 0 /\ parked = 0 /\ todo = 0 /\ closeSent = 0 /\ datagrams = 0 /\ phase = 0
    /\ conn = 0 /\ writes = 0 /\ responses = 0 /\ batch = 0 /\ cap = 0 /\ granted = 0
    /\ qlife = 0 /\ qhdr = 0 /\ qsent = 0 /\ qfin = 0 /\ qtrailers = 0 /\ blocked_set = 0
    /\ conns = 0 /\ free = 0 /\ by_dcid = 0 /\ deferred = 0 /\ expired = 0 /\ pc = 0
    /\ queue = 0 /\ streams = 0 /\ handleOf = 0 /\ closing = 0 /\ destroyed = 0 /\ gone = 0
    /\ sentinel = 0 /\ loop = 0 /\ core = 0 /\ app = 0 /\ outstanding = 0 /\ stale = 0
    /\ loopPc = 0 /\ drained = 0 /\ pollNow = 0 /\ wake = 0 /\ packets = 0 /\ events = 0
    /\ taken = 0 /\ after = 0 /\ left = 0 /\ healed = 0 /\ lost = 0
WasmInit ==
    /\ part = "wasm" /\ Wasm!Init
    /\ queued = 0 /\ pressured = 0 /\ cmds = 0 /\ life = 0 /\ headersSent = 0 /\ finSent = 0
    /\ blocked = 0 /\ parked = 0 /\ todo = 0 /\ closeSent = 0 /\ datagrams = 0 /\ phase = 0
    /\ conn = 0 /\ writes = 0 /\ responses = 0 /\ batch = 0 /\ cap = 0 /\ granted = 0
    /\ qlife = 0 /\ qhdr = 0 /\ qsent = 0 /\ qfin = 0 /\ qtrailers = 0 /\ blocked_set = 0
    /\ accepted = 0 /\ conns = 0 /\ free = 0 /\ by_dcid = 0 /\ deferred = 0 /\ expired = 0
    /\ pc = 0 /\ queue = 0 /\ sessions = 0 /\ streams = 0 /\ handleOf = 0 /\ closing = 0
    /\ destroyed = 0 /\ gone = 0 /\ server = 0 /\ sentinel = 0 /\ srv = 0 /\ js = 0
    /\ issued = 0 /\ tokens = 0 /\ outstanding = 0 /\ stale = 0 /\ loopPc = 0 /\ drained = 0
    /\ pollNow = 0 /\ wake = 0 /\ packets = 0 /\ events = 0 /\ taken = 0 /\ after = 0
    /\ left = 0 /\ healed = 0 /\ lost = 0
DeliveryInit ==
    /\ part = "delivery" /\ Delivery!Init
    /\ queued = 0 /\ pressured = 0 /\ inbox = 0 /\ life = 0 /\ headersSent = 0
    /\ finSent = 0 /\ blocked = 0 /\ parked = 0 /\ todo = 0 /\ closeSent = 0
    /\ datagrams = 0 /\ phase = 0 /\ conn = 0 /\ writes = 0 /\ responses = 0 /\ cap = 0
    /\ granted = 0 /\ qlife = 0 /\ qhdr = 0 /\ qsent = 0 /\ qfin = 0 /\ qtrailers = 0
    /\ blocked_set = 0 /\ accepted = 0 /\ conns = 0 /\ free = 0 /\ by_dcid = 0
    /\ deferred = 0 /\ expired = 0 /\ pc = 0 /\ sessions = 0 /\ streams = 0 /\ handleOf = 0
    /\ closing = 0 /\ destroyed = 0 /\ gone = 0 /\ server = 0 /\ srv = 0 /\ issued = 0
    /\ tokens = 0 /\ net = 0 /\ loop = 0 /\ core = 0 /\ app = 0

ServerInit ==
    \/ WritesInit \/ SessionsInit \/ QuicInit \/ WasmInit \/ DeliveryInit

ServerNext ==
    \/ part = "writes" /\ Next /\ UNCHANGED WritesRest
    \/ part = "sessions" /\ Sessions!Next /\ UNCHANGED SessionsRest
    \/ part = "quic" /\ Quic!Next /\ UNCHANGED QuicRest
    \/ part = "wasm" /\ Wasm!Next /\ UNCHANGED WasmRest
    \/ part = "delivery" /\ Delivery!Next /\ UNCHANGED DeliveryRest
    \/ part \in {"quic", "wasm"} /\ UNCHANGED everything

\* Every part has the fairness of its module.  Actions of different parts share a conjunct:
\* only those of the part a behaviour is about are ever enabled in it.
LiveFairness ==
    /\ WF_everything(\/ part = "writes" /\ DispatchEvent /\ UNCHANGED WritesRest
                     \/ part = "sessions" /\ Sessions!Dispatch /\ UNCHANGED SessionsRest
                     \/ part = "quic" /\ Quic!DispatchEvent /\ UNCHANGED QuicRest
                     \/ part = "wasm" /\ (\E k \in Wasm!AllSlots : Wasm!Dispatch(k)) /\ UNCHANGED WasmRest
                     \/ part = "delivery" /\ Delivery!ScriptStep({1}) /\ UNCHANGED DeliveryRest)
    /\ WF_everything(\/ part = "writes" /\ WorkerStep /\ UNCHANGED WritesRest
                     \/ part = "sessions" /\ Sessions!WorkerStep(0) /\ UNCHANGED SessionsRest
                     \/ part = "quic" /\ Quic!LoopStep(0) /\ UNCHANGED QuicRest
                     \/ part = "wasm" /\ Wasm!TimerFire(Wasm!Everything) /\ UNCHANGED WasmRest
                     \/ part = "delivery" /\ Delivery!WorkerStep(1) /\ UNCHANGED DeliveryRest)
    /\ WF_everything(part = "wasm" /\ Wasm!DrainTick(Wasm!Everything) /\ UNCHANGED WasmRest)
    /\ WF_everything(\/ part = "wasm" /\ (Wasm!Bound \/ Wasm!Free \/ Wasm!Cleared) /\ UNCHANGED WasmRest)
    /\ SF_everything(\/ part = "writes" /\ cmds # << >> /\ WorkerStep /\ cmds' = Tail(cmds) /\ UNCHANGED WritesRest
                     \/ part = "sessions" /\ Sessions!DrainsEnd(0) /\ UNCHANGED SessionsRest
                     \/ part = "quic" /\ Quic!Ends(0) /\ UNCHANGED QuicRest)
    /\ SF_everything(part = "writes" /\ PeerCredit(s1) /\ UNCHANGED WritesRest)

ServerSpec == ServerInit /\ [][ServerNext]_everything /\ LiveFairness

-----------------------------------------------------------------------------
(* What must not last, and what is claimed of it. *)

DataWaits ==
    \/ part = "writes" /\ Waits
    \/ part = "delivery" /\ Delivery!EventsWait

\* What the application has written and what has arrived for it moves on: a parked
\* write is tried again with success or rejected and an ended response reaches
\* quiche completely unless someone gives it up, as long as the peer grants credit;
\* received data reaches JavaScript without the help of a timer.
DataMoves == DataWaits ~> ~DataWaits

CloseWaits ==
    \/ part = "sessions" /\ Sessions!Waits
    \/ part = "quic" /\ Quic!Waits
    \/ part = "wasm" /\ Wasm!Waits
    \/ part = "delivery" /\ Delivery!CloseWaits

\* session.close() is answered by the native close, on the HTTP/3 server (which so
\* does not have to wait for its five-second timeout), on the raw QUIC server and,
\* through GOAWAY, the deferred close, CONNECTION_CLOSE and the draining period, on
\* the WASM servers; close() of a server finishes, natively though joinWorker
\* blocks the thread that dispatches, and on the WASM servers whether it is called
\* while the loop starts or runs.
ClosesComplete == CloseWaits ~> ~CloseWaits
=============================================================================
