---------------------------- MODULE WorkerThreads ----------------------------
(***************************************************************************)
(* The threads behind a native server or a dedicated client: how listen    *)
(* and connect start them (one worker per CPU for an HTTP/3 server, each   *)
(* with its own SO_REUSEPORT socket), what happens when a later worker     *)
(* cannot be started, the synchronous calls JavaScript makes into a worker *)
(* (metrics, settings, ping, qlog, datagrams), and the end of the threads. *)
(*                                                                         *)
(* The host is the JavaScript thread: it blocks in a start, in a call and  *)
(* in a join.  Workers run beside it.  A worker's loop is reduced to what  *)
(* it does to its command channel: woken, it takes commands until none is  *)
(* left; EventDelivery has the loop in full.                               *)
(***************************************************************************)
EXTENDS Integers, Sequences, FiniteSets, FiniteSetsExt

CONSTANT Setups   \* the configurations a run explores

VARIABLES
    setup,     \* the one of this behaviour
    host,      \* the JavaScript thread and the native object it holds
    fleet,     \* the workers
    call,      \* the call the host waits in, with its own reply channel
    results,   \* what the calls returned
    effects    \* ghost: calls whose datagram or ping quiche took

vars == <<setup, host, fleet, call, results, effects>>

Kinds == {"h3server", "quicserver", "h3client", "quicclient", "sharedh3", "sharedquic"}

\* kind: whose threads these are;  want: workers asked for;  max_connections: the
\* limit of the server;  auto: whether a fallback driver may follow;  fails, faults:
\* what may go wrong;  calls: bound on the synchronous calls;  timeouts: whether
\* they, and close(), may run into their timeouts.
Setup(u) ==
    /\ u.kind \in Kinds /\ u.want \in Nat \ {0} /\ u.max_connections \in Nat \ {0}
    /\ u.calls \in Nat /\ u.auto \in BOOLEAN /\ u.timeouts \in BOOLEAN
    /\ u.fails \subseteq {"unavailable", "other"}
    /\ u.faults \subseteq {"ends", "handler", "drop"}

AllWorkers == 0 .. Max({s.want : s \in Setups}) - 1
AllSlots == 0 .. Max({s.max_connections : s \in Setups}) - 1
Workers == 0 .. setup.want - 1
Server == setup.kind \in {"h3server", "quicserver"}
Shared == setup.kind \in {"sharedh3", "sharedquic"}   \* a client of a shared worker

-----------------------------------------------------------------------------
(* Handles: the worker's index above WORKER_SHIFT bits, the slot below. *)

WORKER_SHIFT == 20
handle_offset(w) == w * 2 ^ WORKER_SHIFT
worker_index(handle) == handle \div 2 ^ WORKER_SHIFT
local_conn_handle(handle) == handle % 2 ^ WORKER_SHIFT
Handle(w, h) == handle_offset(w) + h    \* offset | h, for a slot below 2^20

-----------------------------------------------------------------------------
(* How many workers there are and how many connections each may have. *)

\* spawn_worker_sharded: a small limit is enforced by a single worker, a larger
\* one is divided, rounding up.  reuse_port is not looked at.
h3_workers(s) == IF s.max_connections <= s.want THEN 1 ELSE s.want
h3_limit(s) == (s.max_connections + h3_workers(s) - 1) \div h3_workers(s)

\* spawn_quic_server_sharded: as many as asked for (the product asks for one), each
\* with the whole limit.
quic_workers(s) == s.want
quic_limit(s) == s.max_connections

NumWorkers(s) ==
    CASE s.kind = "h3server"   -> h3_workers(s)
      [] s.kind = "quicserver" -> quic_workers(s)
      [] OTHER                 -> 1
Limit(s) ==
    CASE s.kind = "h3server"   -> h3_limit(s)
      [] OTHER                 -> quic_limit(s)

NoWorker == [st |-> "none", sock |-> FALSE, signal |-> FALSE, cmds |-> <<>>, conns |-> {}]
Shutdown == [op |-> "shutdown", id |-> 0, slot |-> 0]
Close == [op |-> "close", id |-> 0, slot |-> 0]   \* a client's
NoReply == [val |-> "none", id |-> 0, by |-> 0, slot |-> 0]
NoCall == [id |-> 0, op |-> "", handle |-> 0, reply |-> NoReply]

Init ==
    /\ setup \in Setups
    /\ host = [pc |-> "idle", mode |-> "fast", why |-> "", at |-> 0, closing |-> FALSE,
              sentinels |-> 0, calls |-> 0]
    /\ fleet = [w \in Workers |-> NoWorker]
    /\ call = NoCall
    /\ results = <<>>
    /\ effects = {}

Spawned == {w \in Workers : fleet[w].st \notin {"none", "joined"}}
Alive(w) == fleet[w].st \in {"starting", "running"}   \* its Receiver exists

\* send and wake, to the workers ws; a send to a worker that is gone does nothing.
Sent(f, ws, cmd) ==
    [w \in DOMAIN f |->
        IF w \in ws /\ f[w].st \in {"starting", "running"}
        THEN [f[w] EXCEPT !.cmds = Append(@, cmd), !.signal = TRUE] ELSE f[w]]

-----------------------------------------------------------------------------
(* Starting. *)

Begin ==
    /\ host.pc = "idle"
    /\ host' = [host EXCEPT !.pc = "starting", !.at = 0]
    /\ UNCHANGED <<setup, fleet, call, results, effects>>

\* listen and connect take the configuration and the callback out of the native
\* object, which therefore starts once only, failed or not.
listen == setup.kind = "h3server" /\ Begin
quic_listen == setup.kind = "quicserver" /\ Begin
connect == setup.kind \in {"h3client", "sharedh3"} /\ Begin
quic_connect == setup.kind \in {"quicclient", "sharedquic"} /\ Begin

\* The thread of a server has its handler from the start; a client's makes it after
\* connect has returned.
ServerThread == [NoWorker EXCEPT !.st = "running", !.sock = TRUE]
ClientThread == [NoWorker EXCEPT !.st = "starting", !.sock = TRUE]

Spawn(thread) ==
    /\ host.pc = "starting"
    /\ fleet' = [fleet EXCEPT ![host.at] = thread]
    /\ host' = [host EXCEPT !.at = @ + 1,
                            !.pc = IF host.at + 1 = NumWorkers(setup) THEN "up" ELSE "starting"]
    /\ UNCHANGED <<setup, call, results, effects>>

\* One worker: socket, configuration, driver, thread; the last one ends the start.
spawn_worker == setup.kind = "h3server" /\ Spawn(ServerThread)
spawn_quic_worker == setup.kind = "quicserver" /\ Spawn(ServerThread)
spawn_client_worker == setup.kind \in {"h3client", "sharedh3"} /\ Spawn(ClientThread)
spawn_quic_client == setup.kind \in {"quicclient", "sharedquic"} /\ Spawn(ClientThread)
StartWorker == spawn_worker \/ spawn_quic_worker \/ spawn_client_worker \/ spawn_quic_client

\* All workers started so far are told to end; `undoing' then joins them.
shutdown_spawned_h3 == Sent(fleet, Spawned, Shutdown)
shutdown_spawned_quic == Sent(fleet, Spawned, Shutdown)

\* Mutant: the error returns at once.
StartFails_Leaks(why) ==
    /\ host.pc = "starting" /\ why \in setup.fails
    /\ why = "unavailable" => host.mode = "fast"
    /\ host' = [host EXCEPT !.pc = "failed", !.why = why, !.at = 0]
    /\ UNCHANGED <<setup, fleet, call, results, effects>>

\* The driver is unavailable, or bind, socket or configuration fail: with nothing
\* started the error returns at once, otherwise after the clean-up.
StartFails(why) ==
    /\ host.pc = "starting" /\ why \in setup.fails
    /\ why = "unavailable" => host.mode = "fast"
    /\ fleet' = IF setup.kind = "quicserver" THEN shutdown_spawned_quic ELSE shutdown_spawned_h3
    /\ host' = [host EXCEPT !.pc = IF host.at = 0 THEN "failed" ELSE "undoing", !.why = why, !.at = 0]
    /\ UNCHANGED <<setup, call, results, effects>>

\* runWithRuntimeSelectionSync, mode auto: an unavailable fast driver is followed by
\* the portable one, with a native object and an event loop of its own.
fallback ==
    /\ host.pc = "failed" /\ host.why = "unavailable" /\ setup.auto
    /\ host' = [host EXCEPT !.pc = "idle", !.mode = "portable", !.why = "", !.sentinels = 0]
    /\ fleet' = [w \in Workers |-> IF fleet[w].st = "joined" THEN NoWorker ELSE fleet[w]]
    /\ UNCHANGED <<setup, call, results, effects>>

-----------------------------------------------------------------------------
(* Synchronous calls. *)

Request(op, handle) == [op |-> op, handle |-> handle]
Target(q) == worker_index(q.handle)
Command(q, id) == [op |-> q.op, id |-> id, slot |-> local_conn_handle(q.handle)]

\* WorkerHandle and QuicServerHandle address the worker of the handle; the worker
\* gets the local handle.
server_send_datagram(handle) == Request("datagram", handle)
server_get_session_metrics(handle) == Request("metrics", handle)
server_get_remote_settings(handle) == Request("settings", handle)
server_ping_session(handle) == Request("ping", handle)
server_get_qlog_path(handle) == Request("qlog", handle)
quic_send_datagram(handle) == Request("datagram", handle)
quic_get_session_metrics(handle) == Request("metrics", handle)
quic_ping_session(handle) == Request("ping", handle)
quic_get_qlog_path(handle) == Request("qlog", handle)

\* A client's worker is 0; a dedicated one has the connection 0, a shared one the
\* session in the slot this client was given.
SessionSlot == IF Shared THEN 1 ELSE 0
client_send_datagram == Request("datagram", SessionSlot)
client_get_session_metrics == Request("metrics", SessionSlot)
client_get_remote_settings == Request("settings", SessionSlot)
client_ping == Request("ping", SessionSlot)
client_get_qlog_path == Request("qlog", SessionSlot)
quic_client_send_datagram == Request("datagram", SessionSlot)
quic_client_get_session_metrics == Request("metrics", SessionSlot)
quic_client_ping == Request("ping", SessionSlot)
quic_client_get_qlog_path == Request("qlog", SessionSlot)

Requests(handle) ==
    CASE setup.kind = "h3server" ->
            {server_send_datagram(handle), server_get_session_metrics(handle),
             server_get_remote_settings(handle), server_ping_session(handle),
             server_get_qlog_path(handle)}
      [] setup.kind = "quicserver" ->
            {quic_send_datagram(handle), quic_get_session_metrics(handle),
             quic_ping_session(handle), quic_get_qlog_path(handle)}
      [] setup.kind \in {"h3client", "sharedh3"} ->
            {client_send_datagram, client_get_session_metrics, client_get_remote_settings,
             client_ping, client_get_qlog_path}
      [] OTHER ->
            {quic_client_send_datagram, quic_client_get_session_metrics, quic_client_ping,
             quic_client_get_qlog_path}

AllHandles == {Handle(w, h) : w \in AllWorkers, h \in AllSlots}
Returned(q, id, out) == Append(results, [id |-> id, handle |-> q.handle, out |-> out])
Without(val) == [NoReply EXCEPT !.val = val]

\* Mutant: the command is sent, the worker is not woken.
Issue_NoWake(q) ==
    /\ host.pc \in {"up", "closed"} /\ host.calls < setup.calls
    /\ LET id == host.calls + 1
       IN  IF Alive(Target(q))
           THEN /\ fleet' = [fleet EXCEPT ![Target(q)].cmds = Append(@, Command(q, id))]
                /\ call' = [NoCall EXCEPT !.id = id, !.op = q.op, !.handle = q.handle]
                /\ host' = [host EXCEPT !.pc = "waiting", !.calls = id]
                /\ UNCHANGED results
           ELSE /\ results' = Returned(q, id, Without("not running"))
                /\ host' = [host EXCEPT !.calls = id]
                /\ UNCHANGED <<fleet, call>>
    /\ UNCHANGED <<setup, effects>>

\* A call: the command and its wake-up go to the worker, or the call fails at once
\* because the worker's Receiver, or after the join the handle itself, is gone.
Issue(q) ==
    /\ host.pc \in {"up", "closed"} /\ host.calls < setup.calls
    /\ LET id == host.calls + 1
       IN  IF Alive(Target(q))
           THEN /\ fleet' = Sent(fleet, {Target(q)}, Command(q, id))
                /\ call' = [NoCall EXCEPT !.id = id, !.op = q.op, !.handle = q.handle]
                /\ host' = [host EXCEPT !.pc = "waiting", !.calls = id]
                /\ UNCHANGED results
           ELSE /\ results' = Returned(q, id, Without("not running"))
                /\ host' = [host EXCEPT !.calls = id]
                /\ UNCHANGED <<fleet, call>>
    /\ UNCHANGED <<setup, effects>>

\* JavaScript keeps a handle also when its connection is gone, and calls during
\* close() too.
Call(handle) ==
    /\ worker_index(handle) < NumWorkers(setup)
    /\ IF Server THEN local_conn_handle(handle) < Limit(setup) ELSE handle = SessionSlot
    /\ \E q \in Requests(handle) : Issue(q)

\* recv_worker_reply ends: with the reply, ...
Reply ==
    /\ host.pc = "waiting" /\ call.reply # NoReply
    /\ results' = Returned(call, call.id, call.reply)
    /\ call' = NoCall
    /\ host' = [host EXCEPT !.pc = "up"]
    /\ UNCHANGED <<setup, fleet, effects>>

\* ... or without one: false for a datagram, an error for all others.
Unanswered(op) == IF op = "datagram" THEN "false" ELSE "timed out"

\* Nobody holds the sender of the reply any more, or two seconds have passed; the
\* command may still be in the channel then.
Disconnected == \A w \in Workers : \A i \in DOMAIN fleet[w].cmds : fleet[w].cmds[i].id # call.id
GiveUp ==
    /\ host.pc = "waiting" /\ call.reply = NoReply
    /\ Disconnected \/ setup.timeouts
    /\ results' = Returned(call, call.id, Without(Unanswered(call.op)))
    /\ call' = NoCall
    /\ host' = [host EXCEPT !.pc = "up"]
    /\ UNCHANGED <<setup, fleet, effects>>

-----------------------------------------------------------------------------
(* The workers. *)

\* The thread ends: its driver and socket, its connections and the Receiver with
\* whatever is queued are dropped.
Exited == [NoWorker EXCEPT !.st = "exited"]

\* H3ClientHandler::new, QuicClientHandler::new on the thread of the client; without
\* a handler the thread ends and says nothing.
InitHandler(w) ==
    /\ w \in Workers /\ fleet[w].st = "starting"
    /\ \/ fleet' = [fleet EXCEPT ![w].st = "running", ![w].conns = 0 .. SessionSlot]
       \/ "handler" \in setup.faults /\ fleet' = [fleet EXCEPT ![w] = Exited]
    /\ UNCHANGED <<setup, host, call, results, effects>>

\* Mutant: the answer goes to whatever call waits now.
Answered_Any(cmd, w, val) ==
    IF call.reply = NoReply /\ call.id # 0
    THEN [call EXCEPT !.reply = [val |-> val, id |-> cmd.id, by |-> w, slot |-> cmd.slot]] ELSE call

\* resp_tx.send: to the channel of its own call, which nobody reads after a timeout.
Answered(cmd, w, val) ==
    IF cmd.id = call.id
    THEN [call EXCEPT !.reply = [val |-> val, id |-> cmd.id, by |-> w, slot |-> cmd.slot]] ELSE call

\* The queries of dispatch_command: about the connection in the slot, if any; a
\* datagram or a PING may be refused.
Execute(w, cmd) ==
    LET there == cmd.slot \in fleet[w].conns
        acts == cmd.op \in {"datagram", "ping"}
    IN  \E val \in IF ~acts THEN {IF there THEN "some" ELSE "empty"}
                   ELSE IF there THEN {"true", "false"} ELSE {"false"} :
            /\ call' = Answered(cmd, w, val)
            /\ effects' = IF val = "true" THEN effects \cup {cmd.id} ELSE effects

\* A command of a woken worker.  Shutdown ends the loop with the sentinel.
TakeCommand(w) ==
    /\ w \in Workers /\ fleet[w].st = "running" /\ fleet[w].signal
    /\ LET cmds == fleet[w].cmds
       IN  IF cmds = <<>>
           THEN /\ fleet' = [fleet EXCEPT ![w].signal = FALSE]
                /\ UNCHANGED <<host, call, effects>>
           ELSE IF Head(cmds).op = "shutdown"
           THEN /\ fleet' = [fleet EXCEPT ![w] = Exited]
                /\ host' = [host EXCEPT !.sentinels = @ + 1]
                /\ UNCHANGED <<call, effects>>
           ELSE /\ fleet' = [fleet EXCEPT ![w].cmds = Tail(@)]
                /\ IF Head(cmds) = Close THEN UNCHANGED <<call, effects>> ELSE Execute(w, Head(cmds))
                /\ UNCHANGED host
    /\ UNCHANGED <<setup, results>>

\* A driver error, or (a client) the end of its connection: the sentinel follows.
WorkerEnds(w) ==
    /\ w \in Workers /\ fleet[w].st = "running" /\ "ends" \in setup.faults
    /\ fleet' = [fleet EXCEPT ![w] = Exited]
    /\ host' = [host EXCEPT !.sentinels = @ + 1]
    /\ UNCHANGED <<setup, call, results, effects>>

\* The kernel gives a new client's packets to one of the sockets; its worker accepts
\* while it is below its limit, into any free slot of its slab.
Accept(w, h) ==
    /\ w \in Workers /\ fleet[w].st = "running" /\ (Server \/ Shared) /\ h < Limit(setup)
    /\ h \notin fleet[w].conns /\ Cardinality(fleet[w].conns) < Limit(setup)
    /\ fleet' = [fleet EXCEPT ![w].conns = @ \cup {h}]
    /\ UNCHANGED <<setup, host, call, results, effects>>

Reap(w, h) ==
    /\ w \in Workers /\ fleet[w].st = "running" /\ h \in fleet[w].conns /\ (Server \/ Shared)
    /\ fleet' = [fleet EXCEPT ![w].conns = @ \ {h}]
    /\ UNCHANGED <<setup, host, call, results, effects>>

-----------------------------------------------------------------------------
(* The end. *)

\* request_shutdown of both server handles and of a dedicated client, whose close
\* comes before it.  SharedClients has the end of a shared one.
client_close == Sent(fleet, {0}, Close)
request_shutdown(next) ==
    /\ host.pc = "up" /\ ~host.closing /\ ~Shared
    /\ fleet' = Sent(IF Server THEN fleet ELSE client_close, Workers, Shutdown)
    /\ host' = [host EXCEPT !.pc = next, !.closing = TRUE, !.at = 0]
    /\ UNCHANGED <<setup, call, results, effects>>

\* close() of the event loop lets JavaScript run on until a sentinel comes; a handle
\* dropped without close goes straight to the join.
close == request_shutdown("up")
drop == "drop" \in setup.faults /\ request_shutdown("joining")

\* The first sentinel, of any worker, or five seconds.
waitForShutdownOrTimeout ==
    /\ host.pc = "up" /\ host.closing
    /\ host.sentinels > 0 \/ setup.timeouts
    /\ host' = [host EXCEPT !.pc = "joining"]
    /\ UNCHANGED <<setup, fleet, call, results, effects>>

\* join: one thread after the other, each waited for.
join ==
    /\ host.pc \in {"joining", "undoing"}
    /\ fleet[host.at].st = "exited"
    /\ fleet' = [fleet EXCEPT ![host.at].st = "joined"]
    /\ LET last == \A w \in Workers : w > host.at => fleet[w].st = "none"
       IN  host' = [host EXCEPT !.at = IF last THEN 0 ELSE @ + 1,
                                !.pc = IF ~last THEN @ ELSE IF @ = "undoing" THEN "failed" ELSE "closed"]
    /\ UNCHANGED <<setup, call, results, effects>>

-----------------------------------------------------------------------------
HostStep ==
    \/ listen \/ quic_listen \/ connect \/ quic_connect \/ StartWorker
    \/ Reply \/ GiveUp \/ join \/ waitForShutdownOrTimeout

Next ==
    \/ HostStep \/ fallback \/ close \/ drop
    \/ \E why \in {"unavailable", "other"} : StartFails(why)
    \/ \E handle \in AllHandles : Call(handle)
    \/ \E w \in AllWorkers : InitHandler(w) \/ TakeCommand(w) \/ WorkerEnds(w)
    \/ \E w \in AllWorkers, h \in AllSlots : Accept(w, h) \/ Reap(w, h)

SafeSpec == Init /\ [][Next]_vars

\* Threads run; the host's calls return once what they wait for is there.
Fairness ==
    /\ WF_vars(HostStep)
    /\ \A w \in AllWorkers : WF_vars(InitHandler(w) \/ TakeCommand(w))

Spec == SafeSpec /\ Fairness

-----------------------------------------------------------------------------
(* Properties. *)

\* A worker has as many connections as its share of the limit at most, and a
\* channel with a Receiver only while its thread runs.
TypeOK ==
    /\ setup \in Setups
    /\ host.pc \in {"idle", "starting", "undoing", "up", "waiting", "joining", "failed", "closed"}
    /\ host.at \in 0 .. NumWorkers(setup) /\ host.calls \in 0 .. setup.calls
    /\ host.sentinels \in 0 .. NumWorkers(setup)
    /\ \A w \in Workers :
          /\ fleet[w].st \in {"none", "starting", "running", "exited", "joined"}
          /\ fleet[w].sock = Alive(w)
          /\ fleet[w].cmds # <<>> => Alive(w)
          /\ Cardinality(fleet[w].conns) <= Limit(setup)
    /\ (host.pc = "waiting") = (call # NoCall)
    /\ effects \subseteq 1 .. host.calls

\* A listen that failed half-way, and a close or a drop that returned, leave no
\* thread and no socket behind: nothing competes for the packets of the fallback's
\* sockets or of whoever binds the port next.
NoOrphans ==
    host.pc \in {"idle", "failed", "closed"} =>
        \A w \in Workers : fleet[w].st \in {"none", "joined"} /\ ~fleet[w].sock

\* What a call returns is the answer to this call, not the late one of a call that
\* timed out before it, given by the worker and for the slot its handle names.
AnswerIsOwn ==
    \A i \in DOMAIN results :
        LET r == results[i]
        IN  r.out.id # 0 => r.out.id = r.id /\ Handle(r.out.by, r.out.slot) = r.handle

\* A datagram or a PING reported as sent was given to quiche, and one refused because
\* the worker is gone never is, not even later.
AnswerIsTrue ==
    \A i \in DOMAIN results :
        /\ results[i].out.val = "true" => results[i].id \in effects
        /\ results[i].out.val = "not running" => results[i].id \notin effects

\* The connections of all workers.
Total == FoldSet(LAMBDA w, n : Cardinality(fleet[w].conns) + n, 0, Workers)

\* The HTTP/3 server has fewer connections above maxConnections than it has workers:
\* each share is rounded up, by less than one.
LimitNearlyHolds ==
    setup.kind = "h3server" => Total < setup.max_connections + NumWorkers(setup)

\* A synchronous call returns even if its timeout never fires: the worker answers it,
\* or ends and thereby drops the only sender of the answer.  close(), and the clean-up
\* of a listen that failed, return: every worker hears of its Shutdown, whatever it is
\* doing, and the joins come back.  This is what must not last.
Waits ==
    \/ host.pc \in {"waiting", "undoing"}
    \/ host.closing /\ host.pc # "closed"
=============================================================================
