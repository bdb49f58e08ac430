----------------------------- MODULE MCProcess ------------------------------
(***************************************************************************)
(* The threads of a process, for safety: how events travel from the        *)
(* workers to JavaScript and how a binding is closed (EventDelivery), how  *)
(* the workers are started, called and joined (WorkerThreads), and the     *)
(* drivers they run on (IoUringDriver, ReadinessDrivers). They are         *)
(* explored side by side: `part' says which of them a behaviour is about.  *)
(* Variables of the same name are shared; those a part does not have stay  *)
(* 0, and the workers of EventDelivery keep one initial state.             *)
(***************************************************************************)
EXTENDS EventDelivery

CONSTANTS w1, w2

VARIABLES part, \* which part a behaviour is about
    config, host, fleet, call, results, effects, io, at, waits, next, arrived, woken,
    delivered, net, dead

-----------------------------------------------------------------------------
(* EventDelivery *)

\* One worker, with runtime errors and a client that finishes by itself; with fewer
\* app events and a control event.
OneWorker ==
    [bindings |-> {{w1}}, batch |-> 2, conns |-> 1, app |-> 4, ctl |-> 0, sends |-> 0,
     faults |-> {"driver", "done", "slow"}]
Controls == [OneWorker EXCEPT !.app = 2, !.ctl = 1]

\* The same with an ordinary command among the events.
Commands == [OneWorker EXCEPT !.app = 3, !.sends = 1]

\* Two shards of one server, with two connections each, race on the gauge.
TwoShards ==
    [bindings |-> {{w1, w2}}, batch |-> 1, conns |-> 2, app |-> 3, ctl |-> 0, sends |-> 0, faults |-> {}]

\* Two bindings, one of which may be torn down.
TwoBindings == [TwoShards EXCEPT !.bindings = {{w1}, {w2}}, !.conns = 1, !.app = 1, !.faults = {"teardown"}]

\* Calls into JavaScript that fail, so that close() may run into its timeout.
FailingCalls ==
    [bindings |-> {{w1}}, batch |-> 1, conns |-> 2, app |-> 3, ctl |-> 1, sends |-> 0,
     faults |-> {"sink", "timeout", "slow"}]

DeliverySetups == {OneWorker, Controls, Commands, TwoShards, TwoBindings, FailingCalls}

-----------------------------------------------------------------------------
(* WorkerThreads *)

Base == [kind |-> "h3server", want |-> 2, max_connections |-> 2,
         auto |-> FALSE, fails |-> {}, faults |-> {}, calls |-> 0, timeouts |-> FALSE]

\* Three workers, of which some cannot be started, and the fallback driver.
Starts == [Base EXCEPT !.want = 3, !.max_connections = 4, !.auto = TRUE,
                       !.fails = {"unavailable", "other"}, !.faults = {"ends", "drop"}]

\* Two calls that may time out, with workers that end under them.
Calls == [Base EXCEPT !.calls = 2, !.timeouts = TRUE, !.faults = {"ends"}]

\* A limit that two workers cannot share evenly.
Uneven == [Base EXCEPT !.max_connections = 3, !.calls = 1]

QuicCalls == [Calls EXCEPT !.kind = "quicserver", !.max_connections = 1,
                           !.fails = {"other"}, !.faults = {"ends", "drop"}]

\* The clients: a thread of their own, or a shared one.
Clients == {[Calls EXCEPT !.kind = k, !.want = 1, !.fails = {"other"},
                          !.faults = {"ends", "handler", "drop"}] :
               k \in {"h3client", "quicclient", "sharedh3", "sharedquic"}}

ThreadsSetups == {Starts, Calls, Uneven, QuicCalls} \cup Clients

Threads == INSTANCE WorkerThreads WITH Setups <- ThreadsSetups, setup <- config

ASSUME \A u \in ThreadsSetups : Threads!Setup(u)

-----------------------------------------------------------------------------
(* IoUringDriver *)

Small == [len |-> 1, to |-> 1]
Large == [len |-> 2, to |-> 1]

\* Plain sends: more datagrams than slots, a cap of three bytes, retries and losses.
Plain == [pkts |-> <<Small, Large, Small, Small, Large>>, batch |-> 3, gso |-> FALSE, bundle |-> FALSE,
          defer |-> FALSE, slots |-> 3, cap |-> 3, entry |-> 1, seg |-> 1, waits |-> 2, bufs |-> 1,
          early |-> 0, rx |-> 0, wakes |-> 0, norx |-> FALSE, faults |-> {"again", "fail"}, errors |-> 1]

\* GSO on a deferring ring that starts disabled.
Gso == [Plain EXCEPT !.pkts = <<Small, Small, Small, Large, Small>>, !.gso = TRUE, !.defer = TRUE,
                     !.early = 1, !.faults = {"again", "size", "busy"}]

\* Bundles, one of which is cut short; the large datagram does not fit.
Bundles == [Plain EXCEPT !.pkts = <<Small, Small, Large, Small>>, !.bundle = TRUE, !.gso = TRUE,
                         !.faults = {"again", "fail", "short"}, !.cap = 9]

\* Receiving and waking around sends.
Receiving == [Plain EXCEPT !.pkts = <<Small, Small, Small, Small>>, !.defer = TRUE, !.cap = 1,
                           !.rx = 2, !.wakes = 1, !.norx = TRUE, !.faults = {"disarm"}]

\* A wake is handled while the submission ring is full of sends a busy kernel left.
FullRing == [Plain EXCEPT !.pkts = <<Small, Small, Small>>, !.defer = TRUE, !.slots = 2,
                          !.wakes = 1, !.faults = {"busy"}]

IoSetups == {Plain, Gso, Bundles, Receiving, FullRing}

Io == INSTANCE IoUringDriver WITH Setups <- IoSetups, setup <- config, pc <- at

ASSUME \A u \in IoSetups : Io!Setup(u)

-----------------------------------------------------------------------------
(* ReadinessDrivers *)

\* poll(2) with GSO: equal datagrams around a larger one, into a socket that takes two.
Poll == [kind |-> "poll", pkts |-> <<1, 1, 2, 2, 1>>, batch |-> 3, room |-> 2, gso |-> TRUE, msgx |-> FALSE,
         chunk |-> 2, maxrx |-> 2, tokens |-> 1, rx |-> 2, wakes |-> 1, norx |-> TRUE,
         faults |-> {"fail", "size", "intr"}, errors |-> 1]

\* kqueue with the batched calls, which may fail; and with send_to only, capped receives.
Batched == [Poll EXCEPT !.kind = "kqueue", !.gso = FALSE, !.msgx = TRUE, !.norx = FALSE, !.maxrx = 1,
                        !.faults = {"fail", "nosys", "norecvx"}, !.errors = 2]
Single == [Batched EXCEPT !.msgx = FALSE, !.pkts = <<1, 1, 1, 1>>, !.norx = TRUE, !.maxrx = 1,
                          !.faults = {"fail", "rxerr", "intr"}, !.errors = 1]

Mock == [Poll EXCEPT !.kind = "mock", !.tokens = 2, !.wakes = 3, !.faults = {"loss", "closed"}]

ReadySetups == {Poll, Batched, Single, Mock}

Ready == INSTANCE ReadinessDrivers WITH Setups <- ReadySetups, setup <- config

ASSUME \A u \in ReadySetups : Ready!Setup(u)

-----------------------------------------------------------------------------

DeliveryRest == <<part,
      config, host, fleet, call, results, effects, io, at, waits, next, arrived, woken,
      delivered, net, dead>>
ThreadsRest == <<part, vars,
      io, at, waits, next, arrived, woken, delivered, net, dead>>
IoRest == <<part, vars,
      host, fleet, call, results, effects, net, dead>>
ReadyRest == <<part, vars,
      host, fleet, call, results, effects, io, at, waits>>
everything == <<part, vars,
      config, host, fleet, call, results, effects, io, at, waits, next, arrived, woken,
      delivered, net, dead>>

DeliveryInit ==
    /\ part = "delivery" /\ Init
    /\ config = 0 /\ host = 0 /\ fleet = 0 /\ call = 0 /\ results = 0 /\ effects = 0
    /\ io = 0 /\ at = 0 /\ waits = 0 /\ next = 0 /\ arrived = 0 /\ woken = 0
    /\ delivered = 0 /\ net = 0 /\ dead = 0
ThreadsInit ==
    /\ part = "threads" /\ Threads!Init /\ Init /\ setup = OneWorker
    /\ io = 0 /\ at = 0 /\ waits = 0 /\ next = 0 /\ arrived = 0 /\ woken = 0
    /\ delivered = 0 /\ net = 0 /\ dead = 0
IoInit ==
    /\ part = "iouring" /\ Io!Init /\ Init /\ setup = OneWorker
    /\ host = 0 /\ fleet = 0 /\ call = 0 /\ results = 0 /\ effects = 0 /\ net = 0
    /\ dead = 0
ReadyInit ==
    /\ part = "readiness" /\ Ready!Init /\ Init /\ setup = OneWorker
    /\ host = 0 /\ fleet = 0 /\ call = 0 /\ results = 0 /\ effects = 0 /\ io = 0 /\ at = 0
    /\ waits = 0

ProcessInit ==
    \/ DeliveryInit \/ ThreadsInit \/ IoInit \/ ReadyInit

ProcessNext ==
    \/ part = "delivery" /\ Next /\ UNCHANGED DeliveryRest
    \/ part = "threads" /\ Threads!Next /\ UNCHANGED ThreadsRest
    \/ part = "iouring" /\ Io!Next /\ UNCHANGED IoRest
    \/ part = "readiness" /\ Ready!Next /\ UNCHANGED ReadyRest
    \/ part \in {"threads", "iouring", "readiness"} /\ UNCHANGED everything

ProcessSpec == ProcessInit /\ [][ProcessNext]_everything

-----------------------------------------------------------------------------
(* The properties of the parts. *)

\* The workers are accounted for: when a listen fails every worker it had started
\* is stopped and joined, a joined worker has no thread, so no thread or socket
\* survives its owner (spawn_workers, worker.rs), and together they accept at most
\* one connection per worker more than max_connections; the event loops keep their
\* types (event_loop.rs).
WorkersAccounted ==
    /\ part = "threads" => Threads!NoOrphans /\ Threads!LimitNearlyHolds
    /\ part = "delivery" => TypeOK

\* A synchronous call returns the answer to its own command, never the late one of
\* an earlier call that gave up, and reports success only if the worker performed
\* it (worker_reply.rs).
AnswersAreOwn == part = "threads" => Threads!TypeOK /\ Threads!AnswerIsOwn /\ Threads!AnswerIsTrue

\* What a driver believes the kernel holds is what it holds: a slot in use has its
\* request in a ring, reads are armed once, provided buffers are neither lost nor
\* given twice, the bytes in flight stay within the cap (io_uring.rs); write
\* interest is registered exactly while datagrams wait, and datagrams behind the
\* receive cap are signalled (poll.rs, kqueue.rs).
KernelAgrees ==
    /\ part = "iouring" => /\ Io!TypeOK /\ Io!SlotsMatchRequests
                           /\ Io!ReadsArmedOnce /\ Io!BuffersConserved /\ Io!CapHolds
    /\ part = "readiness" => /\ Ready!TypeOK /\ Ready!WriteInterestIsTrue
                             /\ Ready!BacklogIsSignalled

\* Every driver keeps what the event loops are promised (transport/mod.rs, trait
\* Driver): a datagram leaves once or is given up on a permanent error, across full
\* rings, retries, partial sendmmsg and sendmsg_x calls, split GSO batches, short
\* bundles and the fallback to send_to; received ones are delivered in order; a
\* wake is reported.
DriversKeepPromise ==
    /\ part = "iouring" => Io!Promise!Init
    /\ part = "readiness" => Ready!Promise!Init
    /\ [][/\ part = "iouring" => Io!Promise!Next \/ UNCHANGED Io!Promise!vars
          /\ part = "readiness" => Ready!Promise!Next \/ UNCHANGED Ready!Promise!vars]_everything
=============================================================================
