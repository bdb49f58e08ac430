------------------------- MODULE WorkerThreadsProofs -------------------------
(***************************************************************************)
(* NoOrphans, AnswerIsOwn and AnswerIsTrue of WorkerThreads, for any       *)
(* number of workers, connections and calls.                               *)
(*                                                                         *)
(* The inductive invariant has two halves.  FleetInv says, phase by phase  *)
(* of listen, connect, close and the clean-up of a listen that failed,     *)
(* which workers have a thread: those started are the first ones, and join *)
(* has passed the ones below it.  AnswersInv follows a call through the    *)
(* command channel: a command that is queued carries the number of a call  *)
(* that was made, and if that call still waits, it is with the worker and  *)
(* for the slot its handle names; a call refused at once has no command    *)
(* anywhere, now or later.                                                 *)
(***************************************************************************)
EXTENDS WorkerThreads, Functions, TLAPS

\* What is assumed of the configurations: what WorkerThreads says of one.
Constants == \A u \in Setups : Setup(u)

\* What the variables hold.
Ops == {"datagram", "metrics", "settings", "ping", "qlog"}
States == {"none", "starting", "running", "exited", "joined"}
Phases == {"idle", "starting", "undoing", "up", "waiting", "joining", "failed", "closed"}
Values == {"none", "some", "empty", "true", "false", "timed out", "not running"}
Commands == [op : Ops, id : Nat \ {0}, slot : Nat]
Queued == Commands \cup {Shutdown, Close}
Replies == [val : Values, id : Nat, by : Nat, slot : Nat]

Threads == [st : States, sock : BOOLEAN, signal : BOOLEAN, cmds : Seq(Queued), conns : SUBSET Int]
Results == [id : Nat, handle : Nat, out : Replies]
Calls == [id : Nat, op : Ops \cup {""}, handle : Nat, reply : Replies]
Fleets == [Workers -> Threads]
Hosts == [pc : Phases, mode : {"fast", "portable"}, why : {"", "unavailable", "other"},
          at : Nat, closing : BOOLEAN, sentinels : Nat, calls : Nat]

Types ==
    /\ setup \in Setups
    /\ host \in Hosts
    /\ fleet \in [Workers -> Threads]
    /\ call \in Calls
    /\ results \in Seq(Results)
    /\ effects \in SUBSET Nat

\* A reply comes from a worker; it is the one to call id, from the worker and for the
\* slot of a handle; it says val.
Given(out) == out.id # 0
Own(out, id, handle) == out.id = id /\ Handle(out.by, out.slot) = handle
Says(out, val) == out.val = val

\* No worker has a command that carries the reply channel of call id.
NotQueued(id) == \A w \in Workers : \A cmd \in Range(fleet[w].cmds) : cmd.id # id

\* A command that is queued is of a call made, and if that call still waits, it is with
\* the worker and for the slot the call's handle names.
CommandsInv ==
    \A w \in Workers : \A cmd \in Range(fleet[w].cmds) :
        /\ cmd.id <= host.calls
        /\ cmd.id # 0 /\ cmd.id = call.id => Handle(w, cmd.slot) = call.handle

\* The host waits in the last call made, and what has come back is its own answer.
CallInv ==
    /\ (host.pc = "waiting") = (call.id # 0)
    /\ call.id # 0 => call.id = host.calls
    /\ call.reply # NoReply =>
         /\ Own(call.reply, call.id, call.handle)
         /\ Says(call.reply, "true") => call.id \in effects
         /\ ~Says(call.reply, "not running")

\* A result is of a call made, is its own answer if a worker gave one, and is true.
ResultInv(r, calls) ==
    /\ r.id # 0 /\ r.id <= calls
    /\ Given(r.out) => Own(r.out, r.id, r.handle)
    /\ Says(r.out, "true") => r.id \in effects
    /\ Says(r.out, "not running") => r.id \notin effects /\ NotQueued(r.id)

ResultsInv ==
    /\ \A i \in 1..Len(results) : ResultInv(results[i], host.calls)
    /\ \A id \in effects : id <= host.calls

AnswersInv == CommandsInv /\ CallInv /\ ResultsInv

\* Which workers have a thread, phase by phase.
FleetInv ==
    /\ \A w \in Workers : fleet[w].sock = (fleet[w].st \in {"starting", "running"})
    /\ \A v, w \in Workers : v < w /\ fleet[w].st # "none" => fleet[v].st # "none"
    /\ host.pc \in {"starting", "joining", "undoing"} => host.at \in Workers
    /\ host.pc \in {"idle", "starting", "undoing", "failed"} => ~host.closing
    /\ host.pc = "idle" => \A w \in Workers : fleet[w].st = "none"
    /\ host.pc = "starting" =>
         /\ host.at < NumWorkers(setup)
         /\ \A w \in Workers : (w < host.at => fleet[w].st \notin {"none", "joined"})
                               /\ (w >= host.at => fleet[w].st = "none")
    /\ host.pc \in {"up", "waiting"} =>
         /\ fleet[0].st # "none" /\ (host.closing => host.at = 0)
         /\ \A w \in Workers : fleet[w].st # "joined"
    /\ host.pc \in {"joining", "undoing"} =>
         /\ fleet[host.at].st # "none"
         /\ \A w \in Workers : w < host.at => fleet[w].st = "joined"
    /\ host.pc \in {"failed", "closed"} =>
         \A w \in Workers : fleet[w].st \in {"none", "joined"}

-----------------------------------------------------------------------------

\* A server or client starts at least one worker and no more than it was asked for.
LEMMA SetupFacts ==
    ASSUME Constants, setup \in Setups
    PROVE  /\ setup.want \in Nat \ {0} /\ Workers = 0 .. setup.want - 1 /\ 0 \in Workers
           /\ NumWorkers(setup) \in 1 .. setup.want
<1>1. setup.want \in Nat \ {0} /\ setup.kind \in Kinds /\ setup.max_connections \in Nat
  BY DEF Constants, Setup
<1>2. NumWorkers(setup) \in {1, setup.want}
  BY <1>1 DEF NumWorkers, h3_workers, quic_workers, Kinds
<1> QED BY <1>1, <1>2 DEF Workers

\* A handle is taken apart into a worker and a slot, and these name the handle again:
\* worker_index, local_conn_handle and the offset of a worker agree.
LEMMA Recombined ==
    ASSUME NEW h \in Nat
    PROVE  /\ worker_index(h) \in Nat /\ local_conn_handle(h) \in Nat
           /\ Handle(worker_index(h), local_conn_handle(h)) = h
<1> DEFINE d == 2 ^ WORKER_SHIFT
<1>1. d \in Nat \ {0} BY DEF WORKER_SHIFT
<1> HIDE DEF d
<1>2. h \div d \in Nat /\ h % d \in Nat /\ (h \div d) * d + (h % d) = h
  BY <1>1
<1> QED BY <1>2 DEF worker_index, local_conn_handle, Handle, handle_offset, d

\* A command sent is one more in the channel.
LEMMA AppendSet ==
    ASSUME NEW S, NEW q \in Seq(S), NEW x \in S
    PROVE  Append(q, x) \in Seq(S) /\ Range(Append(q, x)) = Range(q) \cup {x}
<1> DEFINE r == Append(q, x)
<1>1. r \in Seq(S) /\ Len(r) = Len(q) + 1 /\ Len(q) \in Nat OBVIOUS
<1>2. r[Len(q) + 1] = x /\ \A i \in 1..Len(q) : r[i] = q[i] OBVIOUS
<1>3. DOMAIN r = 1..Len(q) + 1 /\ DOMAIN q = 1..Len(q) BY <1>1
<1>4. 1..Len(q) + 1 = (1..Len(q)) \cup {Len(q) + 1} BY <1>1
<1> HIDE DEF r
<1> QED BY <1>1, <1>2, <1>3, <1>4 DEF Range, r

\* A result returned is the last one; the others stay where they were.
LEMMA AppendFacts ==
    ASSUME NEW S, NEW q \in Seq(S), NEW x \in S
    PROVE  /\ Append(q, x) \in Seq(S) /\ Len(Append(q, x)) = Len(q) + 1
           /\ \A i \in 1..Len(Append(q, x)) :
                 \/ Append(q, x)[i] = x
                 \/ i \in 1..Len(q) /\ Append(q, x)[i] = q[i]
OBVIOUS

\* A command taken is one of those in the channel; no other appears.
LEMMA TailSet ==
    ASSUME NEW S, NEW q \in Seq(S), q # << >>
    PROVE  /\ Tail(q) \in Seq(S) /\ Head(q) \in S /\ Head(q) \in Range(q)
           /\ Range(Tail(q)) \subseteq Range(q)
BY DEF Range

\* Sending reaches the channels of the workers named and of no other, and changes
\* nothing else about a worker.
LEMMA SentFacts ==
    ASSUME NEW f \in Fleets, NEW ws, NEW cmd \in Queued
    PROVE  /\ Sent(f, ws, cmd) \in Fleets
           /\ \A w \in Workers : /\ Sent(f, ws, cmd)[w].st = f[w].st
                                 /\ Sent(f, ws, cmd)[w].sock = f[w].sock
                                 /\ Range(Sent(f, ws, cmd)[w].cmds) \subseteq Range(f[w].cmds) \cup {cmd}
                                 /\ w \notin ws => Sent(f, ws, cmd)[w] = f[w]
<1> DEFINE g == Sent(f, ws, cmd)
<1>0. f \in [Workers -> Threads] BY DEF Fleets
<1>1. g = [w \in Workers |-> IF w \in ws /\ f[w].st \in {"starting", "running"}
                             THEN [f[w] EXCEPT !.cmds = Append(f[w].cmds, cmd), !.signal = TRUE] ELSE f[w]]
  BY <1>0 DEF Sent
<1>2. ASSUME NEW w \in Workers
      PROVE  /\ g[w] \in Threads /\ g[w].st = f[w].st /\ g[w].sock = f[w].sock
             /\ Range(g[w].cmds) \subseteq Range(f[w].cmds) \cup {cmd}
             /\ w \notin ws => g[w] = f[w]
  <2>1. f[w] \in Threads /\ Append(f[w].cmds, cmd) \in Seq(Queued)
        /\ Range(Append(f[w].cmds, cmd)) = Range(f[w].cmds) \cup {cmd}
    BY <1>0, AppendSet DEF Threads
  <2>2. CASE w \in ws /\ f[w].st \in {"starting", "running"}
    <3>1. g[w] = [f[w] EXCEPT !.cmds = Append(f[w].cmds, cmd), !.signal = TRUE] BY <1>1, <2>2, Zenon
    <3> QED BY <3>1, <2>1, <2>2, Zenon DEF Threads
  <2>3. CASE ~(w \in ws /\ f[w].st \in {"starting", "running"})
    <3>1. g[w] = f[w] BY <1>1, <2>3, ZenonT(30)
    <3> QED BY <3>1, <2>1
  <2> QED BY <2>2, <2>3
<1> HIDE DEF g
<1>3. g \in Fleets BY <1>1, <1>2, Zenon DEF Fleets
<1> QED BY <1>2, <1>3 DEF g

\* What the record of the JavaScript thread holds.
LEMMA HostFields ==
    ASSUME NEW h \in Hosts
    PROVE  /\ h.pc \in Phases /\ h.at \in Nat /\ h.closing \in BOOLEAN /\ h.sentinels \in Nat
           /\ h.calls \in Nat
BY Zenon DEF Hosts

\* A step that makes no call, answers none and queues at most Shutdown and Close keeps
\* what the invariant says of calls.
LEMMA KeepAnswers ==
    ASSUME Types, AnswersInv, UNCHANGED <<setup, call, results, effects>>,
           host'.calls = host.calls, (host'.pc = "waiting") = (host.pc = "waiting"),
           \A w \in Workers : Range(fleet'[w].cmds) \subseteq Range(fleet[w].cmds) \cup {Shutdown, Close}
    PROVE  AnswersInv'
<1>1. Workers' = Workers BY DEF Workers
<1>2. Shutdown.id = 0 /\ Close.id = 0 /\ host.calls \in Nat BY Zenon DEF Shutdown, Close, Types, Hosts
<1>3. CommandsInv'
  <2> SUFFICES ASSUME NEW w \in Workers, NEW cmd \in Range(fleet'[w].cmds)
               PROVE  /\ cmd.id <= host.calls
                      /\ cmd.id # 0 /\ cmd.id = call.id => Handle(w, cmd.slot) = call.handle
    BY <1>1 DEF CommandsInv, Handle, handle_offset
  <2>1. cmd \in Range(fleet[w].cmds) \/ cmd.id = 0 BY <1>2
  <2> QED BY <2>1, <1>2 DEF AnswersInv, CommandsInv
<1>4. CallInv' BY Zenon DEF AnswersInv, CallInv
<1>5. ASSUME NEW i \in 1..Len(results) PROVE ResultInv(results[i], host.calls)'
  <2>1. ResultInv(results[i], host.calls) BY DEF AnswersInv, ResultsInv
  <2>2. results[i].id # 0 BY <2>1, Zenon DEF ResultInv
  <2>3. NotQueued(results[i].id) => NotQueued(results[i].id)' BY <2>2, <1>1, <1>2 DEF NotQueued
  <2> QED BY <2>1, <2>3, Zenon DEF ResultInv
<1> QED BY <1>3, <1>4, <1>5 DEF AnswersInv, ResultsInv

\* Workers that run on or end by themselves keep what the invariant says of threads.
LEMMA KeepFleet ==
    ASSUME Types, FleetInv, UNCHANGED setup,
           host'.pc = host.pc, host'.at = host.at, host'.closing = host.closing,
           \A w \in Workers :
              /\ fleet'[w].sock = (fleet'[w].st \in {"starting", "running"})
              /\ \/ fleet'[w].st = fleet[w].st
                 \/ fleet[w].st \in {"starting", "running"} /\ fleet'[w].st \in {"starting", "running", "exited"},
           0 \in Workers
    PROVE  FleetInv'
<1>1. Workers' = Workers BY DEF Workers
<1>2. \A w \in Workers : /\ fleet'[w].st = "none" <=> fleet[w].st = "none"
                         /\ fleet'[w].st = "joined" <=> fleet[w].st = "joined"
  OBVIOUS
<1> QED BY <1>1, <1>2 DEF FleetInv, NumWorkers, h3_workers, quic_workers

\* The inductive invariant.
Inv == Types /\ FleetInv /\ AnswersInv

\* Before listen or connect there is no thread and no call.
LEMMA InitInv ==
    ASSUME Constants, Init PROVE Inv
<1>1. 0 \in Workers BY SetupFacts, Zenon DEF Init
<1>2. NoWorker \in Threads /\ NoWorker.cmds = << >> /\ NoWorker.st = "none" /\ NoWorker.sock = FALSE
  BY DEF NoWorker, Threads, States
<1>3. NoReply \in Replies BY DEF NoReply, Replies, Values
<1>4. /\ setup \in Setups /\ call = NoCall /\ results = << >> /\ effects = {}
      /\ \A w \in Workers : fleet[w] = NoWorker
      /\ fleet = [w \in Workers |-> NoWorker]
  BY Zenon DEF Init
<1>5. host \in Hosts /\ host.pc = "idle" /\ host.calls = 0 /\ host.closing = FALSE
  BY Zenon DEF Init, Hosts, Phases
<1>6. call \in Calls /\ call.id = 0 /\ call.reply = NoReply
  BY <1>3, <1>4, Zenon DEF NoCall, Calls
<1>7. Types
  <2>1. fleet \in [Workers -> Threads] BY <1>2, <1>4
  <2>2. << >> \in Seq(Results) OBVIOUS
  <2> QED BY <1>4, <1>5, <1>6, <2>1, <2>2 DEF Types
<1>8. FleetInv
  <2>1. \A w \in Workers : fleet[w].st = "none" /\ fleet[w].sock = FALSE BY <1>2, <1>4
  <2>2. \A w \in Workers : fleet[w].sock = (fleet[w].st \in {"starting", "running"})
    <3> TAKE w \in Workers
    <3>1. (fleet[w].st \in {"starting", "running"}) = FALSE BY <2>1
    <3> QED BY <2>1, <3>1, ZenonT(30)
  <2> QED BY <2>1, <2>2, <1>5 DEF FleetInv
<1>9. AnswersInv
  <2>1. Range(<< >>) = {} BY DEF Range
  <2>2. \A w \in Workers : Range(fleet[w].cmds) = {} BY <1>2, <1>4, <2>1
  <2>3. CommandsInv BY <2>2 DEF CommandsInv
  <2>4. CallInv BY <1>5, <1>6 DEF CallInv
  <2>5. ResultsInv BY <1>4 DEF ResultsInv
  <2> QED BY <2>3, <2>4, <2>5 DEF AnswersInv
<1> QED BY <1>7, <1>8, <1>9 DEF Inv

\* A step of one worker that touches no call keeps the invariant.
LEMMA ThreadStep ==
    ASSUME Constants, Inv, UNCHANGED <<setup, call, results, effects>>,
           NEW w \in Workers, NEW t \in Threads, fleet' = [fleet EXCEPT ![w] = t],
           fleet[w].st \in {"starting", "running"}, t.st \in {"starting", "running", "exited"},
           t.sock = (t.st # "exited"),
           Range(t.cmds) \subseteq Range(fleet[w].cmds),
           host' \in Hosts, host'.pc = host.pc, host'.at = host.at, host'.closing = host.closing,
           host'.calls = host.calls
    PROVE  Inv'
<1>1. Types BY DEF Inv
<1>2. 0 \in Workers BY <1>1, SetupFacts DEF Types
<1>3. fleet' \in [Workers -> Threads] /\ fleet'[w] = t /\ \A v \in Workers \ {w} : fleet'[v] = fleet[v]
  BY <1>1 DEF Types
<1>4. Types'
  <2>1. Workers' = Workers BY DEF Workers
  <2> QED BY <1>1, <1>3, <2>1 DEF Types
<1>5. FleetInv'
  <2>1. ASSUME NEW v \in Workers
        PROVE  /\ fleet'[v].sock = (fleet'[v].st \in {"starting", "running"})
               /\ \/ fleet'[v].st = fleet[v].st
                  \/ fleet[v].st \in {"starting", "running"} /\ fleet'[v].st \in {"starting", "running", "exited"}
    <3>1. CASE v = w BY <3>1, <1>3
    <3>2. CASE v # w BY <3>2, <1>3 DEF Inv, FleetInv
    <3> QED BY <3>1, <3>2
  <2> QED BY <2>1, <1>1, <1>2, KeepFleet DEF Inv
<1>6. AnswersInv'
  <2>1. \A v \in Workers : Range(fleet'[v].cmds) \subseteq Range(fleet[v].cmds) \cup {Shutdown, Close}
    BY <1>3
  <2> QED BY <2>1, <1>1, KeepAnswers DEF Inv
<1> QED BY <1>4, <1>5, <1>6 DEF Inv

\* A thread that has ended has no socket and no channel.
LEMMA ExitedFacts ==
    /\ Exited \in Threads /\ Exited.st = "exited" /\ Exited.sock = FALSE /\ Range(Exited.cmds) = {}
<1>1. NoWorker \in Threads /\ NoWorker.cmds = << >> /\ NoWorker.sock = FALSE
  BY DEF NoWorker, Threads, States
<1>2. Range(<< >>) = {} BY DEF Range
<1>3. /\ Exited \in Threads /\ Exited.st = "exited" /\ Exited.sock = NoWorker.sock
      /\ Exited.cmds = NoWorker.cmds
  BY <1>1 DEF Exited, Threads, States
<1> QED BY <1>1, <1>2, <1>3

\* The thread of a client makes its handler, or ends without one.
LEMMA HandlerInv ==
    ASSUME Constants, Inv, NEW w, InitHandler(w) PROVE Inv'
<1>1. w \in Workers /\ fleet[w].st = "starting" /\ UNCHANGED <<setup, host, call, results, effects>>
  BY DEF InitHandler
<1>2. fleet \in [Workers -> Threads] /\ fleet[w] \in Threads /\ host \in Hosts BY <1>1 DEF Inv, Types
<1>3. CASE fleet' = [fleet EXCEPT ![w] = Exited]
  BY <1>1, <1>2, <1>3, ExitedFacts, ThreadStep, Zenon
<1>4. CASE fleet' = [fleet EXCEPT ![w].st = "running", ![w].conns = 0 .. SessionSlot]
  <2> DEFINE t == [fleet[w] EXCEPT !.st = "running", !.conns = 0 .. SessionSlot]
  <2>1. fleet' = [fleet EXCEPT ![w] = t] BY <1>2, <1>4, Zenon
  <2>2. t \in Threads /\ t.st = "running" /\ t.sock = fleet[w].sock /\ t.cmds = fleet[w].cmds
    <3>1. 0 .. SessionSlot \in SUBSET Int BY DEF SessionSlot
    <3> QED BY <1>2, <3>1, Zenon DEF Threads, States
  <2>3. fleet[w].sock = TRUE BY <1>1, Zenon DEF Inv, FleetInv
  <2> HIDE DEF t
  <2> QED BY <1>1, <1>2, <2>1, <2>2, <2>3, ThreadStep, Zenon
<1> QED BY <1>3, <1>4 DEF InitHandler

\* A worker ends by itself: its sentinel is emitted, its channel and socket go.
LEMMA EndsInv ==
    ASSUME Constants, Inv, NEW w, WorkerEnds(w) PROVE Inv'
<1>1. w \in Workers /\ fleet[w].st = "running" /\ UNCHANGED <<setup, call, results, effects>>
      /\ fleet' = [fleet EXCEPT ![w] = Exited]
  BY DEF WorkerEnds
<1>2. host \in Hosts BY DEF Inv, Types
<1>3. host' = [host EXCEPT !.sentinels = @ + 1] BY DEF WorkerEnds
<1>4. /\ host' \in Hosts /\ host'.pc = host.pc /\ host'.at = host.at
      /\ host'.closing = host.closing /\ host'.calls = host.calls
  <2>1. host.sentinels + 1 \in Nat BY <1>2, HostFields
  <2> QED BY <1>2, <1>3, <2>1, ZenonT(30) DEF Hosts
<1> QED BY <1>1, <1>4, ExitedFacts, ThreadStep, Zenon

\* Connections come and go: no thread and no call is touched.
LEMMA ConnsInv ==
    ASSUME Constants, Inv, NEW w, NEW h \in AllSlots, Accept(w, h) \/ Reap(w, h) PROVE Inv'
<1>1. w \in Workers /\ fleet[w].st = "running" /\ UNCHANGED <<setup, host, call, results, effects>>
  BY DEF Accept, Reap
<1>2. fleet \in [Workers -> Threads] /\ fleet[w] \in Threads /\ host \in Hosts BY <1>1 DEF Inv, Types
<1>3. PICK c \in SUBSET Int : fleet' = [fleet EXCEPT ![w].conns = c]
  <2>1. h \in Int BY DEF AllSlots
  <2>2. fleet[w].conns \in SUBSET Int BY <1>2 DEF Threads
  <2> QED BY <2>1, <2>2 DEF Accept, Reap
<1> DEFINE t == [fleet[w] EXCEPT !.conns = c]
<1>4. fleet' = [fleet EXCEPT ![w] = t] BY <1>2, <1>3
<1>5. t \in Threads /\ t.st = "running" /\ t.sock = fleet[w].sock /\ t.cmds = fleet[w].cmds
  BY <1>1, <1>2 DEF Threads, States
<1>6. fleet[w].sock = TRUE BY <1>1, Zenon DEF Inv, FleetInv
<1> HIDE DEF t
<1> QED BY <1>1, <1>2, <1>4, <1>5, <1>6, ThreadStep, Zenon

\* A step of the host that makes no call: it remains to look at the threads.
LEMMA HostStepInv ==
    ASSUME Constants, Inv, UNCHANGED <<setup, call, results, effects>>,
           host' \in Hosts, fleet' \in [Workers -> Threads], host'.calls = host.calls,
           (host'.pc = "waiting") = (host.pc = "waiting"),
           \A w \in Workers : Range(fleet'[w].cmds) \subseteq Range(fleet[w].cmds) \cup {Shutdown, Close},
           FleetInv'
    PROVE  Inv'
<1>1. Workers' = Workers BY DEF Workers
<1>2. Types' BY <1>1 DEF Inv, Types
<1>3. AnswersInv' BY KeepAnswers DEF Inv
<1> QED BY <1>2, <1>3 DEF Inv

\* listen and connect begin with worker 0.
LEMMA BeginInv ==
    ASSUME Constants, Inv, Begin PROVE Inv'
<1>1. host \in Hosts /\ setup \in Setups /\ host.pc = "idle" BY DEF Begin, Inv, Types
<1>2. /\ host' \in Hosts /\ host'.pc = "starting" /\ host'.at = 0
      /\ host'.calls = host.calls /\ host'.closing = host.closing
  BY <1>1, Zenon DEF Begin, Hosts, Phases
<1>3. UNCHANGED <<setup, fleet, call, results, effects>> BY DEF Begin
<1>4. Workers' = Workers /\ NumWorkers(setup)' = NumWorkers(setup) BY <1>3 DEF Workers
<1>5. 0 \in Workers /\ NumWorkers(setup) > 0 /\ Workers \subseteq Nat BY <1>1, SetupFacts
<1>6. FleetInv' BY <1>1, <1>2, <1>3, <1>4, <1>5 DEF Inv, FleetInv
<1> QED BY <1>1, <1>2, <1>3, <1>6, HostStepInv DEF Inv, Types

\* One more worker has a thread; with the last one the server is up.
LEMMA SpawnInv ==
    ASSUME Constants, Inv, NEW thread \in {ServerThread, ClientThread}, Spawn(thread) PROVE Inv'
<1>1. host \in Hosts /\ setup \in Setups /\ host.pc = "starting" /\ fleet \in [Workers -> Threads]
  BY DEF Spawn, Inv, Types
<1>2. /\ thread \in Threads /\ thread.st \in {"starting", "running"} /\ thread.sock = TRUE
      /\ Range(thread.cmds) = {}
  <2>1. NoWorker \in Threads /\ NoWorker.cmds = << >> BY DEF NoWorker, Threads, States
  <2>2. Range(<< >>) = {} BY DEF Range
  <2>3. /\ ServerThread \in Threads /\ ServerThread.st = "running" /\ ServerThread.sock = TRUE
        /\ ServerThread.cmds = NoWorker.cmds
    BY <2>1, Zenon DEF ServerThread, Threads, States
  <2>4. /\ ClientThread \in Threads /\ ClientThread.st = "starting" /\ ClientThread.sock = TRUE
        /\ ClientThread.cmds = NoWorker.cmds
    BY <2>1, Zenon DEF ClientThread, Threads, States
  <2> QED BY <2>1, <2>2, <2>3, <2>4
<1>3. UNCHANGED <<setup, call, results, effects>> /\ fleet' = [fleet EXCEPT ![host.at] = thread]
  BY DEF Spawn
<1>4. host.at \in Workers /\ host.at < NumWorkers(setup) /\ host.closing = FALSE
  BY <1>1, HostFields DEF Inv, FleetInv
<1>5. /\ setup.want \in Nat /\ Workers = 0 .. setup.want - 1 /\ 0 \in Workers
      /\ NumWorkers(setup) \in 1 .. setup.want
  BY <1>1, SetupFacts
<1>6. /\ host'.at = host.at + 1 /\ host'.calls = host.calls /\ host'.closing = host.closing
      /\ host'.pc = (IF host.at + 1 = NumWorkers(setup) THEN "up" ELSE "starting")
      /\ host' \in Hosts
  <2>1. host.at + 1 \in Nat BY <1>4, <1>5
  <2>2. host' = [host EXCEPT !.at = host.at + 1,
                             !.pc = IF host.at + 1 = NumWorkers(setup) THEN "up" ELSE "starting"]
    BY DEF Spawn
  <2> QED BY <1>1, <2>1, <2>2, ZenonT(30) DEF Hosts, Phases
<1>7. /\ fleet' \in [Workers -> Threads] /\ fleet'[host.at] = thread
      /\ \A v \in Workers \ {host.at} : fleet'[v] = fleet[v]
  BY <1>1, <1>2, <1>3, <1>4
<1>8. Workers' = Workers /\ NumWorkers(setup)' = NumWorkers(setup) BY <1>3 DEF Workers
<1>9. FleetInv'
  <2>1. \A w \in Workers : (w < host.at => fleet[w].st \notin {"none", "joined"})
                            /\ (w >= host.at => fleet[w].st = "none")
    BY <1>1 DEF Inv, FleetInv
  <2>2. \A w \in Workers : (w < host'.at => fleet'[w].st \notin {"none", "joined"})
                            /\ (w >= host'.at => fleet'[w].st = "none")
    BY <2>1, <1>2, <1>4, <1>5, <1>6, <1>7
  <2>3. \A w \in Workers : fleet'[w].sock = (fleet'[w].st \in {"starting", "running"})
    BY <1>2, <1>7, ZenonT(30) DEF Inv, FleetInv
  <2>4. \A v, w \in Workers : v < w /\ fleet'[w].st # "none" => fleet'[v].st # "none"
    BY <2>2, <1>4, <1>5, <1>6
  <2>5. CASE host.at + 1 = NumWorkers(setup)
    <3>1. host'.pc = "up" BY <2>5, <1>6
    <3>2. \A w \in Workers : fleet'[w].st # "joined" BY <2>2, <1>4, <1>5, <1>6
    <3>3. fleet'[0].st # "none" BY <2>2, <1>4, <1>5, <1>6
    <3> QED BY <3>1, <3>2, <3>3, <2>3, <2>4, <1>4, <1>6, <1>8 DEF FleetInv
  <2>6. CASE host.at + 1 # NumWorkers(setup)
    <3>1. host'.pc = "starting" BY <2>6, <1>6
    <3>2. host'.at \in Workers /\ host'.at < NumWorkers(setup) BY <2>6, <1>4, <1>5, <1>6
    <3> QED BY <3>1, <3>2, <2>2, <2>3, <2>4, <1>4, <1>6, <1>8 DEF FleetInv
  <2> QED BY <2>5, <2>6
<1>10. \A w \in Workers : Range(fleet'[w].cmds) \subseteq Range(fleet[w].cmds) \cup {Shutdown, Close}
  BY <1>2, <1>7
<1>11. (host'.pc = "waiting") = (host.pc = "waiting") BY <1>1, <1>6
<1> QED BY <1>3, <1>6, <1>7, <1>9, <1>10, <1>11, HostStepInv

\* A worker cannot be started: those started are told to end, and are joined next.
LEMMA StartFailsInv ==
    ASSUME Constants, Inv, NEW why, StartFails(why), why \in {"unavailable", "other"} PROVE Inv'
<1>1. host \in Hosts /\ setup \in Setups /\ host.pc = "starting" /\ fleet \in [Workers -> Threads]
  BY DEF StartFails, Inv, Types
<1>2. UNCHANGED <<setup, call, results, effects>> /\ fleet' = Sent(fleet, Spawned, Shutdown)
  BY DEF StartFails, shutdown_spawned_h3, shutdown_spawned_quic
<1>3. Shutdown \in Queued BY DEF Queued
<1>4. /\ fleet' \in [Workers -> Threads]
      /\ \A w \in Workers : /\ fleet'[w].st = fleet[w].st /\ fleet'[w].sock = fleet[w].sock
                            /\ Range(fleet'[w].cmds) \subseteq Range(fleet[w].cmds) \cup {Shutdown, Close}
  <2>1. /\ fleet' \in [Workers -> Threads]
        /\ \A w \in Workers : /\ fleet'[w].st = fleet[w].st /\ fleet'[w].sock = fleet[w].sock
                              /\ Range(fleet'[w].cmds) \subseteq Range(fleet[w].cmds) \cup {Shutdown}
    <3> DEFINE g == Sent(fleet, Spawned, Shutdown)
    <3>1. fleet' = g BY <1>2
    <3>2. /\ g \in Fleets /\ g \in [Workers -> Threads]
          /\ \A w \in Workers : /\ g[w].st = fleet[w].st /\ g[w].sock = fleet[w].sock
                                /\ Range(g[w].cmds) \subseteq Range(fleet[w].cmds) \cup {Shutdown}
      <4>1. fleet \in Fleets BY <1>1 DEF Fleets
      <4>2. /\ g \in Fleets
            /\ \A w \in Workers : /\ g[w].st = fleet[w].st /\ g[w].sock = fleet[w].sock
                                  /\ Range(g[w].cmds) \subseteq Range(fleet[w].cmds) \cup {Shutdown}
        BY <4>1, <1>3, SentFacts
      <4> QED BY <4>2 DEF Fleets
    <3> HIDE DEF g
    <3> QED BY <3>1, <3>2, Zenon
  <2> QED BY <2>1
<1>5. /\ host' \in Hosts /\ host'.pc = (IF host.at = 0 THEN "failed" ELSE "undoing") /\ host'.at = 0
      /\ host'.calls = host.calls /\ host'.closing = host.closing
  BY <1>1, Zenon DEF StartFails, Hosts, Phases
<1>6. host.at \in Nat /\ 0 \in Workers /\ Workers \subseteq Nat BY <1>1, HostFields, SetupFacts
<1>7. Workers' = Workers BY <1>2 DEF Workers
<1>8. /\ ~host.closing
      /\ \A w \in Workers : fleet[w].sock = (fleet[w].st \in {"starting", "running"})
      /\ \A v, w \in Workers : v < w /\ fleet[w].st # "none" => fleet[v].st # "none"
      /\ \A w \in Workers : (w < host.at => fleet[w].st \notin {"none", "joined"})
                            /\ (w >= host.at => fleet[w].st = "none")
  BY <1>1 DEF Inv, FleetInv
<1>9. FleetInv'
  <2>1. CASE host.at = 0
    <3>1. host'.pc = "failed" /\ ~host'.closing BY <2>1, <1>5, <1>8
    <3>2. \A w \in Workers : w >= host.at BY <2>1, <1>6
    <3>3. \A w \in Workers : fleet'[w].st = "none" BY <3>2, <1>4, <1>8
    <3>4. \A w \in Workers : fleet'[w].sock = (fleet'[w].st \in {"starting", "running"})
      BY <1>4, <1>8
    <3> QED BY <3>1, <3>3, <3>4, <1>5, <1>7 DEF FleetInv
  <2>2. CASE host.at # 0
    <3>1. fleet[0].st # "none" BY <2>2, <1>6, <1>8
    <3> QED BY <2>2, <3>1, <1>4, <1>5, <1>6, <1>7, <1>8 DEF FleetInv
  <2> QED BY <2>1, <2>2
<1>10. (host'.pc = "waiting") = (host.pc = "waiting") BY <1>1, <1>5
<1>11. \A w \in Workers : Range(fleet'[w].cmds) \subseteq Range(fleet[w].cmds) \cup {Shutdown, Close}
  BY <1>4, Zenon
<1>12. host' \in Hosts /\ host'.calls = host.calls BY <1>5, Zenon
<1>13. fleet' \in [Workers -> Threads] /\ UNCHANGED <<setup, call, results, effects>> BY <1>2, <1>4, Zenon
<1> QED BY <1>9, <1>10, <1>11, <1>12, <1>13, HostStepInv, Zenon

\* The fallback driver starts when no worker of the first attempt is left.
LEMMA FallbackInv ==
    ASSUME Constants, Inv, fallback PROVE Inv'
<1>1. host \in Hosts /\ setup \in Setups /\ host.pc = "failed" /\ fleet \in [Workers -> Threads]
  BY DEF fallback, Inv, Types
<1>2. UNCHANGED <<setup, call, results, effects>>
      /\ fleet' = [w \in Workers |-> IF fleet[w].st = "joined" THEN NoWorker ELSE fleet[w]]
  BY DEF fallback
<1>3. /\ host' \in Hosts /\ host'.pc = "idle"
      /\ host'.calls = host.calls /\ host'.closing = host.closing
  BY <1>1, Zenon DEF fallback, Hosts, Phases
<1>4. NoWorker \in Threads /\ NoWorker.st = "none" /\ NoWorker.sock = FALSE /\ Range(NoWorker.cmds) = {}
  <2>1. NoWorker \in Threads /\ NoWorker.cmds = << >> /\ NoWorker.st = "none" /\ NoWorker.sock = FALSE
    BY DEF NoWorker, Threads, States
  <2> QED BY <2>1 DEF Range
<1>5. /\ ~host.closing
      /\ \A w \in Workers : fleet[w].sock = (fleet[w].st \in {"starting", "running"})
      /\ \A w \in Workers : fleet[w].st \in {"none", "joined"}
  BY <1>1 DEF Inv, FleetInv
<1>6. ASSUME NEW w \in Workers
      PROVE  /\ fleet'[w] \in Threads /\ fleet'[w].st = "none" /\ fleet'[w].sock = FALSE
             /\ Range(fleet'[w].cmds) \subseteq Range(fleet[w].cmds) \cup {Shutdown, Close}
  <2>1. CASE fleet[w].st = "joined" BY <2>1, <1>2, <1>4
  <2>2. CASE fleet[w].st # "joined"
    <3>1. fleet'[w] = fleet[w] BY <2>2, <1>2
    <3>2. fleet[w].st = "none" BY <2>2, <1>5
    <3>3. (fleet[w].st \in {"starting", "running"}) = FALSE BY <3>2
    <3> QED BY <3>1, <3>2, <3>3, <1>1, <1>5, Zenon
  <2> QED BY <2>1, <2>2, Zenon
<1>7. Workers' = Workers BY <1>2 DEF Workers
<1>8. fleet' \in [Workers -> Threads] BY <1>2, <1>6, Zenon
<1>9. FleetInv'
  <2>1. \A w \in Workers : fleet'[w].sock = (fleet'[w].st \in {"starting", "running"})
    <3> TAKE w \in Workers
    <3>1. fleet'[w].st = "none" /\ fleet'[w].sock = FALSE BY <1>6, Zenon
    <3>2. (fleet'[w].st \in {"starting", "running"}) = FALSE BY <3>1
    <3> QED BY <3>1, <3>2, Zenon
  <2> QED BY <2>1, <1>3, <1>5, <1>6, <1>7, Zenon DEF FleetInv
<1>10. (host'.pc = "waiting") = (host.pc = "waiting") BY <1>1, <1>3
<1> QED BY <1>2, <1>3, <1>6, <1>8, <1>9, <1>10, HostStepInv, Zenon

\* close() and a drop tell every worker to end, in whatever state it is.
LEMMA ShutdownInv ==
    ASSUME Constants, Inv, NEW next \in {"up", "joining"}, request_shutdown(next) PROVE Inv'
<1>1. host \in Hosts /\ setup \in Setups /\ host.pc = "up" /\ fleet \in [Workers -> Threads]
  BY DEF request_shutdown, Inv, Types
<1> DEFINE f == IF Server THEN fleet ELSE client_close
<1>2. UNCHANGED <<setup, call, results, effects>> /\ fleet' = Sent(f, Workers, Shutdown)
  BY DEF request_shutdown
<1>3. Shutdown \in Queued /\ Close \in Queued BY DEF Queued
<1>4. /\ f \in [Workers -> Threads]
      /\ \A w \in Workers : /\ f[w].st = fleet[w].st /\ f[w].sock = fleet[w].sock
                            /\ Range(f[w].cmds) \subseteq Range(fleet[w].cmds) \cup {Close}
  <2>1. CASE Server BY <2>1, <1>1
  <2>2. CASE ~Server
    <3>1. f = Sent(fleet, {0}, Close) BY <2>2 DEF client_close
    <3> HIDE DEF f
    <3>2. fleet \in Fleets BY <1>1 DEF Fleets
    <3>3. /\ f \in Fleets
          /\ \A w \in Workers : /\ f[w].st = fleet[w].st /\ f[w].sock = fleet[w].sock
                                /\ Range(f[w].cmds) \subseteq Range(fleet[w].cmds) \cup {Close}
      BY <3>1, <3>2, <1>3, SentFacts
    <3> QED BY <3>3 DEF Fleets
  <2> QED BY <2>1, <2>2
<1> HIDE DEF f
<1>5. /\ fleet' \in [Workers -> Threads]
      /\ \A w \in Workers : /\ fleet'[w].st = fleet[w].st /\ fleet'[w].sock = fleet[w].sock
                            /\ Range(fleet'[w].cmds) \subseteq Range(fleet[w].cmds) \cup {Shutdown, Close}
  <2>1. /\ fleet' \in [Workers -> Threads]
        /\ \A w \in Workers : /\ fleet'[w].st = f[w].st /\ fleet'[w].sock = f[w].sock
                              /\ Range(fleet'[w].cmds) \subseteq Range(f[w].cmds) \cup {Shutdown}
    <3> DEFINE g == Sent(f, Workers, Shutdown)
    <3>1. fleet' = g BY <1>2
    <3>2. /\ g \in Fleets /\ g \in [Workers -> Threads]
          /\ \A w \in Workers : /\ g[w].st = f[w].st /\ g[w].sock = f[w].sock
                                /\ Range(g[w].cmds) \subseteq Range(f[w].cmds) \cup {Shutdown}
      <4>1. f \in Fleets BY <1>4 DEF Fleets
      <4>2. /\ g \in Fleets
            /\ \A w \in Workers : /\ g[w].st = f[w].st /\ g[w].sock = f[w].sock
                                  /\ Range(g[w].cmds) \subseteq Range(f[w].cmds) \cup {Shutdown}
        BY <4>1, <1>3, SentFacts
      <4> QED BY <4>2 DEF Fleets
    <3> HIDE DEF g
    <3> QED BY <3>1, <3>2, Zenon
  <2> QED BY <2>1, <1>4, ZenonT(30)
<1>6. /\ host' \in Hosts /\ host'.pc = next /\ host'.at = 0
      /\ host'.calls = host.calls /\ host'.closing = TRUE
  BY <1>1, Zenon DEF request_shutdown, Hosts, Phases
<1>7. 0 \in Workers /\ Workers \subseteq Nat BY <1>1, SetupFacts
<1>8. Workers' = Workers BY <1>2 DEF Workers
<1>9. /\ fleet[0].st # "none"
      /\ \A w \in Workers : fleet[w].sock = (fleet[w].st \in {"starting", "running"})
      /\ \A v, w \in Workers : v < w /\ fleet[w].st # "none" => fleet[v].st # "none"
      /\ \A w \in Workers : fleet[w].st # "joined"
  BY <1>1 DEF Inv, FleetInv
<1>10. FleetInv' BY <1>5, <1>6, <1>7, <1>8, <1>9 DEF FleetInv
<1>11. (host'.pc = "waiting") = (host.pc = "waiting") BY <1>1, <1>6
<1> QED BY <1>2, <1>5, <1>6, <1>10, <1>11, HostStepInv, Zenon

\* The wait for a sentinel ends, by a sentinel or by its timeout; the joins follow.
LEMMA WaitInv ==
    ASSUME Constants, Inv, waitForShutdownOrTimeout PROVE Inv'
<1>1. host \in Hosts /\ setup \in Setups /\ host.pc = "up" /\ fleet \in [Workers -> Threads] /\ host.closing
  BY DEF waitForShutdownOrTimeout, Inv, Types
<1>2. UNCHANGED <<setup, fleet, call, results, effects>>
  BY DEF waitForShutdownOrTimeout
<1>3. /\ host' \in Hosts /\ host'.pc = "joining" /\ host'.at = host.at
      /\ host'.calls = host.calls /\ host'.closing = host.closing
  BY <1>1, Zenon DEF waitForShutdownOrTimeout, Hosts, Phases
<1>4. 0 \in Workers /\ Workers \subseteq Nat BY <1>1, SetupFacts
<1>5. Workers' = Workers BY <1>2 DEF Workers
<1>6. host.at = 0 BY <1>1 DEF Inv, FleetInv
<1>7. FleetInv' BY <1>1, <1>2, <1>3, <1>4, <1>5, <1>6 DEF Inv, FleetInv
<1>8. (host'.pc = "waiting") = (host.pc = "waiting") BY <1>1, <1>3
<1> QED BY <1>1, <1>2, <1>3, <1>7, <1>8, HostStepInv

\* A thread is joined after it has ended; the next is the one after it, and after the
\* last none is left.
LEMMA JoinInv ==
    ASSUME Constants, Inv, join PROVE Inv'
<1>1. /\ host \in Hosts /\ setup \in Setups /\ host.pc \in {"joining", "undoing"}
      /\ fleet \in [Workers -> Threads] /\ fleet[host.at].st = "exited"
  BY DEF join, Inv, Types
<1> DEFINE last == \A w \in Workers : w > host.at => fleet[w].st = "none"
<1>2. /\ UNCHANGED <<setup, call, results, effects>> /\ fleet' = [fleet EXCEPT ![host.at].st = "joined"]
      /\ host' = [host EXCEPT !.at = IF last THEN 0 ELSE @ + 1,
                              !.pc = IF ~last THEN @ ELSE IF @ = "undoing" THEN "failed" ELSE "closed"]
  BY DEF join
<1>3. /\ host.at \in Workers /\ host.at \in Nat /\ host.pc \in Phases
      /\ \A w \in Workers : w < host.at => fleet[w].st = "joined"
      /\ \A w \in Workers : fleet[w].sock = (fleet[w].st \in {"starting", "running"})
      /\ \A v, w \in Workers : v < w /\ fleet[w].st # "none" => fleet[v].st # "none"
      /\ host.pc = "undoing" => ~host.closing
  BY <1>1, HostFields DEF Inv, FleetInv
<1>4. setup.want \in Nat /\ Workers = 0 .. setup.want - 1 /\ 0 \in Workers BY <1>1, SetupFacts
<1>5. last \in BOOLEAN OBVIOUS
<1>6. last \/ (host.at + 1 \in Workers /\ fleet[host.at + 1].st # "none")
  <2> SUFFICES ASSUME NEW w \in Workers, w > host.at, fleet[w].st # "none"
               PROVE  host.at + 1 \in Workers /\ fleet[host.at + 1].st # "none"
    OBVIOUS
  <2>1. host.at + 1 \in Workers BY <1>3, <1>4
  <2>2. host.at + 1 = w \/ host.at + 1 < w BY <1>3, <1>4
  <2> QED BY <2>1, <2>2, <1>3
<1> HIDE DEF last
<1>7. /\ host' \in Hosts /\ host'.calls = host.calls /\ host'.closing = host.closing
      /\ host'.at = (IF last THEN 0 ELSE host.at + 1)
      /\ host'.pc = (IF ~last THEN host.pc ELSE IF host.pc = "undoing" THEN "failed" ELSE "closed")
  <2> DEFINE n == IF last THEN 0 ELSE host.at + 1
             p == IF ~last THEN host.pc ELSE IF host.pc = "undoing" THEN "failed" ELSE "closed"
  <2>1. n \in Nat BY <1>3, <1>5
  <2>2. p \in Phases BY <1>3, <1>5 DEF Phases
  <2>3. host' = [host EXCEPT !.at = n, !.pc = p] BY <1>2
  <2> HIDE DEF n, p
  <2>4. host' \in Hosts /\ host'.calls = host.calls /\ host'.closing = host.closing /\ host'.at = n /\ host'.pc = p
    BY <1>1, <2>1, <2>2, <2>3, ZenonT(30) DEF Hosts
  <2> QED BY <2>4 DEF n, p
<1>8. /\ fleet' \in [Workers -> Threads] /\ fleet'[host.at].st = "joined"
      /\ fleet'[host.at].sock = fleet[host.at].sock /\ fleet'[host.at].cmds = fleet[host.at].cmds
      /\ \A v \in Workers \ {host.at} : fleet'[v] = fleet[v]
  <2> DEFINE t == [fleet[host.at] EXCEPT !.st = "joined"]
  <2>1. fleet' = [fleet EXCEPT ![host.at] = t] BY <1>1, <1>2
  <2>2. /\ t \in Threads /\ t.st = "joined" /\ t.sock = fleet[host.at].sock
        /\ t.cmds = fleet[host.at].cmds
    BY <1>1, <1>3, ZenonT(30) DEF Threads, States
  <2> HIDE DEF t
  <2> QED BY <1>1, <1>3, <2>1, <2>2
<1>9. Workers' = Workers BY <1>2 DEF Workers
<1>10. /\ \A w \in Workers : fleet'[w].sock = (fleet'[w].st \in {"starting", "running"})
       /\ \A w \in Workers : w <= host.at => fleet'[w].st = "joined"
       /\ \A w \in Workers : fleet'[w].st = "none" <=> fleet[w].st = "none"
  <2>1. \A w \in Workers : w <= host.at => w = host.at \/ w < host.at BY <1>3, <1>4
  <2> QED BY <1>1, <1>3, <1>8, <2>1
<1>11. \A v, w \in Workers : v < w /\ fleet'[w].st # "none" => fleet'[v].st # "none" BY <1>3, <1>10
<1>12. FleetInv'
  <2>1. CASE last
    <3>1. \A w \in Workers : fleet'[w].st \in {"none", "joined"}
      <4>1. \A w \in Workers : w <= host.at \/ w > host.at BY <1>3, <1>4
      <4> QED BY <4>1, <1>10, <2>1 DEF last
    <3>2. host'.pc \in {"failed", "closed"} /\ (host'.pc = "failed" => host.pc = "undoing") BY <2>1, <1>7
    <3> QED BY <3>1, <3>2, <1>3, <1>7, <1>9, <1>10, <1>11 DEF FleetInv
  <2>2. CASE ~last
    <3>1. host'.at = host.at + 1 /\ host'.pc = host.pc BY <2>2, <1>7
    <3>2. host'.at \in Workers /\ fleet'[host'.at].st # "none" BY <2>2, <3>1, <1>6, <1>10
    <3>3. \A w \in Workers : w < host'.at => fleet'[w].st = "joined" BY <3>1, <1>3, <1>4, <1>10
    <3> QED BY <3>1, <3>2, <3>3, <1>1, <1>3, <1>7, <1>9, <1>10, <1>11 DEF FleetInv
  <2> QED BY <2>1, <2>2
<1>13. (host'.pc = "waiting") = (host.pc = "waiting") BY <1>1, <1>5, <1>7
<1>14. \A w \in Workers : Range(fleet'[w].cmds) \subseteq Range(fleet[w].cmds) \cup {Shutdown, Close}
  BY <1>8
<1> QED BY <1>2, <1>7, <1>8, <1>12, <1>13, <1>14, HostStepInv

\* No call waits, and nobody has answered.
LEMMA NoCallFacts ==
    /\ NoCall \in Calls /\ NoCall.id = 0 /\ NoCall.reply = NoReply /\ NoReply \in Replies
    /\ ~Given(NoReply)
<1>1. NoReply \in Replies /\ ~Given(NoReply) BY DEF NoReply, Replies, Values, Given
<1> QED BY <1>1 DEF NoCall, Calls

\* What a call returns without an answer comes from no worker.
LEMMA WithoutFacts ==
    ASSUME NEW val \in Values
    PROVE  Without(val) \in Replies /\ Without(val).val = val /\ ~Given(Without(val))
<1>1. NoReply \in Replies /\ NoReply.id = 0 BY NoCallFacts DEF Given
<1>2. Without(val) \in Replies /\ Without(val).val = val BY <1>1 DEF Without, Replies
<1>3. Without(val).id = 0 BY <1>1 DEF Without, Replies
<1> QED BY <1>2, <1>3 DEF Given

\* A result stays in order when more calls are made.
LEMMA ResultLater ==
    ASSUME NEW r \in Results, NEW m \in Nat, NEW n \in Nat, m <= n, ResultInv(r, m)
    PROVE  ResultInv(r, n)
<1> DEFINE k == r.id
<1>1. k \in Nat BY DEF Results
<1>2. k # 0 /\ k <= m BY Zenon DEF ResultInv
<1> HIDE DEF k
<1>3. k <= n BY <1>1, <1>2
<1> QED BY <1>3, Zenon DEF ResultInv, k

\* The count of calls is a natural number and has not gone down.
CountGrows == host.calls \in Nat /\ host'.calls \in Nat /\ host.calls <= host'.calls

\* A return makes no call.
LEMMA CountStays ==
    ASSUME host.calls \in Nat, host'.calls = host.calls
    PROVE  CountGrows
BY DEF CountGrows

\* The last call made is one of those made.
LEMMA NoMoreThanItself == ASSUME NEW n \in Nat PROVE n <= n
OBVIOUS

\* A call returns: the results so far stay in order, and the new one is.
LEMMA ResultAdded ==
    ASSUME Types, ResultsInv, UNCHANGED <<setup, fleet, effects>>, CountGrows,
           NEW x \in Results, results' = Append(results, x), ResultInv(x, host'.calls)
    PROVE  results' \in Seq(Results) /\ ResultsInv'
<1>1. results \in Seq(Results) /\ effects \in SUBSET Nat BY DEF Types
<1>2. /\ results' \in Seq(Results)
      /\ \A i \in 1..Len(results') :
            \/ results'[i] = x
            \/ i \in 1..Len(results) /\ results'[i] = results[i]
  BY <1>1, AppendFacts
<1>3. \A r \in Results : ResultInv(r, host.calls) => ResultInv(r, host'.calls)
  BY ResultLater DEF CountGrows
<1>4. ASSUME NEW i \in 1..Len(results') PROVE ResultInv(results'[i], host'.calls)
  <2>1. CASE i \in 1..Len(results) /\ results'[i] = results[i]
    <3>1. ResultInv(results[i], host.calls) BY <2>1 DEF ResultsInv
    <3>2. results[i] \in Results BY <1>1, <2>1
    <3> QED BY <2>1, <3>1, <3>2, <1>3
  <2> QED BY <1>2, <2>1
<1>5. ASSUME NEW i \in 1..Len(results') PROVE ResultInv(results[i], host.calls)'
  <2>1. Workers' = Workers BY DEF Workers
  <2> QED BY <1>4, <2>1, Zenon DEF ResultInv, NotQueued
<1>6. \A id \in effects' : id <= host'.calls
  <2> SUFFICES ASSUME NEW id \in effects PROVE id <= host'.calls OBVIOUS
  <2>1. id <= host.calls /\ id \in Nat BY <1>1 DEF ResultsInv
  <2> QED BY <2>1 DEF CountGrows
<1> QED BY <1>2, <1>5, <1>6 DEF ResultsInv

\* A call that waited returns: with the reply in its channel, or without one.
LEMMA ReturnInv ==
    ASSUME Constants, Inv, host.pc = "waiting", UNCHANGED <<setup, fleet, effects>>,
           NEW out \in Replies, results' = Returned(call, call.id, out), call' = NoCall,
           host' = [host EXCEPT !.pc = "up"],
           Given(out) => out = call.reply /\ out # NoReply,
           Says(out, "true") => call.id \in effects, ~Says(out, "not running")
    PROVE  Inv'
<1>1. Types /\ host \in Hosts /\ call \in Calls /\ host.calls \in Nat /\ fleet \in [Workers -> Threads]
  BY HostFields, Zenon DEF Inv, Types
<1>2. CallInv /\ ResultsInv /\ CommandsInv BY Zenon DEF Inv, AnswersInv
<1>3. call.id # 0 /\ call.id = host.calls /\ call.id \in Nat /\ call.handle \in Nat
  BY <1>1, <1>2, Zenon DEF CallInv, Calls
<1>4. /\ host' \in Hosts /\ host'.pc = "up" /\ host'.calls = host.calls
      /\ host'.at = host.at /\ host'.closing = host.closing
  BY <1>1, Zenon DEF Hosts, Phases
<1> DEFINE x == [id |-> call.id, handle |-> call.handle, out |-> out]
<1>5. x \in Results /\ x.id = call.id /\ x.handle = call.handle /\ x.out = out
  BY <1>3, Zenon DEF Results
<1>6. results' = Append(results, x) BY Zenon DEF Returned
<1> HIDE DEF x
<1>7. Given(x.out) => Own(x.out, x.id, x.handle)
  BY <1>2, <1>5, Zenon DEF CallInv
<1>8. results' \in Seq(Results) /\ ResultsInv'
  <2>1. CountGrows BY <1>1, <1>4, CountStays, Zenon
  <2>2. ResultInv(x, host'.calls)
    <3> DEFINE n == host'.calls
    <3>1. x.id = n /\ n \in Nat BY <1>1, <1>3, <1>4, <1>5, ZenonT(30)
    <3> HIDE DEF n
    <3>2. x.id <= n BY <3>1, NoMoreThanItself, Zenon
    <3>3. ResultInv(x, n) BY <3>2, <1>3, <1>5, <1>7, ZenonT(30) DEF ResultInv
    <3> QED BY <3>3, Zenon DEF n
  <2> QED BY <1>1, <1>2, <1>5, <1>6, <2>1, <2>2, ResultAdded, ZenonT(30)
<1>9. Workers' = Workers BY Zenon DEF Workers
<1>10. Types' BY <1>1, <1>4, <1>8, <1>9, NoCallFacts, ZenonT(30) DEF Types
<1>11. FleetInv' BY <1>4, <1>9, Zenon DEF Inv, FleetInv
<1>12. CommandsInv' BY <1>2, <1>4, <1>9, NoCallFacts, ZenonT(30) DEF CommandsInv
<1>13. CallInv' BY <1>4, NoCallFacts, Zenon DEF CallInv
<1> QED BY <1>8, <1>10, <1>11, <1>12, <1>13, ZenonT(30) DEF Inv, AnswersInv

\* recv_worker_reply returns the reply of its own channel.
LEMMA ReplyInv ==
    ASSUME Constants, Inv, Reply PROVE Inv'
<1>1. host.pc = "waiting" /\ call.reply # NoReply /\ call \in Calls BY DEF Reply, Inv, Types
<1>2. call.reply \in Replies BY <1>1, Zenon DEF Calls
<1>3. (Says(call.reply, "true") => call.id \in effects) /\ ~Says(call.reply, "not running")
  BY <1>1, Zenon DEF Inv, AnswersInv, CallInv
<1>4. /\ UNCHANGED <<setup, fleet, effects>> /\ results' = Returned(call, call.id, call.reply)
      /\ call' = NoCall /\ host' = [host EXCEPT !.pc = "up"]
  BY DEF Reply
<1> QED BY <1>1, <1>2, <1>3, <1>4, ReturnInv, ZenonT(30)

\* recv_worker_reply gives up, on a timeout or because the sender is gone.
LEMMA GiveUpInv ==
    ASSUME Constants, Inv, GiveUp PROVE Inv'
<1>1. host.pc = "waiting" BY DEF GiveUp
<1>2. Unanswered(call.op) \in {"false", "timed out"} BY DEF Unanswered
<1> DEFINE out == Without(Unanswered(call.op))
<1>3. out \in Replies /\ ~Says(out, "true") /\ ~Says(out, "not running") /\ ~Given(out)
  <2>1. out \in Replies /\ out.val \in {"false", "timed out"} /\ ~Given(out)
    BY <1>2, WithoutFacts, Zenon DEF Values
  <2> QED BY <2>1, Zenon DEF Says
<1>4. /\ UNCHANGED <<setup, fleet, effects>> /\ results' = Returned(call, call.id, out)
      /\ call' = NoCall /\ host' = [host EXCEPT !.pc = "up"]
  BY DEF GiveUp
<1> HIDE DEF out
<1> QED BY <1>1, <1>3, <1>4, ReturnInv, ZenonT(30)

\* A reply, as the worker makes it.
Made(val, id, by, slot) == [val |-> val, id |-> id, by |-> by, slot |-> slot]

\* A reply carries the call, the worker and the slot it was made from.
LEMMA ReplyMade ==
    ASSUME NEW val \in Values, NEW id \in Nat, NEW by \in Nat, NEW slot \in Nat
    PROVE  /\ Made(val, id, by, slot) \in Replies /\ Own(Made(val, id, by, slot), id, Handle(by, slot))
           /\ \A v : Says(Made(val, id, by, slot), v) <=> v = val
<1> DEFINE out == Made(val, id, by, slot)
<1>1. out \in Replies BY DEF Replies, Made
<1>2. Own(out, id, Handle(by, slot)) BY DEF Own, Made
<1>3. out.val = val BY DEF Made
<1> QED BY <1>1, <1>2, <1>3 DEF Says

\* A worker executes a command and answers it: into the channel of that call, which is
\* read only if the call still waits; a datagram or PING taken by quiche is recorded.
LEMMA ExecuteInv ==
    ASSUME Constants, Inv, NEW w \in Workers, fleet[w].st = "running", NEW q, q = fleet[w].cmds, q # << >>,
           Head(q).op # "shutdown", Head(q) # Close, Execute(w, Head(q)),
           fleet' = [fleet EXCEPT ![w].cmds = Tail(@)], UNCHANGED <<setup, host, results>>
    PROVE  Inv'
<1> DEFINE cmd == Head(q)
<1>1. /\ Types /\ fleet \in [Workers -> Threads] /\ fleet[w] \in Threads /\ q \in Seq(Queued)
      /\ call \in Calls /\ effects \in SUBSET Nat /\ results \in Seq(Results)
  BY DEF Inv, Types, Threads
<1>2. cmd \in Queued /\ cmd \in Range(q) /\ Tail(q) \in Seq(Queued) /\ Range(Tail(q)) \subseteq Range(q)
  BY <1>1, TailSet
<1>3. cmd \in Commands BY <1>2 DEF Queued, Shutdown
<1>4. cmd.id \in Nat \ {0} /\ cmd.slot \in Nat BY <1>3 DEF Commands
<1>5. w \in Nat /\ 0 \in Workers BY <1>1, SetupFacts DEF Types
<1>6. CommandsInv /\ CallInv /\ ResultsInv BY DEF Inv, AnswersInv
<1>7. cmd.id <= host.calls /\ (cmd.id = call.id => Handle(w, cmd.slot) = call.handle)
  BY <1>2, <1>4, <1>6 DEF CommandsInv
<1>8. PICK val \in Values \ {"not running"} :
         /\ call' = Answered(cmd, w, val)
         /\ effects' = IF val = "true" THEN effects \cup {cmd.id} ELSE effects
  <2> HIDE DEF cmd
  <2> QED BY Zenon DEF Execute, Values, cmd
<1> HIDE DEF cmd
<1> DEFINE out == Made(val, cmd.id, w, cmd.slot)
<1>9. out \in Replies /\ Own(out, cmd.id, Handle(w, cmd.slot)) /\ \A v : Says(out, v) <=> v = val
  <2>1. cmd.id \in Nat /\ cmd.slot \in Nat /\ val \in Values BY <1>4, Zenon
  <2> QED BY <2>1, <1>5, ReplyMade, ZenonT(30)
<1>10. call' = IF cmd.id = call.id THEN [call EXCEPT !.reply = out] ELSE call BY <1>8, Zenon DEF Answered, Made
<1> HIDE DEF out
<1>11. /\ call' \in Calls /\ call'.id = call.id /\ call'.handle = call.handle
       /\ call'.reply = IF cmd.id = call.id THEN out ELSE call.reply
  BY <1>1, <1>9, <1>10, ZenonT(30) DEF Calls
<1>12. /\ effects \subseteq effects' /\ effects' \in SUBSET Nat
       /\ \A id \in effects' : id \in effects \/ id = cmd.id
       /\ val = "true" => cmd.id \in effects'
  BY <1>1, <1>4, <1>8, ZenonT(30)
<1> DEFINE t == [fleet[w] EXCEPT !.cmds = Tail(q)]
<1>13. fleet' = [fleet EXCEPT ![w] = t] BY <1>1, Zenon
<1>14. t \in Threads /\ t.st = fleet[w].st /\ t.sock = fleet[w].sock /\ t.cmds = Tail(q)
  BY <1>1, <1>2, ZenonT(30) DEF Threads
<1> HIDE DEF t
<1>15. /\ fleet' \in [Workers -> Threads]
       /\ \A v \in Workers : /\ fleet'[v].st = fleet[v].st /\ fleet'[v].sock = fleet[v].sock
                             /\ Range(fleet'[v].cmds) \subseteq Range(fleet[v].cmds)
  BY <1>1, <1>2, <1>13, <1>14, ZenonT(30)
<1>16. Workers' = Workers BY Zenon DEF Workers
<1>17. Types' BY <1>1, <1>11, <1>12, <1>15, <1>16, ZenonT(30) DEF Types
<1>18. FleetInv'
  <2>1. \A v \in Workers : fleet'[v].sock = (fleet'[v].st \in {"starting", "running"})
    BY <1>15, Zenon DEF Inv, FleetInv
  <2> QED BY <1>1, <1>5, <1>15, <2>1, KeepFleet, ZenonT(30) DEF Inv
<1>19. CommandsInv'
  <2> SUFFICES ASSUME NEW v \in Workers, NEW c \in Range(fleet'[v].cmds)
               PROVE  /\ c.id <= host.calls
                      /\ c.id # 0 /\ c.id = call.id => Handle(v, c.slot) = call.handle
    BY <1>11, <1>16, ZenonT(30) DEF CommandsInv
  <2>1. c \in Range(fleet[v].cmds) BY <1>15, Zenon
  <2> QED BY <2>1, <1>6, ZenonT(30) DEF CommandsInv
<1>20. CallInv'
  <2>1. CASE cmd.id = call.id
    <3>1. Own(out, call.id, call.handle) /\ ~Says(out, "not running") /\ (Says(out, "true") => call.id \in effects')
      BY <2>1, <1>7, <1>9, <1>12, ZenonT(30)
    <3>2. call'.reply = out BY <2>1, <1>11, ZenonT(30)
    <3> QED BY <3>1, <3>2, <1>6, <1>11, ZenonT(30) DEF CallInv
  <2>2. CASE cmd.id # call.id
    <3>1. call'.reply = call.reply BY <2>2, <1>11, ZenonT(30)
    <3> QED BY <3>1, <1>6, <1>11, <1>12, ZenonT(30) DEF CallInv
  <2> QED BY <2>1, <2>2, ZenonT(30)
<1>21. ResultsInv'
  <2>1. ASSUME NEW i \in 1..Len(results) PROVE ResultInv(results[i], host.calls)'
    <3>1. ResultInv(results[i], host.calls) BY <1>6, ZenonT(30) DEF ResultsInv
    <3>2. NotQueued(results[i].id) => results[i].id # cmd.id BY <1>2, Zenon DEF NotQueued, cmd
    <3>3. NotQueued(results[i].id) => NotQueued(results[i].id)' BY <1>15, <1>16, ZenonT(30) DEF NotQueued
    <3> QED BY <3>1, <3>2, <3>3, <1>12, ZenonT(30) DEF ResultInv
  <2>2. \A id \in effects' : id <= host'.calls BY <1>6, <1>7, <1>12, Zenon DEF ResultsInv
  <2> QED BY <2>1, <2>2, ZenonT(30) DEF ResultsInv
<1> QED BY <1>17, <1>18, <1>19, <1>20, <1>21, ZenonT(30) DEF Inv, AnswersInv

\* A woken worker takes the next command of its channel, or finds none.
LEMMA TakeInv ==
    ASSUME Constants, Inv, NEW w, TakeCommand(w) PROVE Inv'
<1>1. w \in Workers /\ fleet[w].st = "running" /\ UNCHANGED <<setup, results>> BY DEF TakeCommand
<1>2. fleet \in [Workers -> Threads] /\ fleet[w] \in Threads /\ host \in Hosts BY <1>1 DEF Inv, Types
<1>3. fleet[w].sock = TRUE BY <1>1, Zenon DEF Inv, FleetInv
<1>4. CASE fleet[w].cmds = << >>
  <2>1. fleet' = [fleet EXCEPT ![w].signal = FALSE] /\ UNCHANGED <<host, call, effects>>
    BY <1>4 DEF TakeCommand
  <2> DEFINE t == [fleet[w] EXCEPT !.signal = FALSE]
  <2>2. fleet' = [fleet EXCEPT ![w] = t] BY <1>2, <2>1
  <2>3. t \in Threads /\ t.st = fleet[w].st /\ t.sock = fleet[w].sock /\ t.cmds = fleet[w].cmds
    BY <1>2, Zenon DEF Threads
  <2> HIDE DEF t
  <2> QED BY <1>1, <1>2, <1>3, <2>1, <2>2, <2>3, ThreadStep, ZenonT(30)
<1>5. CASE fleet[w].cmds # << >> /\ Head(fleet[w].cmds).op = "shutdown"
  <2>1. /\ fleet' = [fleet EXCEPT ![w] = Exited] /\ UNCHANGED <<call, effects>>
        /\ host' = [host EXCEPT !.sentinels = @ + 1]
    BY <1>5 DEF TakeCommand
  <2>2. /\ host' \in Hosts /\ host'.pc = host.pc /\ host'.at = host.at
        /\ host'.closing = host.closing /\ host'.calls = host.calls
    <3>1. host.sentinels + 1 \in Nat BY <1>2, HostFields
    <3> QED BY <1>2, <2>1, <3>1, ZenonT(30) DEF Hosts
  <2> QED BY <1>1, <2>1, <2>2, ExitedFacts, ThreadStep, ZenonT(30)
<1>6. CASE fleet[w].cmds # << >> /\ Head(fleet[w].cmds).op # "shutdown" /\ Head(fleet[w].cmds) = Close
  <2>1. fleet' = [fleet EXCEPT ![w].cmds = Tail(@)] /\ UNCHANGED <<host, call, effects>>
    BY <1>6 DEF TakeCommand
  <2> DEFINE t == [fleet[w] EXCEPT !.cmds = Tail(fleet[w].cmds)]
  <2>2. fleet' = [fleet EXCEPT ![w] = t] BY <1>2, <2>1
  <2>3. fleet[w].cmds \in Seq(Queued) BY <1>2 DEF Threads
  <2>4. Tail(fleet[w].cmds) \in Seq(Queued) /\ Range(Tail(fleet[w].cmds)) \subseteq Range(fleet[w].cmds)
    BY <1>6, <2>3, TailSet
  <2>5. t \in Threads /\ t.st = fleet[w].st /\ t.sock = fleet[w].sock /\ t.cmds = Tail(fleet[w].cmds)
    BY <1>2, <2>4, Zenon DEF Threads
  <2> HIDE DEF t
  <2> QED BY <1>1, <1>2, <1>3, <2>1, <2>2, <2>4, <2>5, ThreadStep, ZenonT(30)
<1>7. CASE fleet[w].cmds # << >> /\ Head(fleet[w].cmds).op # "shutdown" /\ Head(fleet[w].cmds) # Close
  <2>1. /\ fleet' = [fleet EXCEPT ![w].cmds = Tail(@)] /\ UNCHANGED host
        /\ Execute(w, Head(fleet[w].cmds))
    BY <1>7 DEF TakeCommand
  <2> QED BY <1>1, <1>7, <2>1, ExecuteInv, Zenon
<1> QED BY <1>4, <1>5, <1>6, <1>7

\* A handle is a natural number.
LEMMA HandleIsNat == ASSUME NEW handle \in AllHandles PROVE handle \in Nat
<1>1. PICK w \in AllWorkers, h \in AllSlots : handle = Handle(w, h) BY DEF AllHandles
<1>2. w \in Nat /\ h \in Nat BY DEF AllWorkers, AllSlots
<1> DEFINE d == 2 ^ WORKER_SHIFT
<1>3. d \in Nat BY DEF WORKER_SHIFT
<1>4. handle = w * d + h BY <1>1 DEF Handle, handle_offset
<1> HIDE DEF d
<1> QED BY <1>2, <1>3, <1>4

\* A call is for the handle it is given; a client's is for its own session.
LEMMA RequestFacts ==
    ASSUME NEW handle, Server \/ handle = SessionSlot, NEW q \in Requests(handle)
    PROVE  q.op \in Ops /\ q.handle = handle
<1>1. CASE setup.kind = "h3server"
  BY <1>1 DEF Requests, Ops, Request, server_send_datagram, server_get_session_metrics,
     server_get_remote_settings, server_ping_session, server_get_qlog_path
<1>2. CASE setup.kind = "quicserver"
  BY <1>2 DEF Requests, Ops, Request, quic_send_datagram, quic_get_session_metrics,
     quic_ping_session, quic_get_qlog_path
<1>3. CASE setup.kind \in {"h3client", "sharedh3"}
  <2>1. handle = SessionSlot BY <1>3 DEF Server
  <2> QED BY <1>3, <2>1 DEF Requests, Ops, Request, client_send_datagram, client_get_session_metrics,
     client_get_remote_settings, client_ping, client_get_qlog_path
<1>4. CASE setup.kind \notin {"h3server", "quicserver", "h3client", "sharedh3"}
  <2>1. handle = SessionSlot BY <1>4 DEF Server
  <2> QED BY <1>4, <2>1 DEF Requests, Ops, Request, quic_client_send_datagram,
     quic_client_get_session_metrics, quic_client_ping, quic_client_get_qlog_path
<1> QED BY <1>1, <1>2, <1>3, <1>4

\* Commands carry numbers.
LEMMA QueuedIds ==
    ASSUME Types, NEW w \in Workers, NEW cmd \in Range(fleet[w].cmds)
    PROVE  cmd.id \in Nat
<1>1. fleet[w].cmds \in Seq(Queued) BY DEF Types, Threads
<1>2. cmd \in Queued BY <1>1 DEF Range
<1> QED BY <1>2 DEF Queued, Commands, Shutdown, Close

\* The number of the next call is larger than every number so far.
LEMMA NextNumber ==
    ASSUME NEW m \in Nat
    PROVE  /\ m + 1 \in Nat \ {0} /\ m <= m + 1 /\ m + 1 <= m + 1
           /\ \A id \in Nat : id <= m => id <= m + 1 /\ id # m + 1
OBVIOUS

\* The worker is gone: the call fails at once, and nothing is queued for it.
LEMMA IssueDeadInv ==
    ASSUME Constants, Inv, NEW q, q.handle \in Nat, host.pc \in {"up", "closed"},
           NEW n, n = host.calls + 1,
           results' = Returned(q, n, Without("not running")),
           host' = [host EXCEPT !.calls = n], UNCHANGED <<setup, fleet, call, effects>>
    PROVE  Inv'
<1>1. Types /\ host \in Hosts /\ host.calls \in Nat /\ effects \in SUBSET Nat BY HostFields, Zenon DEF Inv, Types
<1>2. /\ n \in Nat \ {0} /\ host.calls <= n /\ n <= n
      /\ \A id \in Nat : id <= host.calls => id <= n /\ id # n
  BY <1>1, NextNumber, ZenonT(30)
<1>3. /\ host' \in Hosts /\ host'.pc = host.pc /\ host'.at = host.at
      /\ host'.closing = host.closing /\ host'.calls = n
  BY <1>1, <1>2, ZenonT(30) DEF Hosts
<1>4. CommandsInv /\ CallInv /\ ResultsInv BY Zenon DEF Inv, AnswersInv
<1>5. call.id = 0 BY <1>4, ZenonT(30) DEF CallInv
<1>6. Workers' = Workers BY Zenon DEF Workers
<1>7. NotQueued(n)
  <2> SUFFICES ASSUME NEW w \in Workers, NEW cmd \in Range(fleet[w].cmds) PROVE cmd.id # n
    BY ZenonT(30) DEF NotQueued
  <2>1. cmd.id <= host.calls /\ cmd.id \in Nat BY <1>1, <1>4, QueuedIds, ZenonT(30) DEF CommandsInv
  <2> QED BY <2>1, <1>2, ZenonT(30)
<1>8. n \notin effects
  <2>1. \A id \in effects : id \in Nat /\ id <= host.calls BY <1>1, <1>4, ZenonT(30) DEF ResultsInv
  <2> QED BY <2>1, <1>2, ZenonT(30)
<1> DEFINE out == Without("not running")
           x == [id |-> n, handle |-> q.handle, out |-> out]
<1>9. out \in Replies /\ ~Given(out) /\ ~Says(out, "true")
  <2>1. out \in Replies /\ ~Given(out) /\ out.val = "not running" BY WithoutFacts, Zenon DEF Values
  <2> QED BY <2>1, Zenon DEF Says
<1>10. results' = Append(results, x) BY Zenon DEF Returned
<1> HIDE DEF out
<1>11. x \in Results /\ x.id = n /\ x.out = out BY <1>2, <1>9, ZenonT(30) DEF Results
<1> HIDE DEF x
<1>12. ResultInv(x, host'.calls) BY <1>2, <1>3, <1>7, <1>8, <1>9, <1>11, ZenonT(30) DEF ResultInv
<1>13. CountGrows BY <1>1, <1>2, <1>3, ZenonT(30) DEF CountGrows
<1>14. results' \in Seq(Results) /\ ResultsInv' BY <1>1, <1>4, <1>10, <1>11, <1>12, <1>13, ResultAdded, ZenonT(30)
<1>15. Types' BY <1>1, <1>3, <1>6, <1>14, ZenonT(30) DEF Types
<1>16. FleetInv' BY <1>3, <1>6, ZenonT(30) DEF Inv, FleetInv
<1>17. CommandsInv'
  <2> SUFFICES ASSUME NEW w \in Workers, NEW cmd \in Range(fleet[w].cmds) PROVE cmd.id <= n
    BY <1>3, <1>5, <1>6, ZenonT(30) DEF CommandsInv
  <2>1. cmd.id <= host.calls /\ cmd.id \in Nat BY <1>1, <1>4, QueuedIds, Zenon DEF CommandsInv
  <2> QED BY <2>1, <1>2, ZenonT(30)
<1>18. CallInv' BY <1>3, <1>4, <1>5, ZenonT(30) DEF CallInv
<1> QED BY <1>14, <1>15, <1>16, <1>17, <1>18, ZenonT(30) DEF Inv, AnswersInv

\* The worker lives: its channel gets the command, and the host waits.
LEMMA IssueAliveInv ==
    ASSUME Constants, Inv, NEW q, q.handle \in Nat, q.op \in Ops, host.pc = "up",
           NEW n, n = host.calls + 1,
           fleet' = Sent(fleet, {Target(q)}, Command(q, n)),
           call' = [NoCall EXCEPT !.id = n, !.op = q.op, !.handle = q.handle],
           host' = [host EXCEPT !.pc = "waiting", !.calls = n], UNCHANGED <<setup, results, effects>>
    PROVE  Inv'
<1>1. /\ Types /\ host \in Hosts /\ host.calls \in Nat /\ effects \in SUBSET Nat
      /\ fleet \in Fleets /\ results \in Seq(Results) /\ setup \in Setups
  BY HostFields DEF Inv, Types, Fleets
<1>2. /\ n \in Nat \ {0} /\ host.calls <= n /\ n <= n
      /\ \A id \in Nat : id <= host.calls => id <= n /\ id # n
  BY <1>1, NextNumber
<1>3. /\ host' \in Hosts /\ host'.pc = "waiting" /\ host'.at = host.at
      /\ host'.closing = host.closing /\ host'.calls = n
  BY <1>1, <1>2, ZenonT(30) DEF Hosts, Phases
<1>4. CommandsInv /\ CallInv /\ ResultsInv BY DEF Inv, AnswersInv
<1>5. Workers' = Workers BY DEF Workers
<1>6. /\ call' \in Calls /\ call'.id = n /\ call'.handle = q.handle /\ call'.reply = NoReply
  BY <1>2, NoCallFacts, ZenonT(30) DEF Calls
<1> DEFINE c == Command(q, n)
<1>7. c \in Queued /\ c.id = n /\ Handle(Target(q), c.slot) = q.handle
  <2>1. local_conn_handle(q.handle) \in Nat BY Recombined
  <2>2. c \in Commands /\ c.id = n /\ c.slot = local_conn_handle(q.handle)
    BY <1>2, <2>1 DEF Command, Commands
  <2> HIDE DEF c
  <2> QED BY <2>2, Recombined DEF Queued, Target
<1> HIDE DEF c
<1>8. /\ fleet' \in Fleets
      /\ \A w \in Workers : /\ fleet'[w].st = fleet[w].st /\ fleet'[w].sock = fleet[w].sock
                            /\ Range(fleet'[w].cmds) \subseteq Range(fleet[w].cmds) \cup {c}
                            /\ w \notin {Target(q)} => fleet'[w] = fleet[w]
  <2> DEFINE ws == {Target(q)}
             g == Sent(fleet, ws, c)
  <2>1. fleet' = g BY DEF c
  <2>2. fleet \in Fleets /\ c \in Queued BY <1>1, <1>7
  <2> HIDE DEF ws
  <2>3. /\ g \in Fleets
        /\ \A w \in Workers : /\ g[w].st = fleet[w].st /\ g[w].sock = fleet[w].sock
                              /\ Range(g[w].cmds) \subseteq Range(fleet[w].cmds) \cup {c}
                              /\ w \notin ws => g[w] = fleet[w]
    BY <2>2, SentFacts
  <2> HIDE DEF g
  <2> QED BY <2>1, <2>3, Zenon DEF ws
<1>9. ASSUME NEW w \in Workers, NEW cmd \in Range(fleet'[w].cmds)
      PROVE  \/ cmd \in Range(fleet[w].cmds) /\ cmd.id <= host.calls /\ cmd.id <= n /\ cmd.id # n
             \/ cmd.id = n /\ Handle(w, cmd.slot) = q.handle
  <2>1. CASE cmd \in Range(fleet[w].cmds)
    <3>1. cmd.id \in Nat /\ cmd.id <= host.calls BY <2>1, <1>1, <1>4, QueuedIds DEF CommandsInv
    <3> QED BY <2>1, <3>1, <1>2
  <2>2. CASE cmd \notin Range(fleet[w].cmds)
    <3>1. cmd = c BY <2>2, <1>8
    <3>2. w = Target(q) BY <2>2, <1>8, Zenon
    <3> QED BY <3>1, <3>2, <1>7
  <2> QED BY <2>1, <2>2
<1>10. Types' BY <1>1, <1>3, <1>5, <1>6, <1>8, Zenon DEF Types, Fleets
<1>11. FleetInv'
  <2>1. \A w \in Workers : fleet'[w].sock = (fleet'[w].st \in {"starting", "running"})
    BY <1>8, ZenonT(30) DEF Inv, FleetInv
  <2>2. 0 \in Workers BY <1>1, SetupFacts
  <2>3. /\ \A v, w \in Workers : v < w /\ fleet[w].st # "none" => fleet[v].st # "none"
        /\ fleet[0].st # "none" /\ (host.closing => host.at = 0)
        /\ \A w \in Workers : fleet[w].st # "joined"
    BY DEF Inv, FleetInv
  <2>4. /\ \A v, w \in Workers : v < w /\ fleet'[w].st # "none" => fleet'[v].st # "none"
        /\ fleet'[0].st # "none" /\ \A w \in Workers : fleet'[w].st # "joined"
    BY <1>8, <2>2, <2>3, ZenonT(30)
  <2> QED BY <1>3, <1>5, <2>1, <2>3, <2>4, Zenon DEF FleetInv
<1>12. CommandsInv'
  <2> SUFFICES ASSUME NEW w \in Workers, NEW cmd \in Range(fleet'[w].cmds)
               PROVE  cmd.id <= n /\ (cmd.id = n => Handle(w, cmd.slot) = q.handle)
    BY <1>3, <1>5, <1>6, ZenonT(30) DEF CommandsInv
  <2> QED BY <1>2, <1>9, Zenon
<1>13. CallInv' BY <1>2, <1>3, <1>6, Zenon DEF CallInv
<1>14. ASSUME NEW i \in 1..Len(results) PROVE ResultInv(results[i], host.calls)'
  <2>1. ResultInv(results[i], host.calls) /\ results[i] \in Results BY <1>1, <1>4 DEF ResultsInv
  <2>2. ResultInv(results[i], n) BY <2>1, <1>1, <1>2, ResultLater
  <2>3. results[i].id # n
    <3>1. results[i].id \in Nat BY <2>1 DEF Results
    <3>2. results[i].id <= host.calls BY <2>1, Zenon DEF ResultInv
    <3> QED BY <3>1, <3>2, <1>2
  <2>4. NotQueued(results[i].id) => NotQueued(results[i].id)' BY <2>3, <1>5, <1>9, Zenon DEF NotQueued
  <2> QED BY <2>2, <2>4, <1>3, ZenonT(30) DEF ResultInv
<1>15. \A id \in effects' : id <= host'.calls
  <2>1. \A id \in effects : id \in Nat /\ id <= host.calls BY <1>1, <1>4 DEF ResultsInv
  <2> QED BY <2>1, <1>2, <1>3
<1> QED BY <1>10, <1>11, <1>12, <1>13, <1>14, <1>15 DEF Inv, AnswersInv, ResultsInv

\* A synchronous call of JavaScript.
LEMMA CallStepInv ==
    ASSUME Constants, Inv, NEW handle \in AllHandles, Call(handle) PROVE Inv'
<1>1. PICK q \in Requests(handle) : Issue(q) BY DEF Call
<1>2. Server \/ handle = SessionSlot BY DEF Call
<1>3. q.op \in Ops /\ q.handle = handle BY <1>2, RequestFacts
<1>4. handle \in Nat BY HandleIsNat
<1>5. host \in Hosts /\ setup \in Setups BY DEF Inv, Types
<1>6. Target(q) \in Workers
  <2>1. worker_index(handle) \in Nat /\ worker_index(handle) < NumWorkers(setup) BY <1>4, Recombined DEF Call
  <2> QED BY <2>1, <1>3, <1>5, SetupFacts DEF Target
<1>7. host.pc \in {"up", "closed"} BY <1>1, ZenonT(30) DEF Issue
<1>8. CASE Alive(Target(q))
  <2>1. host.pc = "up"
    <3> SUFFICES ASSUME host.pc = "closed" PROVE FALSE BY <1>7
    <3> QED BY <1>6, <1>8 DEF Inv, FleetInv, Alive
  <2>2. /\ fleet' = Sent(fleet, {Target(q)}, Command(q, host.calls + 1))
        /\ call' = [NoCall EXCEPT !.id = host.calls + 1, !.op = q.op, !.handle = q.handle]
        /\ host' = [host EXCEPT !.pc = "waiting", !.calls = host.calls + 1]
        /\ UNCHANGED <<setup, results, effects>>
    BY <1>1, <1>8 DEF Issue
  <2>3. q.handle \in Nat BY <1>3, <1>4
  <2> QED BY <1>3, <2>1, <2>2, <2>3, IssueAliveInv, ZenonT(30)
<1>9. CASE ~Alive(Target(q))
  <2>1. /\ results' = Returned(q, host.calls + 1, Without("not running"))
        /\ host' = [host EXCEPT !.calls = host.calls + 1]
        /\ UNCHANGED <<setup, fleet, call, effects>>
    BY <1>1, <1>9, ZenonT(30) DEF Issue
  <2>2. q.handle \in Nat BY <1>3, <1>4
  <2> QED BY <1>7, <2>1, <2>2, IssueDeadInv, ZenonT(30)
<1> QED BY <1>8, <1>9

\* Every step keeps the invariant.
LEMMA NextInv ==
    ASSUME Constants, Inv, [Next]_vars PROVE Inv'
<1>1. CASE listen \/ quic_listen \/ connect \/ quic_connect
  BY <1>1, BeginInv DEF listen, quic_listen, connect, quic_connect
<1>2. CASE StartWorker
  BY <1>2, SpawnInv DEF StartWorker, spawn_worker, spawn_quic_worker, spawn_client_worker, spawn_quic_client
<1>3. CASE Reply BY <1>3, ReplyInv
<1>4. CASE GiveUp BY <1>4, GiveUpInv
<1>5. CASE join BY <1>5, JoinInv
<1>6. CASE waitForShutdownOrTimeout BY <1>6, WaitInv
<1>7. CASE fallback BY <1>7, FallbackInv
<1>8. CASE close \/ drop BY <1>8, ShutdownInv DEF close, drop
<1>9. ASSUME NEW why \in {"unavailable", "other"}, StartFails(why) PROVE Inv' BY <1>9, StartFailsInv
<1>10. ASSUME NEW handle \in AllHandles, Call(handle) PROVE Inv' BY <1>10, CallStepInv
<1>11. ASSUME NEW w \in AllWorkers, InitHandler(w) \/ TakeCommand(w) \/ WorkerEnds(w) PROVE Inv'
  BY <1>11, HandlerInv, TakeInv, EndsInv
<1>12. ASSUME NEW w \in AllWorkers, NEW h \in AllSlots, Accept(w, h) \/ Reap(w, h) PROVE Inv'
  BY <1>12, ConnsInv
<1>13. CASE UNCHANGED vars
  <2>1. UNCHANGED <<setup, host, fleet, call, results, effects>> BY <1>13 DEF vars
  <2>2. Workers' = Workers BY <2>1 DEF Workers
  <2>3. Types' BY <2>1, <2>2 DEF Inv, Types
  <2>4. FleetInv' BY <2>1, <2>2 DEF Inv, FleetInv
  <2>5. host.calls \in Nat /\ fleet \in [Workers -> Threads] BY HostFields DEF Inv, Types
  <2>6. \A w \in Workers : Range(fleet'[w].cmds) \subseteq Range(fleet[w].cmds) \cup {Shutdown, Close}
    BY <2>1
  <2>7. AnswersInv' BY <2>1, <2>6, KeepAnswers DEF Inv
  <2> QED BY <2>3, <2>4, <2>7 DEF Inv
<1> QED
  BY <1>1, <1>2, <1>3, <1>4, <1>5, <1>6, <1>7, <1>8, <1>9, <1>10, <1>11, <1>12, <1>13 DEF Next, HostStep

\* The invariant holds in every state of every behaviour.
THEOREM InvAlways == ASSUME Constants PROVE SafeSpec => []Inv
<1>1. Init => Inv BY InitInv
<1>2. Inv /\ [Next]_vars => Inv' BY NextInv
<1> QED BY <1>1, <1>2, PTL DEF SafeSpec

\* A listen that failed half-way, and a close or a drop that returned, leave no thread
\* and no socket behind (shutdown_spawned_h3 and _quic, request_shutdown, join).
THEOREM NoOrphansAlways == ASSUME Constants PROVE SafeSpec => []NoOrphans
<1>1. Inv => NoOrphans
  <2> SUFFICES ASSUME Inv, host.pc \in {"idle", "failed", "closed"}, NEW w \in Workers
               PROVE  fleet[w].st \in {"none", "joined"} /\ ~fleet[w].sock
    BY DEF NoOrphans
  <2>1. fleet[w].st \in {"none", "joined"} BY DEF Inv, FleetInv
  <2>2. (fleet[w].st \in {"starting", "running"}) = FALSE BY <2>1
  <2>3. fleet[w].sock = (fleet[w].st \in {"starting", "running"}) BY DEF Inv, FleetInv
  <2> QED BY <2>1, <2>2, <2>3, Zenon
<1> QED BY <1>1, InvAlways, PTL

\* What a synchronous call returns is the answer to this call, given by the worker and
\* for the slot its handle names, however many calls before it timed out.
THEOREM AnswersOwnAlways == ASSUME Constants PROVE SafeSpec => []AnswerIsOwn
<1>1. Inv => AnswerIsOwn
  <2> SUFFICES ASSUME Inv, NEW i \in DOMAIN results
               PROVE  results[i].out.id # 0 =>
                        results[i].out.id = results[i].id
                        /\ Handle(results[i].out.by, results[i].out.slot) = results[i].handle
    BY DEF AnswerIsOwn
  <2>1. i \in 1..Len(results) BY DEF Inv, Types
  <2>2. ResultInv(results[i], host.calls) BY <2>1 DEF Inv, AnswersInv, ResultsInv
  <2>3. Given(results[i].out) => Own(results[i].out, results[i].id, results[i].handle)
    BY <2>2, ZenonT(30) DEF ResultInv
  <2> QED BY <2>3 DEF Given, Own
<1> QED BY <1>1, InvAlways, PTL

\* A datagram or a PING reported as sent was given to quiche, and one refused because
\* the worker is gone never is (WorkerHandle, QuicServerHandle and the client handles).
THEOREM AnswersTrueAlways == ASSUME Constants PROVE SafeSpec => []AnswerIsTrue
<1>1. Inv => AnswerIsTrue
  <2> SUFFICES ASSUME Inv, NEW i \in DOMAIN results
               PROVE  /\ results[i].out.val = "true" => results[i].id \in effects
                      /\ results[i].out.val = "not running" => results[i].id \notin effects
    BY ZenonT(30) DEF AnswerIsTrue
  <2>1. i \in 1..Len(results) BY DEF Inv, Types
  <2>2. ResultInv(results[i], host.calls) BY <2>1 DEF Inv, AnswersInv, ResultsInv
  <2>3. /\ Says(results[i].out, "true") => results[i].id \in effects
        /\ Says(results[i].out, "not running") => results[i].id \notin effects
    BY <2>2, Zenon DEF ResultInv
  <2> QED BY <2>3, Zenon DEF Says
<1> QED BY <1>1, InvAlways, PTL
==============================================================================
