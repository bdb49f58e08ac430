# TLA+ model of @currentspace/http3

This directory specifies, model-checks and in part proves the concurrent core of the
library: how JavaScript and the worker threads share the write window, how a response
gets from a stream object to quiche, how events get back to JavaScript, how sessions,
threads and connections begin and end, how timers and buffers are kept, how the platform
drivers move datagrams, and how the WebAssembly build does the same in one thread.
Paths are relative to the repository root.

## 1. The system

A Node addon runs QUIC and HTTP/3 in Rust worker threads; the WebAssembly build runs the
same Rust core inside the JavaScript thread.

```
  JavaScript thread                          worker thread (one per shard or client)
  -----------------                          ---------------------------------------
  servers, clients, sessions, streams        run_event_loop  (src/event_loop.rs)
    |  try_admit -> OutboundAdmission           poll driver (io_uring, poll, kqueue)
    |  command  -> crossbeam channel, waker     commands -> handler -> quiche
    |  synchronous call <- reply channel        packets, timers (TimerHeap, ConnectionMap)
    |  <- ThreadsafeFunction <- EventBatcher    polls, drains, pending writes, reaping
    |  ack of each batch -> gauge, waker        gauge -> pause
```

| Part | State | Interacts with | What is hard about it | Modules |
|---|---|---|---|---|
| Outbound admission (`src/outbound_admission.rs`, `src/proof_core/admission.rs`) | `queued`, `pressured` | every writer, the worker | lock-free; a refusal races with the release that should wake it | AdmissionCore, AdmissionWindow, OutboundAdmission |
| HTTP/3 server writes (`src/worker.rs`, `src/worker/pending.rs`, `lib/stream.ts`) | command channel, pending writes and responses, `blocked_set`, stream flags | admission, quiche, delivery | two threads, two kinds of backpressure, teardown at any time | H3ServerWrites |
| HTTP/3 server sessions (`src/connection_map.rs`, `src/worker.rs`, `src/server_sharding.rs`, `lib/server.ts`, `lib/session.ts`) | slab, connection IDs, deferred closes, session and stream maps | delivery, timers | handles are reused while commands and events are under way | ServerSessions |
| HTTP/3 clients (`src/worker.rs`, `src/connection.rs`, `lib/client.ts`, `lib/stream.ts`) | read credit, `pending_readable`, requests, close state | admission, delivery | edge-triggered DATA under two budgets; requests that time out | H3Connection, H3Client |
| Shared client worker (`src/worker.rs`, `src/shared_client_reactor.rs`, `lib/event-loop.ts`) | registry, session slab, routes, join handle | clients, delivery | the loop exits while it is being acquired | SharedClients |
| Raw QUIC (`src/quic_worker.rs`, `src/quic_connection.rs`, `lib/quic-*.ts`) | as for HTTP/3, without responses | admission, delivery | same as HTTP/3, separate code | QuicConnection, QuicStreams, PendingWrites, QuicServer, QuicClients |
| Event delivery (`src/event_loop.rs`, `src/reactor_metrics.rs`, `lib/event-loop.ts`) | batch, queue, gauge, watchdog clock, close phase | all handlers, all bindings | one gauge for many workers; joins block the dispatcher | EventDelivery |
| Worker threads (`src/worker.rs`, `src/quic_worker.rs`, `src/worker_reply.rs`, `src/server.rs`) | threads, channels, replies | JavaScript's synchronous calls | failures half-way; answers that come too late | WorkerThreads |
| Timers (`src/timer_heap.rs`) | heap, current deadlines | sessions | lazy deletion | TimerHeap |
| Buffers (`src/chunk_pool.rs`, `src/arc_buf.rs`, `src/buffer_pool.rs`, `src/unsafe_boundary.rs`) | bins, return channel, leases | writes, reads, finalizers | memory comes back from another thread | SizeClasses, OutboundBuffers, InboundBuffers |
| Drivers (`src/transport/`) | rings, slots, sockets, pending sends | event loop, kernel | completions out of order, full rings, edges that come once | Driver, IoUringDriver, ReadinessDrivers |
| WebAssembly build (`crates/http3-wasm/`, `lib/wasm/`) | connection slots, one timer, stream objects | socket, application | re-entrant callbacks; one timer for all deadlines | WasmServer, WasmClient |

`PROJECT.json` lists all parts, also those with nothing to model, and the hazards
line by line; its map gives the source lines of every definition.

## 2. The modules

A module has the state of its part as variables, one action per operation, handler or
phase, and names from the source. A payload is a number of bytes and a FIN; an event or
command is a record of its kind and what it names. A connection has a number of its own,
invisible to the code, so that a property can tell it from the next one in its slot.

**AdmissionCore** is the arithmetic of `src/proof_core/admission.rs`. **AdmissionWindow** is
the abstract window: `Admit`, `Refuse`, `Release` and `Wake` are one step each, and a
refused writer is woken unless others keep being admitted. **OutboundAdmission** has a step
for every access to the two atomics: a writer goes `idle -> load -> cas` or
`-> press -> recheck -> count -> waiting`, the worker `load -> cas -> swap`. `Next` is a
sequentially consistent memory; `BufferedNext` adds the store buffer of x86-64, in which
the plain store to `pressured` may wait until the thread's next locked instruction.
`Window` and `Refused` map it to AdmissionWindow. All other modules take an admission as
one step, which this refinement justifies for sequentially consistent memory.

**H3ServerWrites** models one connection: the writable side of `ServerHttp3Stream`
(`Respond`, `Write`, `End`, `RespondWithBody`, `SendTrailers`, `Destroy`), the worker's
handling of each command (`DispatchSendResponse`, `DispatchStreamSend`, ...), the phases
of a tick (`CollectDrainEvents`, `FlushAllPendingWrites`, `ReapAndEmit`) and the events on
the JavaScript side (`OnDrain`, `OnWriteReady`, `OnResetOrError`, ...). quiche is a capacity
per stream that the peer raises, HEADERS costing one unit of it.

**ServerSessions** models the connection maps of the shards and the maps of
`Http3SecureServer`. A tick is `commands -> packets -> timers -> app -> reap`; delivery is a
queue of events; a handle carries the worker's index in its upper part.

**H3Connection** has the methods of `H3Connection` as operators on a record, and **H3Client**
one client session on top of it, from `request()` over commands, polls under a budget,
read credit and FINISHED to `close()` and the end of the worker.

**SharedClients** models `connect()` and `close()` of clients that share a worker: the
registry, OpenSession with its reply and timeout, routing by connection ID, the exit of the
loop when its last session has gone, and the join.

**PendingWrites**, **QuicConnection** and **QuicStreams** are the operators of raw QUIC:
`PendingWrite`, the connection wrapper with `known_streams`, `pending_fin` and the blocked
queue, and `QuicStream`. **QuicServer** (several workers, Retry, certificates, connection
IDs, reuse of slots) and **QuicClients** (dedicated and shared workers, `openStream()`,
budgets) use them.

**EventDelivery** models `run_event_loop` phase by phase for any set of bindings, each a set
of workers. The handler is reduced to the events it emits: "app" events, limited by the
budget, and "ctl" events, which are not. How the budget limits them is that of the HTTP/3
handlers: `collect_app_events` subtracts what it has found, `expire_timers` gives the whole
budget to each of the `Conns` connections (raw QUIC also sweeps the finished streams of all
connections with it, which is left to QuicServer). `Flush` counts events in the gauge before `Emit`
hands them over, as the code does, so every other worker may look in between. JavaScript
runs `Dispatch`, `Close`, `AwaitShutdown`, `StartJoin`, `JoinWorker`, `ClearMaps`; `Teardown`
is the end of its environment. Counts are cardinalities of disjoint unions (`Spread`), a
form in which they can be proved about.

**WorkerThreads** models listen and connect with a failure at any worker and the fallback
to the portable driver, the synchronous calls with their reply channels and time limit,
shutdown, drop and join, for servers, dedicated and shared clients.

**TimerHeap**: the heap is a bag of entries, and `pop_expired` and `next_deadline` remove
one stale entry per step. **SizeClasses** has the lookups of the two pools;
**OutboundBuffers** follows an allocation from a call into the addon through `Chunk` and
`ArcBuf`, cloned, split and prefixed, back to its bin; **InboundBuffers** follows a read
buffer through a lease to JavaScript and the finalizer.

**Driver** states what the event loops rely on: a datagram taken leaves once or is given
up on a permanent error, arrivals are delivered in order, a wake is reported.
**IoUringDriver** (plain sends, GSO, bundles, deferred task work, multishot receive) and
**ReadinessDrivers** (poll, kqueue with and without batched calls, the mock) refine it.

**WasmServer** and **WasmClient** model the exported functions of the Rust core together
with the event loop in JavaScript: every callback pumps (flush, drain events, flush, set
the timer), and the application may call in again from a handler.

**Composites.** `MCServer`, `MCClients`, `MCQuic`, `MCProcess`, `MCMemory` and the two `MC...Live`
modules put modules side by side: the variable `part`, chosen at the start, says which one
a behaviour is about, so that one question (is a window tight? does a close return?) is
asked of all parts that must answer it. `MCEventDelivery`, `MCH3ServerWrites` and
`MCServerSessions` are single instances for the runs that end in a violation. Real interaction
is inside the modules: each has both ends of what it models, the JavaScript objects, the
channels and the worker.

**Proof modules** (section 4) end in `Proofs`; EventDelivery's lemmas are in
`EventDeliveryGauge` and `EventDeliveryClosing`.

A definition whose name ends in an underscore and a word, such as `Recheck_Skipped`, is
a deliberately wrong variant of the definition that follows it. No specification uses it;
substituting it must break the property it is listed with in `PROJECT.json`.

## 3. What TLC checks

Instances that ask the same question are checked together: a module has a variable
`setup`, chosen in the initial state from the constant `Setups` and never changed. A setup
says how many streams, workers, slots, packets and so on there are and which optional
operations and faults happen (`ops`, `kinds`, `faults`); the `MC` modules name the setups and
say what each is for.

### Passing runs

| Run | Parts | What it shows |
|---|---|---|
| admission | OutboundAdmission | units conserved (`WindowConserved`), no wake-up lost (`NoLostWakeup`), oversized payloads only into an empty window, refinement of AdmissionWindow with its wake-up promise; only others that keep being admitted can keep a writer out (`AdmittedUnlessOvertaken`) |
| server | H3ServerWrites, ServerSessions, WasmServer | `WindowsTight`: the counter is what commands, retained payloads and releases account for. `BodyIntact`: no byte or FIN lost, FIN last, DRAIN only for a flushed stream. `WritersHaveWakers`: a parked write has something still to come that tries it again. `SessionsAgree`: NEW_SESSION and SESSION_CLOSE stay in step over reused handles, no session is forgotten. `RoutesToOwners`: connection IDs and deferred closes belong to the connection in the slot. `LoopIsArmed`: the WebAssembly loop leaves nothing it could do, its timer is not late |
| process | EventDelivery, WorkerThreads, IoUringDriver, ReadinessDrivers | `GaugeTracksBacklog`, `AppBacklogBounded`, `AppEventsNotStranded`, `NoEventAfterClose` (section 4 proves all four); `WorkersAccounted`: no thread or socket survives a failed listen, a close or a drop; `AnswersAreOwn`: a call never gets the late answer of another; `KernelAgrees`: slots, reads, buffers and write interest match the kernel's side; `DriversKeepPromise`: each driver refines Driver |
| clients | SharedClients, H3Client, WasmClient | `SessionsAreTold`: sessions of one worker are told apart and of their end; `CloseLeaves`: CONNECTION_CLOSE goes out before its session is removed; windows, bodies and wakers as above; `CreditKept`: read credit is conserved and a paused stream is remembered; `NothingLeft`: `connect()` against `close()` leaves no socket, timer or handle |
| quic | QuicServer, QuicClients | the same questions for raw QUIC, and that a retained payload is on a stream quiche will report writable |
| memory | TimerHeap, OutboundBuffers, InboundBuffers | no timer lost, exact expiry, earliest deadline; one owner per buffer; contents stay as written; `LimitsHold`: garbage in the heap, bins, classes and channels are bounded |
| server_live | H3ServerWrites, ServerSessions, QuicServer, WasmServer, EventDelivery | `DataMoves`: parked writes, ended responses and received data do not wait forever; `ClosesComplete`: every `close()` is answered |
| clients_live | QuicClients, H3Client, SharedClients, WasmClient, WorkerThreads, the drivers | `DataMoves`; `CallsAndClosesReturn`: every synchronous call, connect, close and join returns |

### Runs that end in a violation

They show where the code and a statement in the repository differ; `PROJECT.json` quotes
the statement.

| Run | What happens |
|---|---|
| admission_stranded | on x86-64 the store to `pressured` passes the re-check and a refused writer waits beside an empty window |
| writes_refused | a refused `respondWithBody` is dropped, the stream finishes as if it had been sent |
| delivery_cross | a worker paused by another binding's backlog is not woken when that backlog is acknowledged |
| sessions_reset | a RESET with the local handle hits a stream of worker 0 |

The passing runs state the properties with the restriction the violations force, where it
can be read: `AppEventsNotStranded` speaks of a process with one binding. In `BodyIntact`,
`FinMeansComplete` and `NoByteLost` speak of streams whose trailers quiche has not taken, and
`FinOwed` of setups without trailers. `FinOwed` is part of
`BodyIntact`; in `server` a whole response meets a full window only in the setup `Refused`,
where trailers are used too and `FinOwed` claims nothing.

### Other differences seen while modelling

The modules have this behaviour of the code, the properties are stated so as not to claim
the contrary, and no run is devoted to it.

- `src/worker.rs:3596`: a FIN sent alone is one unit; merged into a pending write that has
  bytes, the unit is never released. `src/outbound_admission.rs:3` bounds "bytes sitting in
  the Rust command channel or native pending writes". (`WindowTight` allows one such unit
  per stream. Once the lost units exceed the low watermark no release emits WRITE_READY any
  more; in the setups they stay at or below it.)
- `src/worker.rs:3681`: trailers go to quiche at once, with FIN, although body bytes may wait
  in a `PendingWrite`; with room freed by another stream they overtake it, and the flush of
  the rest then fails and drops it (setup `Trailers`). `lib/stream.ts:234`: "Send trailing headers after the response body is
  complete."
- `src/worker.rs:2877`: `expire_timers` polls every expired connection with the whole budget
  and never subtracts, so one tick may collect a full batch for each connection.
  `src/event_loop.rs:353` computes the budget from the room left in one batch.
  (`AppBacklogBounded` has a batch per connection.)
- `lib/event-loop.ts:609`: with several shards `close()` goes on at the first
  SHUTDOWN_COMPLETE. Lines 679-680 await it "so late TSFN events can't land on cleared
  maps". (`NoEventAfterClose` speaks of bindings with one worker.)
- `src/reactor_metrics.rs:541`: workers pause at `outstanding >= 4096`, the watchdog does
  nothing while `outstanding <= high_water`, so exactly the threshold, never acknowledged, is
  not healed. `docs/hardening-plan.md:32`: "stuck-gauge self-healing".
- `src/worker.rs:2941`: a connection announced closed in this tick is still polled; HEADERS
  left unread during a pause follow SESSION_CLOSE. (`StreamsGoWithSession` excludes pauses.)
  `docs/LIFECYCLE_VALIDATION_CHECKLIST.md:46`: the counts "converge to zero after session
  close".
- `lib/session.ts:304`: `close()` of a session whose connection has been reaped closes the
  connection accepted into its slot since; other commands that were under way reach it too.
- `src/worker.rs:3456`: Shutdown ends the loop without SESSION_CLOSE and `close()` clears the
  maps, so open sessions never emit 'close'. `lib/server.ts:483`: "closing all sessions and
  sockets".
- `src/worker.rs:1296`, `src/quic_worker.rs:887`: the last session of a shared worker joins
  it and then removes the registry's entry by key, which may by then be a newer worker's.
- A client that acquires a shared worker whose loop is about to exit gets "worker not
  running" although a fresh worker would serve it. `docs/RELEASE_EVIDENCE.md:250-253` records
  this message in a rapid-lifecycle test whose cause was left open.
- `src/shared_client_reactor.rs:32`: a runtime error is reported session by session up to
  the first whose flush fails; the sessions after it are not told. (`NoSilentLoss`
  excludes them.)
- Units that a released or removed session of a shared worker gives back wake no writer of
  the other sessions. (`WritersHaveWakers` speaks of workers with one session.)
- A synchronous call that times out is reported as failed although its command may still
  be executed: a datagram is sent, a request or stream is opened that JavaScript does not
  know.
- `src/worker.rs:2206`: "Divide max_connections across workers so the total stays correct";
  the quotient is rounded up, so the total may exceed the maximum by one per worker but one.
  (`LimitNearlyHolds` states what remains.)
- `src/transport/io_uring.rs:1443`: rearming the wake-up read while the submission ring is
  full of sends fails the call, and with it the loop. (Setup `FullRing`; the promise of
  Driver ends with a failed driver.)
- `src/worker.rs:4737`: a client connection whose first packet carries an error closes before
  it was announced, and there is no SESSION_CLOSE; likewise in the WebAssembly build for a
  `close()` before any packet, and for connections accepted while the server is closing.

### Bounds

Each bound is a constant or a field of a setup. They are small, and chosen so that the
boundary behaviour happens:

- windows smaller than the sum of two payloads (4/2 for units 1, 2 and 5 in `admission`, so
  that one payload is larger than the window; 2/1 for payloads of 1 and 2 elsewhere);
- a batch cap of 1 or 2 with the threshold at twice the cap, as in the code, and enough app
  events to pass it; two connections with a cap of 1, so that the timer phase passes the
  cap; one more command than a tick takes;
- one more connection than slots, so that a slot is reused while commands and events for
  its previous owner are under way; two or three connection IDs per connection, issued and
  retired in any order;
- two writers, two workers or two bindings where the hazard needs two, one otherwise;
- more datagrams than send slots, a byte cap below their sum, and one error of each kind in
  the drivers; every budget from none to more than there is to read in the receive paths;
- TimerHeap's compaction constants lowered (`Factor`, `Slack`) so that compaction happens with
  two connections; three buffers and three holders in the pools.

Counters that the code leaves unbounded (bytes written, credit, packets, sessions accepted)
are bounded by the guards of the actions that raise them. The largest runs have about
a million distinct states. `memory` uses the symmetry of buffers and of holders; both are sets
of model values that no definition tells apart.

### Fairness

- Threads inside a call keep running, and the Node event loop dispatches queued events:
  weak fairness of every worker's or loop's step and of the dispatch, of timers that are
  due in the WebAssembly loops, and of the kernel's handling of what was submitted.
- Strong fairness for taking a command, since each tick drains the channel, and for the
  peer's credit: liveness is claimed for a peer that keeps reading.
- Strong fairness for the end of a draining period and for a deferred close in
  ServerSessions and QuicServer, which stay due until a tick handles them, because a tick
  passes through the timer phase again and again; and for the next poll of the io_uring
  driver, which the event loop enters again and again.
- EventDelivery assumes nothing about timers: a worker blocked in its driver returns for a
  wake-up, a packet or `poll_now` only. Both Linux drivers wait for the deadline they are
  given, which for an idle connection is its idle timeout.
- WorkerThreads assumes nothing about the time limit of a call: it returns because the
  worker answers or drops the sender.

Deadlock is checked in `admission`, `server`, `process`, `memory` and `server_live`; where a
part ends on purpose (all bindings closed, all workers stopped) a stuttering step says so. In
`quic`, `clients` and `clients_live` a session that is closed, or has used up its bounded bytes
and packets, has no step left, so those configurations do not check it.

## 4. What is proved

All theorems hold for every value of the constants that satisfies the named assumptions:
any number of writers, workers, bindings, slots, connections, buffers, any watermarks, batch
size, thresholds and classes. They speak of the same modules that the runs check.

**OutboundAdmissionProofs** (assumptions `WatermarkAssumption`, `UnitsAssumption`). Two
inductive invariants. `Counted`, which is `TypeOK /\ WindowConserved /\ ExchangeApproved`,
survives the store buffer, so what rests on it is proved of `BufferedSpec` and holds on
either memory. `IInv` adds `PressurePublished` and holds on a sequentially consistent memory
only.

- `Conservation`: `queued` equals what the worker holds. The release's compare-exchange is
  exact because a release never exceeds what is held, so `release_next` does not saturate.
- `Wakeup`, of `SafeSpec`: a refused writer has its event coming, or the flag is up and a
  release is still owed. Not inductive by itself: between publishing its pressure and
  looking again a writer is not yet refused, and `PressurePublished` says that its flag is up
  or has become an event by then.
- `OversizedAlone`: the exchange installs only sums that `admit_next` approved for the value
  it replaces (`ExchangeApproved`), so the window is exceeded only from empty.
- `Refinement`: every step maps to a step of AdmissionWindow or a stutter. `TypeCorrect`.

**EventDeliveryGauge, EventDeliveryClosing, EventDeliveryProofs** (assumption
`DeliveryAssumption`). The inductive invariant is `Part /\ RestType /\ ClosingInv /\ StrandInv`.

- `GaugeAlways`: the gauge is exactly the events handed to JavaScript and not acknowledged,
  with those of torn-down environments, until the watchdog resets it, and at most those
  ever after.
- `BacklogAlways`: app events that JavaScript has not seen are fewer than the threshold plus
  one batch per connection of every worker. The bound is about workers that all read the
  gauge before any of them counts; it needs, place by place of `run_event_loop`, what a
  worker may hold (`Fits` in `CoreInv`): a worker collects app events only below the
  threshold, and the poll within the cap, the timers within the cap for each connection
  (`ExpireFacts`, `CollectFacts`).
- `NotStrandedAlways`: with one binding, no worker blocks in its driver with app events it
  may deliver and nothing to come that wakes it. `StrandInv` says when the duty begins: from
  the end of `poll_app_events` on, a worker that left events behind has a signal, or some
  event is under way whose acknowledgement will be one. The gauge being exact
  (`SomethingWaits`) is what provides that event.
- `AfterCloseAlways`: the sentinel is the last batch of a binding with one worker and the
  worker has stopped by then (`ClosingInv`), so cleared maps meet no event.
- `DeliveryTypes`.

The counts are cardinalities of disjoint unions over workers, queues and places in a
batch. `SpreadChange` says that replacing the set of one index changes the count by the
difference of the two; every step is then an exchange of one set. What this needs of finite
sets is one hypothesis, `Counting`, discharged by `FiniteSetsCount` from the library's theorems.

**ServerSessionsProofs** (hypothesis `Constants`: every setup is one).

- `RoutesAlways`: a connection ID that routes a packet leads to the connection that issued
  it, through every reuse of the slot.
- `SlabAlways`: the free list holds exactly the vacant slots, each once.

The two are proved together (`MapInv`): that a new connection meets no old route rests on its
slot being vacant, which rests on the free list, and that the list is not empty rests on
the limit being no larger than the slab. The reap puts a whole set of slots on the list;
that a finite set of numbers can be listed in order, and what its reversal and
concatenation list, is shown by taking a smallest counterexample among the subsets of a
finite set (`Smallest`).

**WorkerThreadsProofs** (hypothesis `Constants`). The inductive invariant is
`Types /\ FleetInv /\ AnswersInv`.

- `NoOrphansAlways`: a listen that failed at any worker, a close or a drop that returned
  leave no thread and no socket. `FleetInv` says phase by phase which workers have a thread:
  those started are the first ones, and the join has passed those below it.
- `AnswersOwnAlways`: a call returns the answer to its own command, from the worker and slot
  its handle names, whatever timed out before. `AnswersInv` follows the number of a call
  through channel, worker and reply.
- `AnswersTrueAlways`: a datagram or PING reported as sent was taken by quiche; one refused
  because the worker is gone is queued nowhere and never will be.

**OutboundBuffersProofs** (hypothesis `Constants`). The inductive invariant is
`Types /\ Apart /\ Intact`: an allocation is in one bin, in the return channel or behind
handles, element by element, and windows lie within their allocation.

- `OneOwnerAlways` and `ContentIntactAlways`: memory that a `Chunk` or `ArcBuf` still reads is
  never lent again, and no header written in place changes what another handle reads.
- `FiledCoversClass`, `RequestFitsClass`, `SearchedBinFits`: for every ascending table, a buffer
  found in a bin that a request searches is large enough.

**TimerHeapProofs** (the assumptions of TimerHeap). The inductive invariant adds
`PopProgress`, what a running `pop_expired` has collected and has still to find.

- `TimersKept`, `PopCorrect`, `NextCorrect`, `TimerTypeCorrect`: the current deadline of every
  connection is in the heap, also after compaction; `pop_expired` returns exactly the
  connections whose deadline has passed; `next_deadline` returns the earliest.

### What stays with TLC

- All liveness, AdmissionWindow's wake-up promise included: fairness and `ENABLED` are beyond
  the prover's backends.
- H3ServerWrites, the clients, raw QUIC, InboundBuffers, the drivers and the WebAssembly
  modules. Most of them fold over sequences or use recursion on data, and an induction over
  data is out of reach: the library's induction theorems take an operator as parameter.
  (The inductions above go over subsets of a finite set, which needs none.)
- `StaleBounded`, a count over a bag; `LimitNearlyHolds`, a sum over the workers; the events of
  ServerSessions, whose queue properties compare subsequences.

## 5. What is not modelled

- quiche, BoringSSL, the kernel and the N-API runtime are external. They appear as the
  choices they may make.
- Contents of headers, bodies and packets; congestion control and loss, which quiche hides;
  metrics and logs except the gauge that pauses the workers.
- Path migration, 0-RTT, `requestAsync`'s retries, and trailers and datagrams of the HTTP/3
  client; `trailer_fin_streams`.
- The bytes of retry tokens and connection IDs: QuicServer takes a token as valid for the
  connection ID it was issued for.
- `BufferPool` and the chunk pools a worker uses for its own copies, which one thread owns;
  `ArcBuf::into_vec`; how many bytes a read writes into its buffer.
- Opening sockets and rings, message headers and kernel structure layouts.
- In the WebAssembly build: trailers, `respond` with `endStream`, datagrams, ping, metrics, and
  the copying of memory.
- Configuration, TLS options, tools, adapters and profiling, which have no concurrent state of
  their own.
