--------------------------- MODULE EventDelivery ---------------------------
(***************************************************************************)
(* How worker threads deliver events to JavaScript, and how they stop.     *)
(* Each worker runs run_event_loop (src/event_loop.rs): it collects events *)
(* in an EventBatcher and hands the batch to a ThreadsafeFunction; the     *)
(* JavaScript callback dispatches the batch and acknowledges it.  One      *)
(* process-wide gauge (src/reactor_metrics.rs) counts the events that are  *)
(* not acknowledged; at HighWater the workers stop producing stream and    *)
(* datagram events.  close() sends Shutdown to every worker of a binding   *)
(* (a server with one or more SO_REUSEPORT shards, or a client) and waits  *)
(* for the SHUTDOWN_COMPLETE sentinel.                                     *)
(*                                                                         *)
(* The protocol handler (H3ServerHandler or H3ClientHandler) is abstracted *)
(* to what it emits: "app" events are the ones an app_event_budget limits, *)
(* "ctl" events (session, drain, write-ready, error) are not limited.      *)
(***************************************************************************)
EXTENDS Naturals, Sequences, FiniteSets

CONSTANTS
    MaxCommands, \* MAX_COMMANDS_PER_TICK
    Setups       \* processes, what may happen in them, and bounds: see Setup

AllFaults == {"driver", "sink", "timeout", "teardown", "done", "slow"}

\* bindings: the native servers and clients, each the set of its workers;  batch:
\* MAX_BATCH_SIZE;  conns: the most connections a worker has;  app, ctl, sends: bounds
\* on the app events the peers of a worker cause, on its control events, and on the
\* ordinary commands sent to it;  faults: the ones that may happen.
Setup(u) ==
    /\ IsFiniteSet(u.bindings) /\ \A b \in u.bindings : IsFiniteSet(b)
    /\ \A b, c \in u.bindings : b # c => b \cap c = {}
    /\ {} \notin u.bindings
    /\ u.batch \in Nat \ {0} /\ u.conns \in Nat \ {0}
    /\ u.app \in Nat /\ u.ctl \in Nat /\ u.sends \in Nat
    /\ u.faults \subseteq AllFaults

\* All bindings and workers of any setup; a behaviour uses those of its own.
Bindings == {x : x \in UNION {u.bindings : u \in Setups}}
Workers == {w : w \in UNION Bindings}

ASSUME DeliveryAssumption ==
    MaxCommands \in Nat \ {0} /\ IsFiniteSet(Setups) /\ \A u \in Setups : Setup(u)

VARIABLES
    setup,       \* fixed at the start
    (* process-wide, src/reactor_metrics.rs *)
    outstanding, \* EVENT_BATCH_OUTSTANDING
    stale,       \* no flush, ack or drop for stuck_after_ms
    (* worker thread *)
    pc,          \* where the worker is in run_event_loop
    cmds,        \* its command channel
    drained,     \* commands_drained
    pollNow,     \* poll_now
    wake,        \* its waker was signalled
    packets,     \* the socket has datagrams
    ready,       \* app events buffered in its quiche connections
    batch,       \* EventBatcher.batch
    taken,       \* batch that flush() has counted and is handing over
    after,       \* where the worker goes once taken is handed over
    (* JavaScript side of a binding *)
    queue,       \* ThreadsafeFunction queue: batches, each from one worker
    js,          \* "running", "closing", "joining", "joined", "closed"; "dead"
                 \* when the environment was torn down
    sentinel,    \* _shutdownObserved
    (* bounds and ghosts *)
    left,        \* [app, ctl, cmd]: what may still happen to a worker
    healed,      \* the gauge was reset by self_heal_event_batch_if_stuck
    lost         \* events that died in the queue of a torn-down environment

gauge == <<outstanding, stale, healed>>
worker == <<pc, cmds, drained, pollNow, wake, packets, ready, batch, taken, after>>
script == <<setup, queue, js, sentinel, lost>>
vars == <<gauge, worker, script, left>>

Present == UNION setup.bindings
Owner(w) == CHOOSE b \in setup.bindings : w \in b
MaxBatch == setup.batch
Conns == setup.conns
HighWater == 2 * MaxBatch   \* APP_EVENT_PAUSE_HIGH_WATER
TimerBatch == MaxBatch * Conns   \* a batch for each connection
Faults == setup.faults

Kinds == {"app", "ctl", "shutdown"}

Copies(kind, n) == [i \in 1..n |-> kind]
Minus(a, b) == IF a > b THEN a - b ELSE 0
Lesser(a, b) == IF a < b THEN a ELSE b

\* The disjoint union of a family of sets; where the events of some kinds are in a
\* batch, and in a queue of batches.
Spread(F) == UNION {{x} \X F[x] : x \in DOMAIN F}
Places(events, kinds) == {i \in DOMAIN events : events[i] \in kinds}
Queued(q, kinds) == Spread([j \in DOMAIN q |-> Places(q[j].events, kinds)])

Init ==
    /\ setup \in Setups
    /\ outstanding = 0 /\ stale = FALSE /\ healed = FALSE /\ lost = 0
    /\ pc = [w \in Workers |-> IF w \in Present THEN "top" ELSE "stopped"]
    /\ cmds = [w \in Workers |-> <<>>]
    /\ drained = [w \in Workers |-> 0]
    /\ pollNow = [w \in Workers |-> FALSE]
    /\ wake = [w \in Workers |-> FALSE]
    /\ packets = [w \in Workers |-> FALSE]
    /\ ready = [w \in Workers |-> 0]
    /\ batch = [w \in Workers |-> <<>>]
    /\ taken = [w \in Workers |-> <<>>]
    /\ after = [w \in Workers |-> "top"]
    /\ queue = [b \in Bindings |-> <<>>]
    /\ js = [b \in Bindings |-> IF b \in setup.bindings THEN "running" ELSE "closed"]
    /\ sentinel = [b \in Bindings |-> FALSE]
    /\ left = [w \in Workers |-> [app |-> setup.app, ctl |-> setup.ctl, cmd |-> setup.sends]]

-----------------------------------------------------------------------------
(* The gauge. *)

record_event_batch_flush(n) == outstanding' = outstanding + n /\ stale' = FALSE

\* Mutant: an ack does not lower the gauge.
release_event_batch_outstanding_Kept(n) == outstanding' = outstanding /\ stale' = FALSE

\* record_event_batch_drop and record_event_batch_ack
release_event_batch_outstanding(n) ==
    outstanding' = Minus(outstanding, n) /\ stale' = FALSE

\* Five seconds without a flush, an ack or a drop, where JavaScript can be that slow.
\* Only a flush raises the gauge and it restarts the clock, so the time below the
\* threshold never matters.
ClockPasses ==
    /\ "slow" \in Faults /\ ~stale /\ outstanding >= HighWater /\ stale' = TRUE
    /\ UNCHANGED <<outstanding, healed, worker, script, left>>

\* Mutant: the gauge does not pause the worker.
app_event_budget_NoPause(w) == Minus(MaxBatch, Len(batch[w]))

app_event_budget(w) ==
    IF outstanding >= HighWater THEN 0 ELSE Minus(MaxBatch, Len(batch[w]))

-----------------------------------------------------------------------------
(* EventBatcher. *)

Goto(w, label) == pc' = [pc EXCEPT ![w] = label]

\* EventBatcher::flush up to the sink: the events are swapped out and counted.
\* rest is what the batch holds afterwards.
Flush(w, events, rest, next) ==
    /\ taken' = [taken EXCEPT ![w] = events]
    /\ batch' = [batch EXCEPT ![w] = rest]
    /\ after' = [after EXCEPT ![w] = next]
    /\ record_event_batch_flush(Len(events))
    /\ Goto(w, "emit")

\* append_atomic: a group that would cross the cap waits for a flush, so that
\* it is not split over two deliveries.
append_atomic(w, group, next) ==
    IF group # <<>> /\ batch[w] # <<>> /\ Len(batch[w]) + Len(group) > MaxBatch
    THEN Flush(w, batch[w], group, next)
    ELSE /\ batch' = [batch EXCEPT ![w] = @ \o group]
         /\ Goto(w, next) /\ UNCHANGED <<taken, after, outstanding, stale>>

\* TsfnEventSink::emit.  Status Closing drops the batch and stops the loop: at
\* once while it collects, with a last (dropped) sentinel after the flush of
\* the loop's end or of an exit path.
Emit(w) ==
    /\ pc[w] = "emit"
    /\ taken' = [taken EXCEPT ![w] = <<>>]
    /\ IF js[Owner(w)] # "dead"
       THEN /\ queue' = [queue EXCEPT ![Owner(w)] = Append(@, [from |-> w, events |-> taken[w]])]
            /\ Goto(w, after[w])
            /\ UNCHANGED <<outstanding, stale>>
       ELSE /\ release_event_batch_outstanding(Len(taken[w]))
            /\ Goto(w, IF after[w] \in {"top", "sentinel"} THEN "sentinel" ELSE "stopped")
            /\ UNCHANGED queue
    /\ UNCHANGED <<cmds, drained, pollNow, wake, packets, ready, batch, after,
                   js, sentinel, setup, lost, left, healed>>

\* Any other failure of the call drops the batch and goes on.
EmitFails(w) ==
    /\ "sink" \in Faults /\ pc[w] = "emit"
    /\ taken' = [taken EXCEPT ![w] = <<>>]
    /\ release_event_batch_outstanding(Len(taken[w]))
    /\ Goto(w, after[w])
    /\ UNCHANGED <<cmds, drained, pollNow, wake, packets, ready, batch, after,
                   script, left, healed>>

-----------------------------------------------------------------------------
(* run_event_loop. *)

\* self_heal_event_batch_if_stuck; at the threshold itself the workers pause but
\* nothing is reset.
SelfHeal ==
    IF outstanding > HighWater /\ stale
    THEN outstanding' = 0 /\ stale' = FALSE /\ healed' = TRUE
    ELSE UNCHANGED gauge

\* poll_with_event_backpressure looks at the gauge, then blocks in the driver.
EnterPoll(w) ==
    /\ pc[w] = "top" /\ SelfHeal /\ Goto(w, "poll")
    /\ UNCHANGED <<cmds, drained, pollNow, wake, packets, ready, batch, taken, after,
                   script, left>>

PollReturns(w) ==
    /\ pc[w] = "poll" /\ Goto(w, "commands")
    /\ wake' = [wake EXCEPT ![w] = FALSE]
    /\ pollNow' = [pollNow EXCEPT ![w] = FALSE]
    /\ drained' = [drained EXCEPT ![w] = 0]
    /\ UNCHANGED <<gauge, cmds, packets, ready, batch, taken, after, script, left>>

Woken(w) == (wake[w] \/ packets[w] \/ pollNow[w]) /\ PollReturns(w)
TimerFires(w) == ~(wake[w] \/ packets[w] \/ pollNow[w]) /\ PollReturns(w)

\* What the handler emits besides app events in one call.
ControlGroup(w, n) ==
    /\ n <= left[w].ctl
    /\ left' = [left EXCEPT ![w].ctl = @ - n]

DispatchCommand(w) ==
    /\ pc[w] = "commands" /\ cmds[w] # <<>> /\ drained[w] < MaxCommands
    /\ drained' = [drained EXCEPT ![w] = @ + 1]
    /\ cmds' = [cmds EXCEPT ![w] = Tail(@)]
    /\ IF Head(cmds[w]) = "shutdown"
       THEN /\ IF batch[w] = <<>>
               THEN Goto(w, "sentinel") /\ UNCHANGED <<batch, taken, after, outstanding, stale>>
               ELSE Flush(w, batch[w], <<>>, "sentinel")
            /\ UNCHANGED left
       ELSE \E n \in 0..1 :
            ControlGroup(w, n) /\ append_atomic(w, Copies("ctl", n), "commands")
    /\ UNCHANGED <<pollNow, wake, packets, ready, script, healed>>

\* The received datagrams go through process_packet with an app budget of 0:
\* stream data stays in quiche, control events are emitted.
ProcessPackets(w) ==
    /\ pc[w] = "commands" /\ (cmds[w] = <<>> \/ drained[w] = MaxCommands)
    /\ pollNow' = [pollNow EXCEPT ![w] = drained[w] = MaxCommands /\ cmds[w] # <<>>]
    /\ packets' = [packets EXCEPT ![w] = FALSE]
    /\ \E k \in (IF packets[w] THEN 0..left[w].app ELSE {0}),
          n \in (IF packets[w] THEN 0..Lesser(1, left[w].ctl) ELSE {0}) :
         /\ ready' = [ready EXCEPT ![w] = @ + k]
         /\ left' = [left EXCEPT ![w] = [app |-> @.app - k, ctl |-> @.ctl - n, cmd |-> @.cmd]]
         /\ append_atomic(w, Copies("ctl", n), "timers")
    /\ UNCHANGED <<cmds, drained, wake, script, healed>>

\* How many app events expire_timers may find: each connection whose timer expired is
\* polled with the whole budget, whatever the ones before it used.
expire_timers(w) == 0..Lesser(Conns * app_event_budget(w), ready[w])

ProcessTimers(w) ==
    /\ pc[w] = "timers"
    /\ \E k \in expire_timers(w), n \in 0..1 :
         /\ ControlGroup(w, n)
         /\ ready' = [ready EXCEPT ![w] = @ - k]
         /\ append_atomic(w, Copies("app", k) \o Copies("ctl", n), "app")
    /\ UNCHANGED <<cmds, drained, pollNow, wake, packets, script, healed>>

\* How many app events collect_app_events finds: it polls the connections one after the
\* other until the budget is used up, by their app events and by the m control events
\* (drains, ping acks) of those that are not the last.
collect_app_events(w, m) == Lesser(Minus(app_event_budget(w), m), ready[w])

PollAppEvents(w) ==
    /\ pc[w] = "app"
    /\ \E n \in (IF app_event_budget(w) = 0 THEN {0} ELSE 0..1) :
       \E m \in 0..Lesser(n, Conns - 1) :
         LET k == collect_app_events(w, m)
         IN /\ ControlGroup(w, n)
            /\ ready' = [ready EXCEPT ![w] = @ - k]
            /\ append_atomic(w, Copies("app", k) \o Copies("ctl", n), "drains")
    /\ UNCHANGED <<cmds, drained, pollNow, wake, packets, script, healed>>

\* poll_drain_events and flush_pending_writes; the sends that follow may fail.
DrainsAndWrites(w) ==
    /\ pc[w] = "drains"
    /\ \E n \in 0..1 :
         ControlGroup(w, n) /\ append_atomic(w, Copies("ctl", n), "cleanup")
    /\ UNCHANGED <<cmds, drained, pollNow, wake, packets, ready, script, healed>>

\* The flush at the cap, then cleanup_closed.
CleanupClosed(w) ==
    /\ pc[w] = "cleanup"
    /\ IF Len(batch[w]) >= MaxBatch
       THEN Flush(w, batch[w], <<>>, "cleanup") /\ UNCHANGED left
       ELSE \E n \in 0..1 :
            ControlGroup(w, n) /\ append_atomic(w, Copies("ctl", n), "deliver")
    /\ UNCHANGED <<cmds, drained, pollNow, wake, packets, ready, script, healed>>

\* The flush at the end of the loop; a client whose session is closed leaves
\* (is_done), everyone else goes round.
Deliver(w) ==
    /\ pc[w] = "deliver"
    /\ \E next \in {"top"} \cup (IF "done" \in Faults THEN {"sentinel"} ELSE {}) :
         IF batch[w] = <<>>
         THEN Goto(w, next) /\ UNCHANGED <<batch, taken, after, outstanding, stale>>
         ELSE Flush(w, batch[w], <<>>, next)
    /\ UNCHANGED <<cmds, drained, pollNow, wake, packets, ready, script, left, healed>>

\* flush_runtime_error, after a failed poll or submit_sends: the closes of the
\* sessions and the runtime error, then the sentinel.
RuntimeError(w) ==
    /\ "driver" \in Faults /\ pc[w] \in {"poll", "commands", "timers", "cleanup"}
    /\ Flush(w, Append(batch[w], "ctl"), <<>>, "sentinel")
    /\ UNCHANGED <<cmds, drained, pollNow, wake, packets, ready, script, left, healed>>

\* push_shutdown_complete and the last flush.
PushShutdownComplete(w) ==
    /\ pc[w] = "sentinel"
    /\ Flush(w, <<"shutdown">>, <<>>, "stopped")
    /\ UNCHANGED <<cmds, drained, pollNow, wake, packets, ready, script, left, healed>>

WorkerStep(w) ==
    \/ Emit(w) \/ EnterPoll(w) \/ Woken(w) \/ DispatchCommand(w)
    \/ ProcessPackets(w) \/ ProcessTimers(w) \/ PollAppEvents(w)
    \/ DrainsAndWrites(w) \/ CleanupClosed(w) \/ Deliver(w)
    \/ PushShutdownComplete(w)

-----------------------------------------------------------------------------
(* JavaScript. *)

WakeAll(b) == wake' = [w \in Workers |-> wake[w] \/ w \in b]

SendToAll(b, cmd) ==
    cmds' = [w \in Workers |-> IF w \in b /\ pc[w] # "stopped" THEN Append(cmds[w], cmd) ELSE cmds[w]]

\* Mutant: the ack wakes nobody.
Dispatch_AckNoWake(b) ==
    /\ queue[b] # <<>> /\ js[b] \notin {"joining", "dead"}
    /\ queue' = [queue EXCEPT ![b] = Tail(@)]
    /\ sentinel' = [sentinel EXCEPT ![b] = @ \/ Places(Head(queue[b]).events, {"shutdown"}) # {}]
    /\ release_event_batch_outstanding(Len(Head(queue[b]).events))
    /\ UNCHANGED <<pc, cmds, drained, pollNow, wake, packets, ready, batch, taken, after,
                   js, setup, lost, left, healed>>

\* The callback given to the native binding: dispatch, note the sentinel, and
\* in any case ack the batch, which wakes the workers while they have a handle.
Dispatch(b) ==
    /\ queue[b] # <<>> /\ js[b] \notin {"joining", "dead"}
    /\ queue' = [queue EXCEPT ![b] = Tail(@)]
    /\ sentinel' = [sentinel EXCEPT ![b] = @ \/ Places(Head(queue[b]).events, {"shutdown"}) # {}]
    /\ release_event_batch_outstanding(Len(Head(queue[b]).events))
    /\ IF js[b] \in {"running", "closing"} THEN WakeAll(b) ELSE UNCHANGED wake
    /\ UNCHANGED <<pc, cmds, drained, pollNow, packets, ready, batch, taken, after,
                   js, setup, lost, left, healed>>

\* Any call that sends a command to the worker of its connection.
SendCommand(w) ==
    /\ pc[w] # "stopped" /\ left[w].cmd > 0 /\ js[Owner(w)] \in {"running", "closing"}
    /\ left' = [left EXCEPT ![w].cmd = @ - 1]
    /\ cmds' = [cmds EXCEPT ![w] = Append(@, "cmd")]
    /\ wake' = [wake EXCEPT ![w] = TRUE]
    /\ UNCHANGED <<gauge, pc, drained, pollNow, packets, ready, batch, taken, after, script>>

\* close(): requestShutdown, then wait for the sentinel ...
Close(b) ==
    /\ js[b] = "running"
    /\ js' = [js EXCEPT ![b] = "closing"]
    /\ SendToAll(b, "shutdown") /\ WakeAll(b)
    /\ UNCHANGED <<gauge, pc, drained, pollNow, packets, ready, batch, taken, after,
                   queue, sentinel, setup, lost, left>>

\* Mutant: close() does not wait for the sentinel.
AwaitShutdown_NotAwaited(b) == js[b] = "closing"

\* waitForShutdownOrTimeout
AwaitShutdown(b) == js[b] = "closing" /\ (sentinel[b] \/ "timeout" \in Faults)

\* ... joinWorker blocks the JavaScript thread until every worker has ended ...
StartJoin(b) ==
    /\ AwaitShutdown(b)
    /\ js' = [js EXCEPT ![b] = "joining"]
    /\ UNCHANGED <<gauge, worker, queue, sentinel, setup, lost, left>>

JoinWorker(b) ==
    /\ js[b] = "joining" /\ \A w \in b : pc[w] = "stopped"
    /\ js' = [js EXCEPT ![b] = "joined"]
    /\ UNCHANGED <<gauge, worker, queue, sentinel, setup, lost, left>>

\* ... and after the HTTP/2 server has closed too, the maps are cleared.
ClearMaps(b) ==
    /\ js[b] = "joined"
    /\ js' = [js EXCEPT ![b] = "closed"]
    /\ UNCHANGED <<gauge, worker, queue, sentinel, setup, lost, left>>

\* The JavaScript environment ends: queued calls are discarded, and dropping
\* the handle asks the workers to stop.
Teardown(b) ==
    /\ "teardown" \in Faults /\ js[b] = "running"
    /\ js' = [js EXCEPT ![b] = "dead"]
    /\ lost' = lost + Cardinality(Queued(queue[b], Kinds))
    /\ queue' = [queue EXCEPT ![b] = <<>>]
    /\ SendToAll(b, "shutdown") /\ WakeAll(b)
    /\ UNCHANGED <<gauge, pc, drained, pollNow, packets, ready, batch, taken, after,
                   setup, sentinel, left>>

PacketArrives(w) ==
    /\ ~packets[w] /\ pc[w] # "stopped" /\ (left[w].app > 0 \/ left[w].ctl > 0)
    /\ packets' = [packets EXCEPT ![w] = TRUE]
    /\ UNCHANGED <<gauge, pc, cmds, drained, pollNow, wake, ready, batch, taken, after, script, left>>

ScriptStep(b) == Dispatch(b) \/ StartJoin(b) \/ JoinWorker(b) \/ ClearMaps(b)

Terminated == \A b \in Bindings : js[b] \in {"closed", "dead"} /\ queue[b] = <<>>
                                  /\ \A w \in b : pc[w] = "stopped"

Next ==
    \/ ClockPasses
    \/ \E w \in Workers : WorkerStep(w) \/ TimerFires(w) \/ EmitFails(w) \/ RuntimeError(w)
                          \/ SendCommand(w) \/ PacketArrives(w)
    \/ \E b \in Bindings : ScriptStep(b) \/ Close(b) \/ Teardown(b)
    \/ Terminated /\ UNCHANGED vars

\* The threads run, and the JavaScript thread gets round to its queue.  A timer
\* of quiche's need not fire soon, so nothing may depend on it.
Fairness ==
    /\ \A w \in Workers : WF_vars(WorkerStep(w))
    /\ \A b \in Bindings : WF_vars(ScriptStep(b))

SafeSpec == Init /\ [][Next]_vars
Spec == SafeSpec /\ Fairness

-----------------------------------------------------------------------------
(* Properties. *)

Labels == {"top", "poll", "commands", "timers", "app", "drains", "cleanup",
           "deliver", "emit", "sentinel", "stopped"}

\* Every field of the workers, of the queues and of the gauge keeps its type.
TypeOK ==
    /\ setup \in Setups
    /\ outstanding \in Nat /\ stale \in BOOLEAN /\ healed \in BOOLEAN /\ lost \in Nat
    /\ pc \in [Workers -> Labels] /\ after \in [Workers -> Labels]
    /\ cmds \in [Workers -> Seq({"cmd", "shutdown"})]
    /\ drained \in [Workers -> 0..MaxCommands]
    /\ pollNow \in [Workers -> BOOLEAN] /\ wake \in [Workers -> BOOLEAN]
    /\ packets \in [Workers -> BOOLEAN] /\ ready \in [Workers -> Nat]
    /\ batch \in [Workers -> Seq(Kinds)] /\ taken \in [Workers -> Seq(Kinds)]
    /\ queue \in [Bindings -> Seq([from : Workers, events : Seq(Kinds)])]
    /\ js \in [Bindings -> {"running", "closing", "joining", "joined", "closed", "dead"}]
    /\ sentinel \in [Bindings -> BOOLEAN]
    /\ left \in [Workers -> [app : 0..setup.app, ctl : 0..setup.ctl, cmd : 0..setup.sends]]

\* The events of some kinds that were handed over and not acknowledged, and those
\* that are still collected.
Backlog(kinds) ==
    Cardinality(Spread([w \in Workers |-> Places(taken[w], kinds)]))
    + Cardinality(Spread([b \in Bindings |-> Queued(queue[b], kinds)]))
Collected(kinds) == Cardinality(Spread([w \in Workers |-> Places(batch[w], kinds)]))

\* The gauge counts the events on their way to JavaScript or in its hands, and
\* those a torn-down environment never acknowledged; never more, and less only
\* once the watchdog has reset it.
GaugeTracksBacklog ==
    LET backlog == Backlog(Kinds) + lost
    IN outstanding <= backlog /\ (~healed => outstanding = backlog)

\* The pause bounds what JavaScript can fall behind: stream and datagram events
\* pile up to just below the threshold plus, for every worker, one batch for each of
\* its connections, however the workers' looks at the gauge and their flushes
\* interleave.  (It is one for each connection because expire_timers does not subtract
\* from the budget what it has found already.)
AppBacklogBounded ==
    ~healed => Backlog({"app"}) + Collected({"app"})
               <= HighWater - 1 + TimerBatch * Cardinality(Present)

\* "A JS ack wakes the driver; this pass keeps already-received stream data from
\* waiting for an unrelated packet or idle timeout" (event_loop.rs): a worker
\* does not block with app events at hand while the gauge is below the threshold,
\* unless a signal is pending or an ack of its own binding is still to come.
NothingStranded ==
    \A w \in Workers :
        /\ pc[w] = "poll" /\ ready[w] > 0 /\ outstanding < HighWater
        /\ js[Owner(w)] \in {"running", "closing"}
        => \/ wake[w] \/ packets[w] \/ pollNow[w]
           \/ queue[Owner(w)] # <<>>
           \/ \E v \in Owner(w) : taken[v] # <<>>

\* NothingStranded for a process with one server or client, whose acks are the only
\* ones, while no call into JavaScript fails (a failed one is not followed by an ack).
AppEventsNotStranded ==
    Cardinality(setup.bindings) = 1 /\ "sink" \notin Faults => NothingStranded

\* "Await the SHUTDOWN_COMPLETE sentinel before joinWorker so late TSFN events
\* can't land on cleared maps" (event-loop.ts): after close() of a binding with one
\* worker has cleared its maps, without running into its timeout, nothing is still to
\* be dispatched.
NoEventAfterClose ==
    "timeout" \notin Faults =>
        \A b \in Bindings : js[b] = "closed" /\ Cardinality(b) = 1 => queue[b] = <<>>

\* Received stream data reaches JavaScript without the help of a timer, and close()
\* finishes, though joinWorker blocks the thread that dispatches: these must not last.
EventsWait == \E w \in Workers : ready[w] > 0 /\ pc[w] # "stopped"
CloseWaits == \E b \in Bindings : js[b] \in {"closing", "joining", "joined"}
=============================================================================
