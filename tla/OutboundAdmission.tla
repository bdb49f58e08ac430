------------------------- MODULE OutboundAdmission -------------------------
(***************************************************************************)
(* src/outbound_admission.rs: the write window shared by the JavaScript    *)
(* threads, which call try_admit before they queue a payload, and the      *)
(* worker thread, which calls release when quiche accepts the payload or   *)
(* the worker drops it.  Every load, store, compare_exchange and swap is a *)
(* step of its own, so every interleaving of the operations is explored.   *)
(*                                                                         *)
(* There are two memory models.  Next is sequentially consistent.          *)
(* BufferedNext adds what Ordering::Release/Acquire compile to on x86-64:  *)
(* the plain store to `pressured' may wait in the core's store buffer      *)
(* while the following load of `queued' already runs; the next locked      *)
(* instruction of that thread empties the buffer.                          *)
(***************************************************************************)
EXTENDS AdmissionCore

CONSTANTS Writers,       \* streams whose payloads share one worker's window
          Units          \* payload sizes (zero-unit calls return at once)

ASSUME UnitsAssumption == Units \subseteq Nat \ {0}

VARIABLES
    queued,     \* AtomicUsize
    pressured,  \* AtomicBool: some writer saw the window closed
    pc,         \* per writer: the next step of its try_admit call
    want,       \* per writer: units of the call (0 outside one)
    seen,       \* per writer: `current', the value try_admit loaded (0 when dead)
    buffered,   \* per writer: its store of pressured = true is not yet visible
    ready,      \* writers with a WRITE_READY event on its way to them
    held,       \* units of the payloads the worker owns and must still release
    wpc,        \* the next step of the worker's release call
    give,       \* units of the release call
    wseen       \* `current' in release

writerVars == <<pc, want, seen, buffered>>
workerVars == <<wpc, give, wseen>>
vars == <<queued, pressured, writerVars, ready, held, workerVars>>

WriterPC == {"idle", "load", "cas", "press", "recheck", "count", "waiting"}
WorkerPC == {"idle", "load", "cas", "swap"}

Init ==
    /\ queued = 0
    /\ pressured = FALSE
    /\ pc = [w \in Writers |-> "idle"]
    /\ want = [w \in Writers |-> 0]
    /\ seen = [w \in Writers |-> 0]
    /\ buffered = [w \in Writers |-> FALSE]
    /\ ready = {}
    /\ held = 0
    /\ wpc = "idle"
    /\ give = 0
    /\ wseen = 0

-----------------------------------------------------------------------------
(* try_admit, on a JavaScript thread. *)

BeginAdmit(w, u) ==
    /\ pc[w] = "idle"
    /\ pc' = [pc EXCEPT ![w] = "load"]
    /\ want' = [want EXCEPT ![w] = u]
    /\ UNCHANGED <<queued, pressured, seen, buffered, ready, held, workerVars>>

\* let current = self.queued.load(Acquire); match admit_next(...)
LoadQueued(w) ==
    /\ pc[w] = "load"
    /\ \/ /\ admit_next(queued, want[w])
          /\ seen' = [seen EXCEPT ![w] = queued]
          /\ pc' = [pc EXCEPT ![w] = "cas"]
       \/ /\ ~admit_next(queued, want[w])
          /\ pc' = [pc EXCEPT ![w] = "press"]
          /\ UNCHANGED seen
    /\ UNCHANGED <<queued, pressured, want, buffered, ready, held, workerVars>>

\* Mutant: a store in place of the compare_exchange.
AdmitExchange_Store(w) ==
    /\ pc[w] = "cas"
    /\ ~buffered[w]
    /\ queued' = seen[w] + want[w]
    /\ held' = held + want[w]
    /\ pc' = [pc EXCEPT ![w] = "idle"]
    /\ want' = [want EXCEPT ![w] = 0]
    /\ seen' = [seen EXCEPT ![w] = 0]
    /\ UNCHANGED <<pressured, buffered, ready, workerVars>>

\* compare_exchange(current, next_queued): true is returned and the caller
\* sends the payload to the worker; a failed exchange starts over.  A locked
\* instruction: it waits for the thread's own buffered store.
AdmitExchange(w) ==
    /\ pc[w] = "cas"
    /\ ~buffered[w]
    /\ \/ /\ queued = seen[w]
          /\ queued' = queued + want[w]
          /\ held' = held + want[w]
          /\ pc' = [pc EXCEPT ![w] = "idle"]
          /\ want' = [want EXCEPT ![w] = 0]
       \/ /\ queued # seen[w]
          /\ pc' = [pc EXCEPT ![w] = "load"]
          /\ UNCHANGED <<queued, held, want>>
    /\ seen' = [seen EXCEPT ![w] = 0]
    /\ UNCHANGED <<pressured, buffered, ready, workerVars>>

\* Mutant: pressure is not recorded.
StorePressured_Skipped(w) ==
    /\ pc[w] = "press"
    /\ pc' = [pc EXCEPT ![w] = "recheck"]
    /\ UNCHANGED <<queued, pressured, buffered, want, seen, ready, held, workerVars>>

\* self.pressured.store(true, Release)
StorePressured(w) ==
    /\ pc[w] = "press"
    /\ pc' = [pc EXCEPT ![w] = "recheck"]
    /\ pressured' = TRUE
    /\ UNCHANGED <<queued, want, seen, buffered, ready, held, workerVars>>

\* The same store when it stays in the store buffer ...
BufferPressured(w) ==
    /\ pc[w] = "press"
    /\ pc' = [pc EXCEPT ![w] = "recheck"]
    /\ buffered' = [buffered EXCEPT ![w] = TRUE]
    /\ UNCHANGED <<queued, pressured, want, seen, ready, held, workerVars>>

\* ... until it reaches memory.
DrainStore(w) ==
    /\ buffered[w]
    /\ pressured' = TRUE
    /\ buffered' = [buffered EXCEPT ![w] = FALSE]
    /\ UNCHANGED <<queued, pc, want, seen, ready, held, workerVars>>

\* Mutant: no second look at the queue after the store.
Recheck_Skipped(w) ==
    /\ pc[w] = "recheck"
    /\ pc' = [pc EXCEPT ![w] = "count"]
    /\ UNCHANGED <<queued, pressured, want, seen, buffered, ready, held, workerVars>>

\* let latest = self.queued.load(Acquire): continue if it fits by now.
Recheck(w) ==
    /\ pc[w] = "recheck"
    /\ pc' = [pc EXCEPT ![w] = IF admit_next(queued, want[w]) THEN "load" ELSE "count"]
    /\ UNCHANGED <<queued, pressured, want, seen, buffered, ready, held, workerVars>>

\* record_outbound_admission_backpressure() (a locked fetch_add), return
\* false; the stream parks the write in its drainCallbacks.
ReturnBackpressured(w) ==
    /\ pc[w] = "count"
    /\ ~buffered[w]
    /\ pc' = [pc EXCEPT ![w] = "waiting"]
    /\ UNCHANGED <<queued, pressured, want, seen, buffered, ready, held, workerVars>>

\* The WRITE_READY event is dispatched on the JavaScript thread, which is not
\* inside try_admit then; a parked write calls streamSend again.
DispatchWriteReady(w) ==
    /\ w \in ready
    /\ pc[w] \in {"idle", "waiting"}
    /\ ready' = ready \ {w}
    /\ pc' = [pc EXCEPT ![w] = IF pc[w] = "waiting" THEN "load" ELSE "idle"]
    /\ UNCHANGED <<queued, pressured, want, seen, buffered, held, workerVars>>

-----------------------------------------------------------------------------
(* release, on the worker thread, for units quiche took or the worker drops. *)

BeginRelease(u) ==
    /\ wpc = "idle"
    /\ u \in 1..held
    /\ wpc' = "load"
    /\ give' = u
    /\ UNCHANGED <<queued, pressured, writerVars, ready, held, wseen>>

ReleaseLoad ==
    /\ wpc = "load"
    /\ wseen' = queued
    /\ wpc' = "cas"
    /\ UNCHANGED <<queued, pressured, writerVars, ready, held, give>>

\* compare_exchange(current, release_next(current, units)) and the branch on
\* next <= low_water.
ReleaseExchange ==
    /\ wpc = "cas"
    /\ \/ /\ queued = wseen
          /\ queued' = release_next(queued, give)
          /\ held' = held - give
          /\ wpc' = IF release_next(queued, give) <= low_water THEN "swap" ELSE "idle"
          /\ give' = 0
       \/ /\ queued # wseen
          /\ wpc' = "load"
          /\ UNCHANGED <<queued, held, give>>
    /\ wseen' = 0
    /\ UNCHANGED <<pressured, writerVars, ready>>

\* Mutant: the flag is cleared but the caller is not told.
ReleaseSwap_NoEvent ==
    /\ wpc = "swap"
    /\ pressured' = FALSE
    /\ wpc' = "idle"
    /\ UNCHANGED <<queued, writerVars, ready, held, give, wseen>>

\* pressured.swap(false): when it was set the caller emits WRITE_READY, which
\* carries connection handle 0 and reaches every stream.
ReleaseSwap ==
    /\ wpc = "swap"
    /\ pressured' = FALSE
    /\ ready' = IF pressured THEN Writers ELSE ready
    /\ wpc' = "idle"
    /\ UNCHANGED <<queued, writerVars, held, give, wseen>>

-----------------------------------------------------------------------------
TryAdmitStep(w) ==
    \/ LoadQueued(w) \/ AdmitExchange(w) \/ StorePressured(w)
    \/ Recheck(w) \/ ReturnBackpressured(w)

BufferStep(w) == BufferPressured(w) \/ DrainStore(w)

WriterStep(w) ==
    \/ \E u \in Units : BeginAdmit(w, u)
    \/ TryAdmitStep(w)
    \/ DispatchWriteReady(w)

ReleaseStep == ReleaseLoad \/ ReleaseExchange \/ ReleaseSwap

WorkerStep == (\E u \in 1..held : BeginRelease(u)) \/ ReleaseStep

Next == (\E w \in Writers : WriterStep(w)) \/ WorkerStep

BufferedNext == Next \/ \E w \in Writers : BufferStep(w)

SafeSpec == Init /\ [][Next]_vars
BufferedSpec == Init /\ [][BufferedNext]_vars

\* Threads inside a call keep running; the Node event loop dispatches events;
\* the worker keeps giving units back, because it retries every pending write
\* in each loop iteration and drops it when the stream or connection ends.
Fairness ==
    /\ \A w \in Writers : WF_vars(TryAdmitStep(w)) /\ WF_vars(DispatchWriteReady(w))
    /\ WF_vars(WorkerStep)

Spec == SafeSpec /\ Fairness

-----------------------------------------------------------------------------
(* Properties. *)

\* Every variable keeps its type, a call in progress knows its units, and the
\* worker never gives back more than it holds (held stays a natural number).
TypeOK ==
    /\ queued \in Nat
    /\ pressured \in BOOLEAN
    /\ pc \in [Writers -> WriterPC]
    /\ want \in [Writers -> Units \cup {0}]
    /\ \A w \in Writers : pc[w] # "idle" => want[w] \in Units
    /\ seen \in [Writers -> Nat]
    /\ buffered \in [Writers -> BOOLEAN]
    /\ ready \subseteq Writers
    /\ held \in Nat
    /\ wpc \in WorkerPC
    /\ give \in Nat
    /\ wseen \in Nat

\* The window counts exactly the units of the payloads the worker still owns:
\* no interleaving of try_admit and release loses or invents a unit, and no
\* release is ever larger than what is owed (release_next never saturates).
WindowConserved ==
    /\ queued = held
    /\ wpc \in {"load", "cas"} => give \in 1..held

\* The exchange installs only a sum that admit_next approved, although the
\* queue may have moved any number of times since it was read.
ExchangeApproved ==
    \A w \in Writers : pc[w] = "cas" => admit_next(seen[w], want[w])

\* The window is exceeded only by one payload larger than all of it, and only
\* when nothing else is queued (admits_single_oversized_payload_when_empty,
\* outbound_admission.rs:157).
OversizedOnlyWhenEmpty ==
    [][queued' > queued /\ queued' > high_water => queued = 0]_vars

\* No lost wakeup: a writer that try_admit turned away has a WRITE_READY event
\* on its way, or the pressure flag is up and a release that will consume it
\* is under way or still owed (outbound_admission.rs:82-86).
NoLostWakeup ==
    \A w \in Writers : pc[w] \in {"count", "waiting"} =>
        \/ w \in ready
        \/ pressured /\ (queued > 0 \/ wpc = "swap")

\* A writer that observed pressure is told when the queue is back at the low
\* watermark: it never waits beside an empty window with no release under way
\* and no event in flight (outbound_admission.rs:82-86).
WriterNeverStranded ==
    \A w \in Writers : pc[w] = "waiting" =>
        w \in ready \/ wpc # "idle" \/ queued > 0

\* Every try_admit call is answered with an admission in the end, also for a
\* payload larger than the whole window, through however many refusals and
\* WRITE_READY events; only other streams that are admitted again and again can
\* keep a stream out (the code does not queue its writers).
AdmittedUnlessOvertaken ==
    \A w \in Writers :
        \/ pc[w] = "load" ~> pc[w] = "idle"
        \/ []<><<held' > held /\ pc'[w] = pc[w]>>_vars

\* The inductive strengthening behind NoLostWakeup: without a store buffer the
\* flag a writer published stays up until a release turns it into an event
\* for that writer, also between the store and the re-check.
PressurePublished ==
    /\ \A w \in Writers : pc[w] = "recheck" => w \in ready \/ pressured
    /\ NoLostWakeup

-----------------------------------------------------------------------------
(* The window as its users see it: a writer is refused from the re-check that *)
(* settles the answer until its WRITE_READY is dispatched.                    *)
Refused == {w \in Writers : pc[w] \in {"count", "waiting"}}

Window == INSTANCE AdmissionWindow WITH refused <- Refused

\* The atomics implement the one-step window, its wake-up promise included.
ImplementsWindow == Window!Spec
=============================================================================
