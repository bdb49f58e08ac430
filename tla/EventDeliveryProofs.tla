------------------------- MODULE EventDeliveryProofs -------------------------
(***************************************************************************)
(* Proofs about EventDelivery: the gauge, the bound on what JavaScript can *)
(* fall behind, that received data is not left behind, and that close()    *)
(* leaves no event for cleared maps.                                       *)
(*                                                                         *)
(* The inductive invariant Inv has four parts.  Part (EventDeliveryGauge): *)
(* the types of the workers with what a worker may hold at each place, the *)
(* gauge and the bound.  The others are in EventDeliveryClosing.           *)
(* RestType: the other types.  ClosingInv: the sentinel of a binding with  *)
(* one worker is the last of its queue.  StrandInv: a worker past          *)
(* poll_app_events that has left app events behind has a signal, or        *)
(* something under way whose acknowledgement will be one.                  *)
(***************************************************************************)
EXTENDS EventDeliveryClosing, FiniteSetTheorems

\* What the lemmas assume of finite sets holds: so the counts of the model, which are
\* cardinalities, are those of the code's counters.
LEMMA FiniteSetsCount == Counting
<1>1. IsFiniteSet({}) /\ Cardinality({}) = 0 BY FS_EmptySet, Zenon
<1>2. \A x : IsFiniteSet({x}) /\ Cardinality({x}) = 1 BY FS_Singleton, Zenon
<1>3. \A S : IsFiniteSet(S) => Cardinality(S) \in Nat BY FS_CardinalityType, Zenon
<1>4. \A m, n \in Int : IsFiniteSet(m..n) /\ Cardinality(m..n) = IF m > n THEN 0 ELSE n - m + 1
  BY FS_Interval
<1>5. \A S, T : IsFiniteSet(S) /\ T \subseteq S => IsFiniteSet(T) /\ Cardinality(T) <= Cardinality(S)
  BY FS_Subset
<1>6. ASSUME NEW S, NEW T, IsFiniteSet(S), IsFiniteSet(T), S \cap T = {}
      PROVE  IsFiniteSet(S \cup T) /\ Cardinality(S \cup T) = Cardinality(S) + Cardinality(T)
  <2>1. /\ IsFiniteSet(S \cup T)
        /\ Cardinality(S \cup T) = Cardinality(S) + Cardinality(T) - Cardinality(S \cap T)
    BY <1>6, FS_Union, Zenon
  <2>2. Cardinality(S) \in Nat /\ Cardinality(T) \in Nat BY <1>6, <1>3
  <2>3. Cardinality(S) + Cardinality(T) - 0 = Cardinality(S) + Cardinality(T) BY <2>2
  <2> QED BY <1>1, <1>6, <2>1, <2>3
<1>7. \A S, T : IsFiniteSet(S) /\ IsFiniteSet(T) =>
         IsFiniteSet(S \X T) /\ Cardinality(S \X T) = Cardinality(S) * Cardinality(T)
  BY FS_Product, Zenon
<1>8. \A S : IsFiniteSet(S) /\ (\A T \in S : IsFiniteSet(T)) => IsFiniteSet(UNION S) BY FS_UNION, Zenon
<1>9. ASSUME NEW S, NEW T, NEW f, IsFiniteSet(S), Onto(f, S, T)
      PROVE  IsFiniteSet(T) /\ (OneToOne(f, S) => Cardinality(T) = Cardinality(S))
  <2>1. f \in Surjection(S, T) BY <1>9 DEF Onto, Surjection
  <2>2. OneToOne(f, S) => f \in Injection(S, T) BY <1>9 DEF Onto, OneToOne, Injection, IsInjective
  <2> QED BY <1>9, <2>1, <2>2, FS_Surjection, Zenon
<1> QED BY <1>1, <1>2, <1>3, <1>4, <1>5, <1>6, <1>7, <1>8, <1>9, Zenon DEF Counting

-----------------------------------------------------------------------------
(* The theorems. *)

Inv == Part /\ RestType /\ ClosingInv /\ StrandInv

\* The inductive invariant holds before run_event_loop starts.
LEMMA InitInv == Init => Inv
<1> SUFFICES ASSUME Init PROVE Inv OBVIOUS
<1>1. setup \in Setups BY DEF Init
<1>2. /\ MaxBatch \in Nat \ {0} /\ TimerBatch \in Nat /\ HighWater \in Nat \ {0} /\ MaxCommands \in Nat \ {0}
      /\ setup.app \in Nat /\ setup.ctl \in Nat /\ setup.sends \in Nat
  BY <1>1, SetupFacts, DeliveryAssumption
<1>3. CoreType
  <2>1. \A S : <<>> \in Seq(S) OBVIOUS
  <2> HIDE DEF Batches
  <2> QED BY <1>1, <2>1 DEF Init, CoreType, Labels
<1>4. CoreInv
  <2>1. ASSUME NEW w \in Workers
        PROVE  /\ Fits(pc[w], after[w], taken[w], batch[w])
               /\ w \notin Present => pc[w] = "stopped" /\ batch[w] = <<>>
    <3>1. /\ taken[w] = <<>> /\ batch[w] = <<>> /\ pc[w] \in {"top", "stopped"}
          /\ w \notin Present => pc[w] = "stopped"
      BY DEF Init
    <3> QED BY <3>1, NoPlaces DEF Fits
  <2> QED BY <1>3, <2>1 DEF CoreInv
<1>5. \A k : Handed(k) = 0 /\ Waiting(k) = 0 /\ Collected(k) = 0
  <2> TAKE k
  <2>1. \A w \in Workers : taken[w] = <<>> /\ batch[w] = <<>> BY DEF Init
  <2>2. \A b \in Bindings : queue[b] = <<>> BY DEF Init
  <2>3. Spread([w \in Workers |-> Places(taken[w], k)]) = {} BY <2>1, NoPlaces DEF Spread
  <2>4. Spread([w \in Workers |-> Places(batch[w], k)]) = {} BY <2>1, NoPlaces DEF Spread
  <2>5. Spread([b \in Bindings |-> Queued(queue[b], k)]) = {} BY <2>2, NothingQueued DEF Spread
  <2> QED BY <2>3, <2>4, <2>5, FS_EmptySet, Zenon DEF Handed, Waiting, Collected
<1>6. Gauge
  <2>1. outstanding = 0 /\ lost = 0 BY DEF Init
  <2> QED BY <1>5, <2>1 DEF Gauge
<1>7. Bound
  <2>1. Total = 0 BY <1>5 DEF Total
  <2>2. Cardinality(Present) \in Nat
    <3>1. Present \subseteq Workers BY <1>1, OwnerFacts
    <3> QED BY <3>1, FiniteSetsCount, FiniteIndex, FS_Subset, FS_CardinalityType
  <2>3. TimerBatch * Cardinality(Present) \in Nat BY <1>2, <2>2
  <2> QED BY <1>2, <2>1, <2>3 DEF Bound
<1>8. RestType
  <2>1. \A S : <<>> \in Seq(S) OBVIOUS
  <2> QED BY <1>2, <2>1 DEF Init, RestType
<1>9. ClosingInv
  <2>1. \A b \in setup.bindings : b \in Bindings BY <1>1 DEF Bindings
  <2>2. /\ \A b \in Bindings : queue[b] = <<>> /\ ~sentinel[b]
        /\ \A b \in Bindings : js[b] = IF b \in setup.bindings THEN "running" ELSE "closed"
        /\ lost = 0
    BY DEF Init
  <2>3. \A b \in setup.bindings : \A w \in b : Alone(b, w) BY <2>1, <2>2 DEF Alone
  <2> QED BY <2>1, <2>2, <2>3 DEF ClosingInv
<1>10. StrandInv
  <2>1. ASSUME NEW w \in Present PROVE ~Late(w)
    <3>1. w \in Workers BY <1>1, OwnerFacts
    <3>2. ready[w] = 0 BY <3>1 DEF Init
    <3> QED BY <3>2 DEF Late
  <2> QED BY <2>1 DEF StrandInv
<1> QED BY <1>4, <1>6, <1>7, <1>8, <1>9, <1>10 DEF Inv, Part

\* Every step of the threads and of JavaScript keeps it.
LEMMA NextInv == Inv /\ [Next]_vars => Inv'
<1> SUFFICES ASSUME Inv, [Next]_vars PROVE Inv' OBVIOUS
<1>1. Part /\ RestType /\ ClosingInv /\ StrandInv /\ CoreInv BY DEF Inv, Part
<1>2. Part' BY <1>1, FiniteSetsCount, NextPart
<1>3. RestType' BY <1>1, NextRest
<1>4. ClosingInv' BY <1>1, FiniteSetsCount, NextCloses
<1>5. StrandInv' BY <1>1, FiniteSetsCount, NextStrands
<1> QED BY <1>2, <1>3, <1>4, <1>5 DEF Inv

\* It holds at all times.
LEMMA InvAlways == SafeSpec => []Inv
BY InitInv, NextInv, PTL DEF SafeSpec

\* The fields of the event loops, the batchers, the ThreadsafeFunction queues and the
\* gauge keep their types.
THEOREM DeliveryTypes == SafeSpec => []TypeOK
<1>1. Inv => TypeOK BY DEF Inv, Part, CoreInv, CoreType, RestType, TypeOK, Batches
<1> QED BY <1>1, InvAlways, PTL

\* EVENT_BATCH_OUTSTANDING counts exactly the events that were handed to JavaScript and
\* not acknowledged, and those of torn-down environments, until the watchdog resets it,
\* and never more than those: for any number of servers, clients and workers, any batch
\* size, and every failure of a call into JavaScript.
THEOREM GaugeAlways == SafeSpec => []GaugeTracksBacklog
<1>1. Inv => GaugeTracksBacklog
  <2>1. Backlog(Kinds) = Handed(Kinds) + Waiting(Kinds) BY DEF Backlog, Handed, Waiting
  <2> QED BY <2>1 DEF Inv, Part, Gauge, GaugeTracksBacklog
<1> QED BY <1>1, InvAlways, PTL

\* The pause at APP_EVENT_PAUSE_HIGH_WATER bounds the stream and datagram events that
\* are not acknowledged by the threshold and one batch for every worker, though every
\* worker reads the gauge and adds to it in separate steps.
THEOREM BacklogAlways == SafeSpec => []AppBacklogBounded
<1>1. Inv => AppBacklogBounded
  <2>1. Backlog({"app"}) + Collected({"app"}) = Total BY DEF Backlog, Handed, Waiting, Total
  <2> QED BY <2>1 DEF Inv, Part, Bound, AppBacklogBounded
<1> QED BY <1>1, InvAlways, PTL

\* An acknowledgement wakes the driver (event_loop.rs), and this is enough: with one
\* server or client in the process no worker blocks in poll with received stream data
\* it may deliver and nothing under way that will wake it.
THEOREM NotStrandedAlways == SafeSpec => []AppEventsNotStranded
<1>1. Inv => AppEventsNotStranded
  <2> SUFFICES ASSUME Inv, Cardinality(setup.bindings) = 1, "sink" \notin Faults,
                      NEW w \in Workers, pc[w] = "poll", ready[w] > 0, js[Owner(w)] \in {"running", "closing"}
               PROVE  \/ wake[w] \/ packets[w] \/ pollNow[w] \/ queue[Owner(w)] # <<>>
                      \/ \E v \in Owner(w) : taken[v] # <<>>
    BY DEF AppEventsNotStranded, NothingStranded
  <2>1. CoreInv /\ StrandInv /\ setup \in Setups BY DEF Inv, Part, CoreInv, CoreType
  <2>2. IsFiniteSet(setup.bindings) BY <2>1, DeliveryAssumption DEF Setup
  <2>3. Sole BY <2>2, FS_Singleton DEF Sole
  <2>4. w \in Present BY <2>1, ActiveIsPresent
  <2>5. batch[w] = <<>> BY <2>1 DEF CoreInv, Fits, Idle
  <2>6. Late(w) BY DEF Late, After
  <2>7. Pending(w) BY <2>1, <2>3, <2>4, <2>6 DEF StrandInv
  <2> QED BY <2>5, <2>7 DEF Pending
<1> QED BY <1>1, InvAlways, PTL

\* close() awaits the SHUTDOWN_COMPLETE sentinel before joinWorker: when it has cleared
\* the maps of a binding with one worker, within its timeout, no event is left in the
\* queue of that binding.
THEOREM AfterCloseAlways == SafeSpec => []NoEventAfterClose
<1>1. Inv => NoEventAfterClose
  <2> SUFFICES ASSUME Inv, "timeout" \notin Faults, NEW b \in Bindings, js[b] = "closed", Cardinality(b) = 1
               PROVE  queue[b] = <<>>
    BY DEF NoEventAfterClose
  <2>1. ClosingInv /\ CoreInv /\ setup \in Setups BY DEF Inv, Part, CoreInv, CoreType
  <2>2. CASE b \notin setup.bindings BY <2>1, <2>2 DEF ClosingInv
  <2>3. CASE b \in setup.bindings
    <3>1. IsFiniteSet(b) BY <2>1, <2>3, DeliveryAssumption DEF Setup
    <3>2. PICK w : b = {w} BY <3>1, FS_Singleton
    <3>3. Alone(b, w) BY <2>1, <2>3, <3>2 DEF ClosingInv
    <3>4. sentinel[b] BY <2>1, <2>3 DEF ClosingInv
    <3> QED BY <3>3, <3>4 DEF Alone
  <2> QED BY <2>2, <2>3
<1> QED BY <1>1, InvAlways, PTL
=============================================================================
