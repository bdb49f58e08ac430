------------------------- MODULE EventDeliveryClosing -------------------------
(***************************************************************************)
(* Lemmas about EventDelivery: that every step keeps the types of what     *)
(* EventDeliveryGauge does not speak of (RestType), that the sentinel of a *)
(* binding with one worker is the last of its queue (ClosingInv), and that *)
(* a worker past poll_app_events that has left app events behind has a     *)
(* signal, or something under way whose acknowledgement will be one        *)
(* (StrandInv).                                                            *)
(***************************************************************************)
EXTENDS EventDeliveryGauge

-----------------------------------------------------------------------------
(* The types of the rest. *)

JsStates == {"running", "closing", "joining", "joined", "closed", "dead"}
Lefts == [app : 0..setup.app, ctl : 0..setup.ctl, cmd : 0..setup.sends]

\* What may still happen to a worker only gets less.
LEMMA LeftType ==
    ASSUME NEW r, setup \in Setups, r \in Lefts, NEW k \in 0..r.app, NEW n \in 0..r.ctl, NEW m \in 0..r.cmd
    PROVE  /\ r.app \in Nat /\ r.ctl \in Nat /\ r.cmd \in Nat
           /\ [app |-> r.app - k, ctl |-> r.ctl - n, cmd |-> r.cmd] \in Lefts
           /\ [r EXCEPT !.ctl = @ - n] \in Lefts /\ [r EXCEPT !.cmd = @ - m] \in Lefts
<1>1. setup.app \in Nat /\ setup.ctl \in Nat /\ setup.sends \in Nat BY SetupFacts
<1>2. r.app \in 0..setup.app /\ r.ctl \in 0..setup.ctl /\ r.cmd \in 0..setup.sends BY DEF Lefts
<1>3. r.app \in Nat /\ r.ctl \in Nat /\ r.cmd \in Nat BY <1>1, <1>2
<1>4. r.app - k \in 0..setup.app /\ r.ctl - n \in 0..setup.ctl /\ r.cmd - m \in 0..setup.sends
  BY <1>1, <1>2
<1>5. [app |-> r.app - k, ctl |-> r.ctl - n, cmd |-> r.cmd] \in Lefts BY <1>2, <1>4 DEF Lefts
<1>6. [r EXCEPT !.ctl = @ - n] \in Lefts BY <1>4 DEF Lefts
<1>7. [r EXCEPT !.cmd = @ - m] \in Lefts BY <1>4 DEF Lefts
<1> QED BY <1>3, <1>5, <1>6, <1>7

\* A worker emits some of the control events it may still emit.
LEMMA ControlType ==
    ASSUME RestType, setup \in Setups, UNCHANGED setup, NEW w \in Workers, NEW n \in 0..1, ControlGroup(w, n)
    PROVE  left' \in [Workers -> Lefts]
<1>1. left \in [Workers -> Lefts] BY DEF RestType, Lefts
<1>2. left[w] \in Lefts /\ n <= left[w].ctl /\ left' = [left EXCEPT ![w] = [left[w] EXCEPT !.ctl = @ - n]]
  BY <1>1 DEF ControlGroup
<1>3. left[w].ctl \in Nat /\ left[w].app \in Nat /\ left[w].cmd \in Nat
  BY <1>2, SetupFacts DEF Lefts
<1>4. n \in 0..left[w].ctl /\ 0 \in 0..left[w].app /\ 0 \in 0..left[w].cmd BY <1>2, <1>3
<1>5. [left[w] EXCEPT !.ctl = @ - n] \in Lefts BY <1>2, <1>4, LeftType, Zenon
<1> QED BY <1>1, <1>2, <1>5

\* Every step keeps the types of the rest.
LEMMA NextRest == ASSUME CoreInv, RestType, [Next]_vars PROVE RestType'
<1>1. /\ setup \in Setups /\ left \in [Workers -> Lefts]
      /\ cmds \in [Workers -> Seq({"cmd", "shutdown"})] /\ drained \in [Workers -> 0..MaxCommands]
      /\ pollNow \in [Workers -> BOOLEAN] /\ wake \in [Workers -> BOOLEAN]
      /\ packets \in [Workers -> BOOLEAN] /\ ready \in [Workers -> Nat]
      /\ js \in [Bindings -> JsStates] /\ sentinel \in [Bindings -> BOOLEAN]
  BY DEF CoreInv, CoreType, RestType, JsStates, Lefts
<1>2. MaxCommands \in Nat \ {0} BY DeliveryAssumption
<1>3. SUFFICES /\ UNCHANGED setup /\ left' \in [Workers -> Lefts]
               /\ cmds' \in [Workers -> Seq({"cmd", "shutdown"})] /\ drained' \in [Workers -> 0..MaxCommands]
               /\ pollNow' \in [Workers -> BOOLEAN] /\ wake' \in [Workers -> BOOLEAN]
               /\ packets' \in [Workers -> BOOLEAN] /\ ready' \in [Workers -> Nat]
               /\ js' \in [Bindings -> JsStates] /\ sentinel' \in [Bindings -> BOOLEAN]
  BY SMTT(30) DEF RestType, JsStates, Lefts
<1>4. \A w \in Workers : /\ left[w] \in Lefts /\ left[w].app \in Nat /\ left[w].ctl \in Nat /\ left[w].cmd \in Nat
  BY <1>1, SetupFacts DEF Lefts
<1> DEFINE Goal == /\ UNCHANGED setup /\ left' \in [Workers -> Lefts]
               /\ cmds' \in [Workers -> Seq({"cmd", "shutdown"})] /\ drained' \in [Workers -> 0..MaxCommands]
               /\ pollNow' \in [Workers -> BOOLEAN] /\ wake' \in [Workers -> BOOLEAN]
               /\ packets' \in [Workers -> BOOLEAN] /\ ready' \in [Workers -> Nat]
               /\ js' \in [Bindings -> JsStates] /\ sentinel' \in [Bindings -> BOOLEAN]
<1>5. ASSUME NEW w \in Workers, WorkerStep(w) \/ TimerFires(w) \/ EmitFails(w) \/ RuntimeError(w)
                                \/ SendCommand(w) \/ PacketArrives(w)
      PROVE  Goal
  <2>1. CASE Emit(w) \/ EmitFails(w) \/ EnterPoll(w) \/ Deliver(w) \/ RuntimeError(w) \/ PushShutdownComplete(w)
    BY <2>1, <1>1 DEF Emit, EmitFails, EnterPoll, Deliver, RuntimeError, PushShutdownComplete, script
  <2>2. CASE Woken(w) \/ TimerFires(w)
    <3>1. PollReturns(w) BY <2>2 DEF Woken, TimerFires
    <3>2. 0 \in 0..MaxCommands BY <1>2
    <3> QED BY <3>1, <3>2, <1>1 DEF PollReturns, script
  <2>3. CASE DispatchCommand(w)
    <3>1. /\ UNCHANGED <<setup, pollNow, wake, packets, ready, js, sentinel>>
          /\ cmds[w] # <<>> /\ cmds' = [cmds EXCEPT ![w] = Tail(cmds[w])]
          /\ drained[w] < MaxCommands /\ drained' = [drained EXCEPT ![w] = drained[w] + 1]
      BY <2>3, <1>1 DEF DispatchCommand, script
    <3>2. drained[w] + 1 \in 0..MaxCommands BY <3>1, <1>1, <1>2
    <3>3. Tail(cmds[w]) \in Seq({"cmd", "shutdown"}) BY <3>1, <1>1
    <3>4. left' \in [Workers -> Lefts]
      <4>1. CASE Head(cmds[w]) = "shutdown" BY <4>1, <2>3, <1>1 DEF DispatchCommand
      <4>2. CASE Head(cmds[w]) # "shutdown"
        <5>1. PICK n \in 0..1 : ControlGroup(w, n) BY <4>2, <2>3 DEF DispatchCommand
        <5> QED BY <5>1, <3>1, <1>1, ControlType
      <4> QED BY <4>1, <4>2
    <3> QED BY <3>1, <3>2, <3>3, <3>4, <1>1
  <2>4. CASE ProcessPackets(w)
    <3>1. /\ UNCHANGED <<setup, cmds, drained, wake, js, sentinel>>
          /\ pollNow' = [pollNow EXCEPT ![w] = (drained[w] = MaxCommands /\ cmds[w] # <<>>)]
          /\ packets' = [packets EXCEPT ![w] = FALSE]
      BY <2>4 DEF ProcessPackets, script
    <3>2. PICK k \in (IF packets[w] THEN 0..left[w].app ELSE {0}),
               n \in (IF packets[w] THEN 0..Lesser(1, left[w].ctl) ELSE {0}) :
            /\ ready' = [ready EXCEPT ![w] = ready[w] + k]
            /\ left' = [left EXCEPT ![w] = [app |-> left[w].app - k, ctl |-> left[w].ctl - n, cmd |-> left[w].cmd]]
      BY <2>4, <1>1, Zenon DEF ProcessPackets
    <3>3. k \in 0..left[w].app /\ n \in 0..left[w].ctl /\ 0 \in 0..left[w].cmd
      <4>1. CASE packets[w]
        <5>1. Lesser(1, left[w].ctl) \in Nat /\ Lesser(1, left[w].ctl) <= left[w].ctl BY <1>4, LesserFacts
        <5> QED BY <4>1, <5>1, <3>2, <1>4
      <4>2. CASE ~packets[w] BY <4>2, <3>2, <1>4
      <4> QED BY <4>1, <4>2
    <3>4. [app |-> left[w].app - k, ctl |-> left[w].ctl - n, cmd |-> left[w].cmd] \in Lefts
      BY <3>3, <1>1, <1>4, LeftType, Zenon
    <3>5. ready[w] + k \in Nat BY <3>3, <1>1, <1>4
    <3> QED BY <3>1, <3>2, <3>4, <3>5, <1>1
  <2>5. CASE ProcessTimers(w)
    <3>1. UNCHANGED <<setup, cmds, drained, pollNow, wake, packets, js, sentinel>> BY <2>5 DEF ProcessTimers, script
    <3>2. PICK k \in expire_timers(w), n \in 0..1 :
            ControlGroup(w, n) /\ ready' = [ready EXCEPT ![w] = ready[w] - k]
      BY <2>5, <1>1, Zenon DEF ProcessTimers
    <3>3. ready[w] - k \in Nat
      <4>1. ready[w] \in Nat BY <1>1
      <4>2. k \in Nat /\ k <= ready[w] BY <4>1, ExpireFacts
      <4> QED BY <4>1, <4>2
    <3>4. left' \in [Workers -> Lefts] BY <3>1, <3>2, <1>1, ControlType
    <3> QED BY <3>1, <3>2, <3>3, <3>4, <1>1
  <2>6. CASE PollAppEvents(w)
    <3>1. UNCHANGED <<setup, cmds, drained, pollNow, wake, packets, js, sentinel>>
      BY <2>6 DEF PollAppEvents, script
    <3>2. ready[w] \in Nat BY <1>1
    <3>3. PICK n \in 0..1 : \E m \in Nat :
            ControlGroup(w, n) /\ ready' = [ready EXCEPT ![w] = ready[w] - collect_app_events(w, m)]
      BY <2>6, <3>2, PolledGroup, Zenon
    <3>4. PICK m \in Nat : ready' = [ready EXCEPT ![w] = ready[w] - collect_app_events(w, m)]
      BY <3>3
    <3>5. ready[w] - collect_app_events(w, m) \in Nat BY <3>2, CollectFacts
    <3>6. left' \in [Workers -> Lefts] BY <3>1, <3>3, <1>1, ControlType
    <3> QED BY <3>1, <3>4, <3>5, <3>6, <1>1
  <2>7. CASE DrainsAndWrites(w)
    <3>1. UNCHANGED <<setup, cmds, drained, pollNow, wake, packets, ready, js, sentinel>>
      BY <2>7 DEF DrainsAndWrites, script
    <3>2. PICK n \in 0..1 : ControlGroup(w, n) BY <2>7 DEF DrainsAndWrites
    <3> QED BY <3>1, <3>2, <1>1, ControlType
  <2>8. CASE CleanupClosed(w)
    <3>1. UNCHANGED <<setup, cmds, drained, pollNow, wake, packets, ready, js, sentinel>>
      BY <2>8 DEF CleanupClosed, script
    <3>2. CASE UNCHANGED left BY <3>1, <3>2, <1>1
    <3>3. CASE \E n \in 0..1 : ControlGroup(w, n) BY <3>1, <3>3, <1>1, ControlType
    <3> QED BY <2>8, <3>2, <3>3 DEF CleanupClosed
  <2>9. CASE SendCommand(w)
    <3>1. /\ left[w].cmd > 0 /\ left' = [left EXCEPT ![w] = [left[w] EXCEPT !.cmd = @ - 1]]
          /\ cmds' = [cmds EXCEPT ![w] = Append(cmds[w], "cmd")] /\ wake' = [wake EXCEPT ![w] = TRUE]
          /\ UNCHANGED <<setup, drained, pollNow, packets, ready, js, sentinel>>
      BY <2>9, <1>1 DEF SendCommand, script
    <3>2. [left[w] EXCEPT !.cmd = @ - 1] \in Lefts
      <4>1. 1 \in 0..left[w].cmd /\ 0 \in 0..left[w].app /\ 0 \in 0..left[w].ctl BY <3>1, <1>4
      <4> QED BY <4>1, <1>1, <1>4, LeftType, ZenonT(30)
    <3>3. Append(cmds[w], "cmd") \in Seq({"cmd", "shutdown"}) BY <1>1
    <3> QED BY <3>1, <3>2, <3>3, <1>1
  <2>10. CASE PacketArrives(w) BY <2>10, <1>1 DEF PacketArrives, script
  <2> HIDE DEF Goal
  <2> QED BY <1>5, <2>1, <2>2, <2>3, <2>4, <2>5, <2>6, <2>7, <2>8, <2>9, <2>10 DEF WorkerStep
<1>6. ASSUME NEW b \in Bindings, ScriptStep(b) \/ Close(b) \/ Teardown(b) PROVE Goal
  <2>1. CASE Dispatch(b)
    <3>1. /\ UNCHANGED <<setup, cmds, drained, pollNow, packets, ready, js, left>>
          /\ sentinel' = [sentinel EXCEPT ![b] = (sentinel[b] \/ Places(Head(queue[b]).events, {"shutdown"}) # {})]
      BY <2>1, <1>1 DEF Dispatch
    <3>2. wake' \in [Workers -> BOOLEAN] BY <2>1, <1>1, Zenon DEF Dispatch, WakeAll
    <3> QED BY <3>1, <3>2, <1>1
  <2>2. CASE Close(b) \/ Teardown(b)
    <3>1. /\ UNCHANGED <<setup, drained, pollNow, packets, ready, sentinel, left>>
          /\ SendToAll(b, "shutdown") /\ WakeAll(b)
      BY <2>2 DEF Close, Teardown
    <3>2. js' \in [Bindings -> JsStates] BY <2>2, <1>1, Zenon DEF Close, Teardown, JsStates
    <3>3. wake' \in [Workers -> BOOLEAN] BY <3>1, <1>1 DEF WakeAll
    <3>4. cmds' \in [Workers -> Seq({"cmd", "shutdown"})]
      <4>1. \A w \in Workers : cmds[w] \in Seq({"cmd", "shutdown"}) /\ Append(cmds[w], "shutdown") \in Seq({"cmd", "shutdown"})
        BY <1>1
      <4> QED BY <4>1, <3>1 DEF SendToAll
    <3> QED BY <3>1, <3>2, <3>3, <3>4, <1>1
  <2>3. CASE StartJoin(b) \/ JoinWorker(b) \/ ClearMaps(b)
    BY <2>3, <1>1, ZenonT(30) DEF StartJoin, JoinWorker, ClearMaps, worker, JsStates
  <2> HIDE DEF Goal
  <2> QED BY <1>6, <2>1, <2>2, <2>3 DEF ScriptStep
<1>7. ASSUME ClockPasses PROVE Goal BY <1>7, <1>1 DEF ClockPasses, worker, script
<1>8. ASSUME UNCHANGED vars PROVE Goal BY <1>8, <1>1 DEF vars, worker, script
<1>9. Goal
  <2> HIDE DEF Goal
  <2> QED BY <1>5, <1>6, <1>7, <1>8 DEF Next
<1> QED BY <1>9

-----------------------------------------------------------------------------
(* Closing a binding. *)

Shut(e) == Places(e, {"shutdown"}) # {}

\* What holds of the binding b of the single worker w: the sentinel is the last batch of
\* its queue, w has stopped by then, and nothing is left once the sentinel was seen.
Alone(b, w) ==
    /\ \A i \in DOMAIN queue[b] : Shut(queue[b][i].events) => pc[w] = "stopped" /\ i = Len(queue[b])
    /\ sentinel[b] => pc[w] = "stopped" /\ queue[b] = <<>>

ClosingInv ==
    /\ \A b \in Bindings : b \notin setup.bindings => queue[b] = <<>> /\ js[b] = "closed"
    /\ \A b \in setup.bindings : \A w \in b : b = {w} => Alone(b, w)
    /\ "timeout" \notin Faults =>
         \A b \in setup.bindings : js[b] \in {"joining", "joined", "closed"} => sentinel[b]
    /\ lost = 0 \/ \E b \in setup.bindings : js[b] = "dead"

\* The bindings of the process are bindings, and their workers its own.
LEMMA PresentFacts ==
    ASSUME setup \in Setups, NEW b \in setup.bindings, NEW w \in b
    PROVE  b \in Bindings /\ w \in Present /\ w \in Workers /\ Owner(w) = b
<1>1. b \in Bindings BY DEF Bindings
<1>2. w \in Present BY DEF Present
<1>3. w \in Workers /\ Owner(w) \in setup.bindings /\ w \in Owner(w) BY <1>2, OwnerFacts
<1>4. \A c, d \in setup.bindings : c # d => c \cap d = {} BY SetupFacts
<1> QED BY <1>1, <1>2, <1>3, <1>4

\* Steps that leave the queues and the JavaScript side alone keep it: a worker that has
\* stopped stays so.
LEMMA ClosingStays ==
    ASSUME CoreInv, ClosingInv, UNCHANGED <<setup, queue, js, sentinel, lost>>,
           \A w \in Workers : pc[w] = "stopped" => pc'[w] = "stopped"
    PROVE  ClosingInv'
<1>1. setup \in Setups BY DEF CoreInv, CoreType
<1>2. Faults' = Faults BY DEF Faults
<1>3. ASSUME NEW b \in setup.bindings, NEW w \in b, b = {w} PROVE Alone(b, w)'
  <2>1. w \in Workers BY <1>1, PresentFacts
  <2>2. Alone(b, w) BY <1>3 DEF ClosingInv
  <2> QED BY <2>1, <2>2, SMTT(30) DEF Alone, Shut
<1> QED BY <1>2, <1>3 DEF ClosingInv

\* Handing over a batch keeps it: only the worker itself appends to the queue of its
\* binding, and after the sentinel it has stopped.
LEMMA EmitCloses == ASSUME CoreInv, ClosingInv, NEW w \in Workers, Emit(w) PROVE ClosingInv'
<1>1. /\ pc[w] = "emit" /\ setup \in Setups /\ w \in Present /\ pc \in [Workers -> Labels]
      /\ queue \in [Bindings -> Seq(Batches)] /\ Fits(pc[w], after[w], taken[w], batch[w])
  BY ActiveIsPresent DEF Emit, CoreInv, CoreType
<1>2. UNCHANGED <<setup, js, sentinel, lost>> BY DEF Emit
<1>3. PICK p : pc' = [pc EXCEPT ![w] = p] BY DEF Emit, Goto
<1>4. \A v \in Workers : pc[v] = "stopped" => pc'[v] = "stopped" BY <1>1, <1>3
<1>5. CASE js[Owner(w)] = "dead"
  <2>1. UNCHANGED queue BY <1>5 DEF Emit
  <2> QED BY <1>2, <1>4, <2>1, ClosingStays
<1>6. CASE js[Owner(w)] # "dead"
  <2> DEFINE m == [from |-> w, events |-> taken[w]]
             o == Owner(w)
  <2>1. o \in setup.bindings /\ w \in o /\ o \in Bindings BY <1>1, OwnerFacts
  <2>2. queue' = [queue EXCEPT ![o] = Append(queue[o], m)] /\ pc' = [pc EXCEPT ![w] = after[w]]
    BY <1>1, <1>6, <2>1 DEF Emit, Goto
  <2>3. ASSUME NEW b \in setup.bindings, NEW v \in b, b = {v} PROVE Alone(b, v)'
    <3>1. b \in Bindings /\ v \in Workers /\ Owner(v) = b BY <2>3, <1>1, PresentFacts
    <3>2. Alone(b, v) BY <2>3 DEF ClosingInv
    <3>3. CASE b # o
      <4>1. queue'[b] = queue[b] BY <3>1, <3>3, <2>2, <1>1
      <4> QED BY <4>1, <3>1, <3>2, <1>2, <1>4, ZenonT(30) DEF Alone, Shut
    <3>4. CASE b = o
      <4>1. v = w BY <3>4, <2>1, <2>3
      <4>2. ~sentinel[b] /\ \A i \in DOMAIN queue[b] : ~Shut(queue[b][i].events)
        BY <3>2, <4>1, <1>1 DEF Alone
      <4>3. queue[b] \in Seq(Batches) /\ queue'[b] = Append(queue[b], m) /\ m.events = taken[w]
        BY <3>1, <3>4, <2>2, <1>1
      <4>4. pc'[w] = after[w] BY <2>2, <1>1
      <4> HIDE DEF m
      <4>5. ASSUME NEW i \in DOMAIN queue'[b], Shut(queue'[b][i].events)
            PROVE  pc'[v] = "stopped" /\ i = Len(queue'[b])
        <5>1. i \in 1..(Len(queue[b]) + 1) /\ Len(queue'[b]) = Len(queue[b]) + 1 BY <4>3
        <5>2. CASE i # Len(queue[b]) + 1
          <6>1. i \in DOMAIN queue[b] /\ queue'[b][i] = queue[b][i] BY <5>1, <5>2, <4>3
          <6> QED BY <6>1, <4>2, <4>5
        <5>3. CASE i = Len(queue[b]) + 1
          <6>1. queue'[b][i] = m BY <5>3, <4>3
          <6>2. Places(taken[w], {"shutdown"}) # {} BY <6>1, <4>3, <4>5 DEF Shut
          <6>3. after[w] = "stopped" BY <6>2, <1>1 DEF Fits
          <6> QED BY <6>3, <5>1, <5>3, <4>1, <4>4
        <5> QED BY <5>2, <5>3
      <4> QED BY <4>2, <4>5, <1>2 DEF Alone, Shut
    <3> QED BY <3>3, <3>4
  <2>4. \A b \in Bindings : b \notin setup.bindings => queue'[b] = <<>>
    BY <2>1, <2>2, <1>1 DEF ClosingInv
  <2>5. Faults' = Faults BY <1>2, SameSetup
  <2> QED BY <2>3, <2>4, <2>5, <1>2 DEF ClosingInv
<1> QED BY <1>5, <1>6

\* A queue without elements.
LEMMA EmptyLength == ASSUME NEW S, NEW q \in Seq(S), Len(q) = 0 PROVE q = <<>>
OBVIOUS

\* Dispatching a batch keeps it: the batch with the sentinel is the last one.
LEMMA DispatchCloses == ASSUME CoreInv, RestType, ClosingInv, NEW b \in Bindings, Dispatch(b) PROVE ClosingInv'
<1>1. setup \in Setups /\ queue \in [Bindings -> Seq(Batches)] BY DEF CoreInv, CoreType
<1>0. sentinel \in [Bindings -> BOOLEAN] BY DEF RestType
<1>2. /\ queue[b] # <<>> /\ queue' = [queue EXCEPT ![b] = Tail(queue[b])]
      /\ sentinel' = [sentinel EXCEPT ![b] = (@ \/ Shut(Head(queue[b]).events))]
      /\ UNCHANGED <<setup, pc, js, lost>>
  BY <1>1 DEF Dispatch, Shut
<1>3. \A c \in Bindings : c # b => queue'[c] = queue[c] /\ sentinel'[c] = sentinel[c] BY <1>1, <1>2
<1>4. queue[b] \in Seq(Batches) /\ Len(queue[b]) \in Nat \ {0} /\ Head(queue[b]) = queue[b][1] BY <1>1, <1>2
<1>5. /\ queue'[b] = Tail(queue[b]) /\ Len(queue'[b]) = Len(queue[b]) - 1
      /\ \A i \in 1..(Len(queue[b]) - 1) : queue'[b][i] = queue[b][i + 1]
      /\ DOMAIN queue'[b] = 1..(Len(queue[b]) - 1)
  BY <1>1, <1>2, <1>4
<1>7. ASSUME NEW c \in setup.bindings, NEW v \in c, c = {v} PROVE Alone(c, v)'
  <2>1. c \in Bindings /\ v \in Workers BY <1>1, PresentFacts
  <2>2. Alone(c, v) BY <1>7 DEF ClosingInv
  <2>3. CASE c # b BY <2>1, <2>2, <2>3, <1>2, <1>3, ZenonT(30) DEF Alone, Shut
  <2>4. CASE c = b
    <3>1. ~sentinel[b] BY <2>2, <2>4, <1>2 DEF Alone
    <3>2. sentinel'[b] => Shut(Head(queue[b]).events) BY <3>1, <1>0, <1>2
    <3>3. Shut(Head(queue[b]).events) => pc[v] = "stopped" /\ 1 = Len(queue[b])
      <4>1. 1 \in DOMAIN queue[b] BY <1>4
      <4> QED BY <4>1, <2>2, <2>4, <1>4, Zenon DEF Alone
    <3>4. sentinel'[b] => pc'[v] = "stopped" /\ queue'[b] = <<>>
      <4>1. 1 = Len(queue[b]) => queue'[b] = <<>>
        <5>1. queue'[b] \in Seq(Batches) BY <1>1, <1>4, <1>5
        <5>2. 1 = Len(queue[b]) => Len(queue'[b]) = 0 BY <1>5
        <5> HIDE DEF Batches
        <5> QED BY <5>1, <5>2, EmptyLength
      <4> QED BY <4>1, <3>2, <3>3, <1>2
    <3>5. ASSUME NEW i \in DOMAIN queue'[b], Shut(queue'[b][i].events)
          PROVE  pc'[v] = "stopped" /\ i = Len(queue'[b])
      <4>1. i \in 1..(Len(queue[b]) - 1) /\ queue'[b][i] = queue[b][i + 1] BY <1>5
      <4>2. i + 1 \in DOMAIN queue[b] BY <4>1, <1>4
      <4>3. pc[v] = "stopped" /\ i + 1 = Len(queue[b]) BY <4>1, <4>2, <3>5, <2>2, <2>4 DEF Alone
      <4> QED BY <4>1, <4>3, <1>2, <1>4, <1>5
    <3> QED BY <3>4, <3>5, <2>4 DEF Alone, Shut
  <2> QED BY <2>3, <2>4
<1>8. \A c \in Bindings : c \notin setup.bindings => queue'[c] = <<>>
  <2>1. b \in setup.bindings BY <1>2 DEF ClosingInv
  <2> QED BY <2>1, <1>3 DEF ClosingInv
<1>9. Faults' = Faults BY <1>2, SameSetup
<1>10. ASSUME NEW c \in setup.bindings, sentinel[c] PROVE sentinel'[c]
  <2>1. c \in Bindings BY DEF Bindings, CoreInv, CoreType
  <2>2. CASE c # b BY <2>1, <2>2, <1>3, <1>10
  <2>3. CASE c = b BY <2>3, <1>0, <1>2, <1>10
  <2> QED BY <2>2, <2>3
<1> QED BY <1>2, <1>7, <1>8, <1>9, <1>10 DEF ClosingInv

\* The steps of close() and the end of an environment keep it.
LEMMA ScriptCloses ==
    ASSUME CoreInv, RestType, ClosingInv, NEW b \in Bindings,
           StartJoin(b) \/ JoinWorker(b) \/ ClearMaps(b) \/ Close(b) \/ Teardown(b)
    PROVE  ClosingInv'
<1>1. setup \in Setups /\ queue \in [Bindings -> Seq(Batches)] /\ js \in [Bindings -> JsStates]
  BY DEF CoreInv, CoreType, RestType, JsStates
<1>2. /\ UNCHANGED <<setup, pc, sentinel>> /\ js[b] # "closed" /\ js[b] # "dead"
      /\ \E s \in JsStates : js' = [js EXCEPT ![b] = s]
  BY <1>1 DEF StartJoin, AwaitShutdown, JoinWorker, ClearMaps, Close, Teardown, worker, JsStates
<1>3. b \in setup.bindings BY <1>2 DEF ClosingInv
<1>4. \A c \in Bindings : c # b => js'[c] = js[c] BY <1>1, <1>2
<1>5. Faults' = Faults BY <1>2, SameSetup
<1>6. \A c \in Bindings : c \notin setup.bindings => queue[c] = <<>> /\ js[c] = "closed" BY DEF ClosingInv
<1>7. \A c \in setup.bindings : c \in Bindings BY <1>1 DEF Bindings
<1>8. CASE Teardown(b)
  <2>1. queue' = [queue EXCEPT ![b] = <<>>] /\ js'[b] = "dead" BY <1>1, <1>8 DEF Teardown
  <2>2. ASSUME NEW c \in setup.bindings, NEW v \in c, c = {v} PROVE Alone(c, v)'
    <3>1. c \in Bindings /\ Alone(c, v) BY <2>2, <1>7 DEF ClosingInv
    <3>2. CASE c = b
      <4>1. queue'[c] = <<>> BY <3>1, <3>2, <2>1, <1>1
      <4> QED BY <4>1, <3>1, <1>2 DEF Alone
    <3>3. CASE c # b
      <4>1. queue'[c] = queue[c] BY <3>1, <3>3, <2>1, <1>1
      <4> QED BY <4>1, <3>1, <1>2, Zenon DEF Alone, Shut
    <3> QED BY <3>2, <3>3
  <2>3. \A c \in Bindings : c \notin setup.bindings => queue'[c] = <<>> /\ js'[c] = "closed"
    BY <2>1, <1>1, <1>3, <1>4, <1>6
  <2>4. "timeout" \notin Faults =>
          \A c \in setup.bindings : js'[c] \in {"joining", "joined", "closed"} => sentinel[c]
    BY <2>1, <1>4, <1>7 DEF ClosingInv
  <2>5. \E c \in setup.bindings : js'[c] = "dead" BY <2>1, <1>3
  <2> QED BY <2>2, <2>3, <2>4, <2>5, <1>2, <1>5, ZenonT(30) DEF ClosingInv
<1>9. CASE StartJoin(b) \/ JoinWorker(b) \/ ClearMaps(b) \/ Close(b)
  <2>1. UNCHANGED <<queue, lost>> BY <1>9 DEF StartJoin, JoinWorker, ClearMaps, Close
  <2>2. \/ js[b] = "running" /\ js'[b] = "closing"
        \/ js[b] = "closing" /\ js'[b] = "joining" /\ (sentinel[b] \/ "timeout" \in Faults)
        \/ js[b] = "joining" /\ js'[b] = "joined"
        \/ js[b] = "joined" /\ js'[b] = "closed"
    BY <1>1, <1>9 DEF StartJoin, AwaitShutdown, JoinWorker, ClearMaps, Close
  <2>3. ASSUME NEW c \in setup.bindings, NEW v \in c, c = {v} PROVE Alone(c, v)'
    <3>1. Alone(c, v) BY <2>3 DEF ClosingInv
    <3> QED BY <3>1, <2>1, <1>2, ZenonT(30) DEF Alone, Shut
  <2>4. \A c \in Bindings : c \notin setup.bindings => queue'[c] = <<>> /\ js'[c] = "closed"
    BY <2>1, <1>3, <1>4, <1>6
  <2>5. ASSUME "timeout" \notin Faults, NEW c \in setup.bindings, js'[c] \in {"joining", "joined", "closed"}
        PROVE  sentinel[c]
    <3>1. CASE c # b BY <3>1, <2>5, <1>4, <1>7, Zenon DEF ClosingInv
    <3>2. CASE c = b BY <3>2, <2>2, <2>5 DEF ClosingInv
    <3> QED BY <3>1, <3>2
  <2>6. ASSUME NEW c \in setup.bindings, js[c] = "dead" PROVE js'[c] = "dead"
    BY <2>6, <1>2, <1>4, <1>7
  <2>7. lost' = 0 \/ \E c \in setup.bindings : js'[c] = "dead" BY <2>1, <2>6 DEF ClosingInv
  <2> QED BY <2>3, <2>4, <2>5, <2>7, <1>2, <1>5, ZenonT(30) DEF ClosingInv
<1> QED BY <1>8, <1>9

\* Every step keeps the closing part of the invariant.
LEMMA NextCloses == ASSUME Counting, CoreInv, RestType, ClosingInv, [Next]_vars PROVE ClosingInv'
<1>1. pc \in [Workers -> Labels] BY DEF CoreInv, CoreType
<1>2. ASSUME NEW w \in Workers, WorkerStep(w) \/ TimerFires(w) \/ EmitFails(w) \/ RuntimeError(w)
                                \/ SendCommand(w) \/ PacketArrives(w)
      PROVE  ClosingInv'
  <2>1. CASE Emit(w) BY <2>1, EmitCloses
  <2>2. CASE EnterPoll(w) \/ Woken(w) \/ TimerFires(w) \/ EmitFails(w)
    <3>1. /\ UNCHANGED <<setup, queue, js, sentinel, lost>> /\ pc[w] # "stopped"
          /\ \E p : pc' = [pc EXCEPT ![w] = p]
      BY <2>2 DEF EnterPoll, Woken, TimerFires, PollReturns, EmitFails, Goto, script
    <3>2. \A v \in Workers : pc[v] = "stopped" => pc'[v] = "stopped" BY <3>1, <1>1
    <3> QED BY <3>1, <3>2, ClosingStays
  <2>3. CASE SendCommand(w) \/ PacketArrives(w)
    BY <2>3, ClosingStays DEF SendCommand, PacketArrives, script
  <2>4. CASE \/ DispatchCommand(w) \/ ProcessPackets(w) \/ ProcessTimers(w) \/ PollAppEvents(w)
             \/ DrainsAndWrites(w) \/ CleanupClosed(w) \/ Deliver(w) \/ RuntimeError(w)
             \/ PushShutdownComplete(w)
    <3>1. Turns(w) BY <2>4, CollectingTurns
    <3>2. pc[w] # "stopped" /\ \E p : pc' = [pc EXCEPT ![w] = p] BY <3>1, ZenonT(30) DEF Turns, Turn
    <3>3. \A v \in Workers : pc[v] = "stopped" => pc'[v] = "stopped" BY <3>2, <1>1
    <3>4. UNCHANGED <<setup, queue, js, sentinel, lost>>
      BY <2>4, Zenon DEF DispatchCommand, ProcessPackets, ProcessTimers, PollAppEvents, DrainsAndWrites,
                  CleanupClosed, Deliver, RuntimeError, PushShutdownComplete, script
    <3> QED BY <3>3, <3>4, ClosingStays
  <2> QED BY <1>2, <2>1, <2>2, <2>3, <2>4 DEF WorkerStep
<1>3. ASSUME NEW b \in Bindings, ScriptStep(b) \/ Close(b) \/ Teardown(b) PROVE ClosingInv'
  BY <1>3, DispatchCloses, ScriptCloses DEF ScriptStep
<1>4. CASE ClockPasses BY <1>4, ClosingStays DEF ClockPasses, worker, script
<1>5. CASE UNCHANGED vars BY <1>5, ClosingStays DEF vars, worker, script
<1> QED BY <1>2, <1>3, <1>4, <1>5 DEF Next

-----------------------------------------------------------------------------
(* Received data is not left behind. *)

\* The only binding of a process whose calls into JavaScript do not fail.
Sole == "sink" \notin Faults /\ \E b : setup.bindings = {b}

\* The places from the end of poll_app_events to the driver.
After == {"drains", "cleanup", "deliver", "top", "poll"}

\* Worker w has polled its connections and some app events stay there.
Late(w) ==
    /\ pc[w] \in After \/ (pc[w] = "emit" /\ after[w] \in After)
    /\ ready[w] > 0 /\ js[Owner(w)] \in {"running", "closing"}

\* Something will bring w back to them: a signal, or events whose acknowledgement is one.
Pending(w) ==
    \/ wake[w] \/ packets[w] \/ pollNow[w] \/ batch[w] # <<>>
    \/ queue[Owner(w)] # <<>> \/ \E v \in Owner(w) : taken[v] # <<>>

StrandInv == Sole => \A w \in Present : Late(w) => Pending(w)

\* Worker w is on its way to next and the other workers are where they were.
Moved(w, next) ==
    /\ pc'[w] = next \/ (pc'[w] = "emit" /\ after'[w] = next)
    /\ \A v \in Workers : v # w => /\ pc'[v] = pc[v] /\ after'[v] = after[v]
                                   /\ batch'[v] = batch[v] /\ taken'[v] = taken[v]

\* A flush, and append_atomic, move one worker.
LEMMA FlushMoves ==
    ASSUME CoreType, NEW w \in Workers, NEW e \in Seq(Kinds), NEW rest \in Seq(Kinds), NEW next \in Labels,
           Flush(w, e, rest, next)
    PROVE  Moved(w, next) /\ taken'[w] = e
BY DEF CoreType, Flush, Goto, Moved

\* What was collected stays with the worker, in the batch or in what it hands over.
LEMMA AppendMoves ==
    ASSUME CoreType, NEW w \in Workers, NEW g \in Seq(Kinds), NEW next \in Labels, append_atomic(w, g, next)
    PROVE  /\ Moved(w, next)
           /\ batch[w] # <<>> \/ g # <<>> => batch'[w] # <<>> \/ taken'[w] # <<>>
<1>1. batch[w] \in Seq(Kinds) BY DEF CoreType
<1>2. CASE g # <<>> /\ batch[w] # <<>> /\ Len(batch[w]) + Len(g) > MaxBatch
  <2>1. Flush(w, batch[w], g, next) BY <1>2 DEF append_atomic
  <2> QED BY <1>1, <1>2, <2>1, FlushMoves
<1>3. CASE ~(g # <<>> /\ batch[w] # <<>> /\ Len(batch[w]) + Len(g) > MaxBatch)
  <2>1. /\ batch' = [batch EXCEPT ![w] = batch[w] \o g] /\ pc' = [pc EXCEPT ![w] = next]
        /\ UNCHANGED <<taken, after>>
    BY <1>3 DEF append_atomic, Goto
  <2>2. Moved(w, next) BY <2>1 DEF CoreType, Moved
  <2>3. batch'[w] = batch[w] \o g BY <2>1 DEF CoreType
  <2>4. batch[w] # <<>> \/ g # <<>> => batch[w] \o g # <<>>
    <3>1. Len(batch[w] \o g) = Len(batch[w]) + Len(g) /\ Len(batch[w]) \in Nat /\ Len(g) \in Nat BY <1>1
    <3>2. Len(batch[w]) = 0 => batch[w] = <<>> BY <1>1, EmptyLength
    <3>3. Len(g) = 0 => g = <<>> BY EmptyLength
    <3>4. Len(batch[w] \o g) # 0 => batch[w] \o g # <<>> OBVIOUS
    <3> QED BY <3>1, <3>2, <3>3, <3>4
  <2> QED BY <2>2, <2>3, <2>4
<1> QED BY <1>2, <1>3

\* A step of one worker that hands nothing over keeps the invariant when it does not
\* leave that worker late with nothing pending.
LEMMA StrandStep ==
    ASSUME CoreInv, StrandInv, NEW w \in Workers, NEW next \in Labels \ {"emit"}, Moved(w, next),
           taken[w] = <<>>, UNCHANGED <<setup, queue, js>>,
           \A v \in Workers : v # w => /\ ready'[v] = ready[v] /\ wake'[v] = wake[v]
                                       /\ packets'[v] = packets[v] /\ pollNow'[v] = pollNow[v],
           Sole /\ w \in Present /\ next \in After /\ ready'[w] > 0
                /\ js[Owner(w)] \in {"running", "closing"} => Pending(w)'
    PROVE  StrandInv'
<1>1. setup \in Setups BY DEF CoreInv, CoreType
<1>2. Present' = Present /\ Sole' = Sole BY ZenonT(30) DEF Present, Sole, Faults
<1>3. \A v : Owner(v)' = Owner(v) BY SameSetup
<1>4. ASSUME Sole, NEW v \in Present, Late(v)' PROVE Pending(v)'
  <2>1. v \in Workers /\ Owner(v) \in setup.bindings BY <1>1, OwnerFacts
  <2>2. CASE v = w BY <1>2, <1>3, <1>4, <2>2 DEF Late, Moved, After
  <2>3. CASE v # w
    <3>1. Late(v) BY <1>3, <1>4, <2>1, <2>3 DEF Late, Moved
    <3>2. Pending(v) BY <3>1, <1>4, Zenon DEF StrandInv
    <3>3. ASSUME NEW u \in Owner(v), taken[u] # <<>> PROVE taken'[u] # <<>>
      <4>1. u \in Workers /\ u # w BY <1>1, <2>1, <3>3, PresentFacts
      <4> QED BY <4>1, <3>3, ZenonT(30) DEF Moved
    <3> QED BY <3>2, <3>3, <1>3, <2>1, <2>3, ZenonT(30) DEF Pending, Moved
  <2> QED BY <2>2, <2>3
<1> QED BY <1>2, <1>4 DEF StrandInv

\* A worker that is already past poll_app_events keeps what is pending.
LEMMA LateStays ==
    ASSUME CoreInv, StrandInv, NEW w \in Workers, NEW next \in Labels \ {"emit"}, Moved(w, next), pc[w] \in After,
           UNCHANGED <<setup, queue, js, ready, wake, packets, pollNow>>,
           batch[w] # <<>> => batch'[w] # <<>> \/ taken'[w] # <<>>
    PROVE  StrandInv'
<1>1. setup \in Setups /\ taken[w] = <<>> BY ZenonT(30) DEF CoreInv, CoreType, Fits, After
<1>2. ASSUME Sole, w \in Present, ready'[w] > 0, js[Owner(w)] \in {"running", "closing"}
      PROVE  Pending(w)'
  <2>1. Owner(w)' = Owner(w) BY SameSetup
  <2>2. Pending(w) BY <1>2 DEF Late, StrandInv
  <2>3. w \in Owner(w) /\ Owner(w) \in setup.bindings BY <1>1, <1>2, OwnerFacts
  <2>4. ASSUME NEW u \in Owner(w), taken[u] # <<>> PROVE taken'[u] # <<>>
    <3>1. u \in Workers /\ u # w BY <1>1, <2>3, <2>4, PresentFacts
    <3> QED BY <3>1, <2>4 DEF Moved
  <2> QED BY <2>1, <2>2, <2>3, <2>4, ZenonT(30) DEF Pending
<1> QED BY <1>1, <1>2, StrandStep, ZenonT(30)

\* While the gauge is not zero and nothing was lost, some event is handed over or queued.
LEMMA SomethingWaits ==
    ASSUME Counting, CoreInv, ClosingInv, Gauge, lost = 0, outstanding > 0
    PROVE  (\E v \in Present : taken[v] # <<>>) \/ (\E b \in setup.bindings : queue[b] # <<>>)
<1> SUFFICES ASSUME \A v \in Present : taken[v] = <<>>, \A b \in setup.bindings : queue[b] = <<>> PROVE FALSE
  OBVIOUS
<1>1. \A v \in Workers : taken[v] = <<>> BY DEF CoreInv, Fits
<1>2. \A b \in Bindings : queue[b] = <<>> BY DEF ClosingInv
<1>3. Spread([v \in Workers |-> Places(taken[v], Kinds)]) = {} BY <1>1, NoPlaces DEF Spread
<1>4. Spread([b \in Bindings |-> Queued(queue[b], Kinds)]) = {} BY <1>2, NothingQueued DEF Spread
<1>5. Handed(Kinds) = 0 /\ Waiting(Kinds) = 0 BY <1>3, <1>4, EmptyCount, ZenonT(30) DEF Handed, Waiting
<1>6. outstanding <= 0 BY <1>5 DEF Gauge, Total
<1> QED BY <1>6 DEF CoreInv, CoreType

\* poll_app_events leaves app events behind only when the gauge or the batch is full.
LEMMA PollStrands ==
    ASSUME Counting, CoreInv, RestType, Gauge, ClosingInv, StrandInv, NEW w \in Workers, PollAppEvents(w)
    PROVE  StrandInv'
<1>1. /\ CoreType /\ setup \in Setups /\ batch[w] \in Seq(Kinds) /\ taken[w] = <<>> /\ ready[w] \in Nat
      /\ outstanding \in Nat
  BY DEF CoreInv, CoreType, RestType, Fits, PollAppEvents
<1>2. UNCHANGED <<setup, queue, js, wake, packets, pollNow>> BY DEF PollAppEvents, script
<1>3. PICK n \in 0..1, m \in Nat :
        /\ m <= n
        /\ ready' = [ready EXCEPT ![w] = ready[w] - collect_app_events(w, m)]
        /\ append_atomic(w, Copies("app", collect_app_events(w, m)) \o Copies("ctl", n), "drains")
  BY <1>1, PolledGroup, Zenon
<1> DEFINE k == collect_app_events(w, m)
           g == Copies("app", k) \o Copies("ctl", n)
<1>4. /\ app_event_budget(w) \in Nat /\ k \in Nat /\ n \in Nat
      /\ k = ready[w] \/ k + m >= app_event_budget(w)
  BY <1>1, BudgetRoom, CollectFacts
<1>5. g \in Seq(Kinds) /\ Len(g) = k + n
  <2>1. \A i \in Nat : Copies("app", i) \in Seq(Kinds) /\ Len(Copies("app", i)) = i BY DEF Copies, Kinds
  <2>2. \A i \in Nat : Copies("ctl", i) \in Seq(Kinds) /\ Len(Copies("ctl", i)) = i BY DEF Copies, Kinds
  <2> HIDE DEF k
  <2> QED BY <2>1, <2>2, <1>4
<1>6. MaxBatch \in Nat \ {0} /\ HighWater \in Nat \ {0} BY <1>1, SetupFacts
<1> HIDE DEF k, g
<1>7. /\ Moved(w, "drains")
      /\ batch[w] # <<>> \/ g # <<>> => batch'[w] # <<>> \/ taken'[w] # <<>>
  <2>1. "drains" \in Labels BY DEF Labels
  <2> QED BY <1>1, <1>3, <1>5, <2>1, AppendMoves DEF g, k
<1>8. ready'[w] = ready[w] - k /\ \A v \in Workers : v # w => ready'[v] = ready[v]
  BY <1>3 DEF RestType, k
<1>9. ASSUME Sole, w \in Present, ready'[w] > 0, js[Owner(w)] \in {"running", "closing"}
      PROVE  Pending(w)'
  <2>1. Owner(w)' = Owner(w) BY <1>2, SameSetup
  <2>2. w \in Owner(w) /\ Owner(w) \in setup.bindings BY <1>1, <1>9, OwnerFacts
  <2>3. k + n >= app_event_budget(w) BY <1>1, <1>3, <1>4, <1>8, <1>9
  <2>4. CASE outstanding >= HighWater
    <3>1. setup.bindings = {Owner(w)} BY <1>9, <2>2 DEF Sole
    <3>2. lost = 0 BY <1>9, <3>1 DEF ClosingInv
    <3>3. outstanding > 0 BY <2>4, <1>1, <1>6
    <3>4. (\E v \in Present : taken[v] # <<>>) \/ (\E b \in setup.bindings : queue[b] # <<>>)
      BY <3>2, <3>3, SomethingWaits
    <3>5. CASE \E b \in setup.bindings : queue[b] # <<>>
      BY <3>1, <3>5, <2>1, <1>2 DEF Pending
    <3>6. ASSUME NEW v \in Present, taken[v] # <<>> PROVE Pending(w)'
      <4>1. v \in Owner(w) /\ v # w /\ v \in Workers BY <3>1, <3>6, <1>1, OwnerFacts
      <4>2. taken'[v] # <<>> BY <4>1, <3>6, <1>7 DEF Moved
      <4> QED BY <4>1, <4>2, <2>1 DEF Pending
    <3> QED BY <3>4, <3>5, <3>6
  <2>5. CASE ~(outstanding >= HighWater)
    <3>1. k + n >= Minus(MaxBatch, Len(batch[w])) BY <2>3, <2>5 DEF app_event_budget
    <3>2. Len(batch[w]) \in Nat /\ (batch[w] = <<>> => Len(batch[w]) = 0) BY <1>1
    <3>3. batch[w] = <<>> => k + n > 0 BY <3>1, <3>2, <1>4, <1>6 DEF Minus
    <3>4. batch[w] # <<>> \/ g # <<>> BY <3>3, <1>4, <1>5
    <3>5. batch'[w] # <<>> \/ taken'[w] # <<>> BY <3>4, <1>7
    <3> QED BY <3>5, <2>1, <2>2 DEF Pending
  <2> QED BY <2>4, <2>5
<1>10. "drains" \in Labels \ {"emit"} BY DEF Labels
<1> QED BY <1>1, <1>2, <1>7, <1>8, <1>9, <1>10, StrandStep, Zenon

\* The worker's steps before poll_app_events, and those that end it, leave it elsewhere.
LEMMA EarlyStrands ==
    ASSUME CoreInv, RestType, StrandInv, NEW w \in Workers,
           \/ DispatchCommand(w) \/ ProcessPackets(w) \/ ProcessTimers(w) \/ PollReturns(w)
           \/ RuntimeError(w) \/ PushShutdownComplete(w)
    PROVE  StrandInv'
<1>1. /\ CoreType /\ setup \in Setups /\ batch[w] \in Seq(Kinds) /\ ready[w] \in Nat
      /\ \A v \in Workers : Fits(pc[v], after[v], taken[v], batch[v])
  BY DEF CoreInv, CoreType, RestType
<1>2. pc[w] # "emit" /\ UNCHANGED <<setup, queue, js>>
  BY ZenonT(30) DEF DispatchCommand, ProcessPackets, ProcessTimers, PollReturns, RuntimeError, PushShutdownComplete, script
<1>3. taken[w] = <<>> BY <1>1, <1>2, ZenonT(30) DEF Fits
<1>4. \A v \in Workers : v # w => /\ ready'[v] = ready[v] /\ wake'[v] = wake[v]
                                  /\ packets'[v] = packets[v] /\ pollNow'[v] = pollNow[v]
  BY ZenonT(30) DEF DispatchCommand, ProcessPackets, ProcessTimers, PollReturns, RuntimeError, PushShutdownComplete, RestType
<1>5. \E next \in {"commands", "sentinel", "timers", "app", "stopped"} : Moved(w, next)
  <2>0. /\ {"commands", "sentinel", "timers", "app", "stopped"} \subseteq Labels
        /\ <<>> \in Seq(Kinds) /\ <<"shutdown">> \in Seq(Kinds) /\ Append(batch[w], "ctl") \in Seq(Kinds)
    <3>1. {"commands", "sentinel", "timers", "app", "stopped"} \subseteq Labels BY DEF Labels
    <3>2. "ctl" \in Kinds /\ "shutdown" \in Kinds BY DEF Kinds
    <3> QED BY <3>1, <3>2, <1>1
  <2>1. CASE PollReturns(w) BY <1>1, <2>1 DEF PollReturns, Goto, Moved, CoreType
  <2>2. CASE RuntimeError(w)
    <3>1. Flush(w, Append(batch[w], "ctl"), <<>>, "sentinel") BY <2>2 DEF RuntimeError
    <3> QED BY <3>1, <2>0, <1>1, FlushMoves, ZenonT(30)
  <2>3. CASE PushShutdownComplete(w)
    <3>1. Flush(w, <<"shutdown">>, <<>>, "stopped") BY <2>3 DEF PushShutdownComplete
    <3> QED BY <3>1, <2>0, <1>1, FlushMoves, ZenonT(30)
  <2>4. \A n \in Nat : Copies("ctl", n) \in Seq(Kinds) BY DEF Copies, Kinds
  <2>5. CASE DispatchCommand(w)
    <3>1. CASE batch[w] = <<>> /\ Goto(w, "sentinel") /\ UNCHANGED <<batch, taken, after>>
      BY <1>1, <3>1 DEF Goto, Moved, CoreType
    <3>2. CASE Flush(w, batch[w], <<>>, "sentinel") BY <3>2, <2>0, <1>1, FlushMoves, ZenonT(30)
    <3>3. CASE \E n \in 0..1 : append_atomic(w, Copies("ctl", n), "commands")
      <4>1. PICK n \in 0..1 : append_atomic(w, Copies("ctl", n), "commands") BY <3>3
      <4>2. Copies("ctl", n) \in Seq(Kinds) BY <2>4
      <4> QED BY <4>1, <4>2, <2>0, <1>1, AppendMoves, Zenon
    <3> QED BY <2>5, <3>1, <3>2, <3>3, Zenon DEF DispatchCommand
  <2>6. CASE ProcessPackets(w)
    <3>0. setup.ctl \in Nat BY <1>1, SetupFacts
    <3>1. left[w].ctl \in Nat
      <4>1. left[w] \in [app : 0..setup.app, ctl : 0..setup.ctl, cmd : 0..setup.sends] BY DEF RestType
      <4> QED BY <3>0, <4>1
    <3>2. Lesser(1, left[w].ctl) \in Nat BY <3>1, LesserFacts, ZenonT(30)
    <3>3. \E n \in Nat : append_atomic(w, Copies("ctl", n), "timers") BY <2>6, <3>2 DEF ProcessPackets
    <3>4. PICK n \in Nat : append_atomic(w, Copies("ctl", n), "timers") BY <3>3
    <3>5. Copies("ctl", n) \in Seq(Kinds) BY <2>4
    <3> QED BY <3>4, <3>5, <2>0, <1>1, AppendMoves
  <2>7. CASE ProcessTimers(w)
    <3>1. \A k \in expire_timers(w) : k \in Nat BY <1>1, ExpireFacts
    <3>2. \E m \in Nat, n \in Nat : append_atomic(w, Copies("app", m) \o Copies("ctl", n), "app")
      BY <2>7, <3>1 DEF ProcessTimers
    <3>3. PICK m \in Nat, n \in Nat : append_atomic(w, Copies("app", m) \o Copies("ctl", n), "app") BY <3>2
    <3>4. Copies("app", m) \o Copies("ctl", n) \in Seq(Kinds) BY Groups DEF Group
    <3> QED BY <3>3, <3>4, <2>0, <1>1, AppendMoves, ZenonT(30)
  <2> QED BY <2>1, <2>2, <2>3, <2>5, <2>6, <2>7
<1>6. PICK next \in {"commands", "sentinel", "timers", "app", "stopped"} : Moved(w, next) BY <1>5
<1>7. next \in Labels \ {"emit"} /\ next \notin After BY DEF Labels, After
<1> QED BY <1>2, <1>3, <1>4, <1>6, <1>7, StrandStep

\* The steps after poll_app_events keep what is pending.
LEMMA LateStrands ==
    ASSUME CoreInv, StrandInv, NEW w \in Workers,
           DrainsAndWrites(w) \/ CleanupClosed(w) \/ Deliver(w) \/ EnterPoll(w)
    PROVE  StrandInv'
<1>1. CoreType /\ batch[w] \in Seq(Kinds) BY DEF CoreInv, CoreType
<1>2. pc[w] \in After /\ UNCHANGED <<setup, queue, js, ready, wake, packets, pollNow>>
  BY ZenonT(30) DEF DrainsAndWrites, CleanupClosed, Deliver, EnterPoll, script, After
<1>3. \E next \in {"cleanup", "deliver", "top", "sentinel", "poll"} :
        Moved(w, next) /\ (batch[w] # <<>> => batch'[w] # <<>> \/ taken'[w] # <<>>)
  <2>0. {"cleanup", "deliver", "top", "sentinel", "poll"} \subseteq Labels /\ <<>> \in Seq(Kinds) BY DEF Labels
  <2>1. \A n \in 0..1 : Copies("ctl", n) \in Seq(Kinds) BY DEF Copies, Kinds
  <2>2. CASE EnterPoll(w) BY <1>1, <2>2 DEF EnterPoll, Goto, Moved, CoreType
  <2>3. CASE DrainsAndWrites(w)
    <3>1. PICK n \in 0..1 : append_atomic(w, Copies("ctl", n), "cleanup") BY <2>3 DEF DrainsAndWrites
    <3> QED BY <3>1, <2>0, <2>1, <1>1, AppendMoves, ZenonT(30)
  <2>4. CASE CleanupClosed(w)
    <3>1. CASE Flush(w, batch[w], <<>>, "cleanup") BY <3>1, <2>0, <1>1, FlushMoves, ZenonT(30)
    <3>2. CASE \E n \in 0..1 : append_atomic(w, Copies("ctl", n), "deliver")
      <4>1. PICK n \in 0..1 : append_atomic(w, Copies("ctl", n), "deliver") BY <3>2
      <4> QED BY <4>1, <2>0, <2>1, <1>1, AppendMoves, Zenon
    <3> QED BY <2>4, <3>1, <3>2, ZenonT(30) DEF CleanupClosed
  <2>5. CASE Deliver(w)
    <3>1. PICK next \in {"top", "sentinel"} :
            IF batch[w] = <<>> THEN Goto(w, next) /\ UNCHANGED <<batch, taken, after>>
            ELSE Flush(w, batch[w], <<>>, next)
      BY <2>5 DEF Deliver
    <3>2. CASE batch[w] = <<>> BY <3>1, <3>2, <1>1 DEF Goto, Moved, CoreType
    <3>3. CASE batch[w] # <<>> BY <3>1, <3>3, <2>0, <1>1, FlushMoves, Zenon
    <3> QED BY <3>2, <3>3, Zenon
  <2> QED BY <2>2, <2>3, <2>4, <2>5, ZenonT(30)
<1>4. PICK next \in {"cleanup", "deliver", "top", "sentinel", "poll"} :
        Moved(w, next) /\ (batch[w] # <<>> => batch'[w] # <<>> \/ taken'[w] # <<>>)
  BY <1>3
<1>5. next \in Labels \ {"emit"} BY DEF Labels
<1> QED BY <1>2, <1>4, <1>5, LateStays, ZenonT(30)

\* A queue that something was appended to.
LEMMA AppendedIsThere == ASSUME NEW S, NEW q \in Seq(S), NEW m \in S PROVE Append(q, m) # <<>>
<1>1. Len(Append(q, m)) = Len(q) + 1 /\ Len(q) \in Nat OBVIOUS
<1>2. Len(q) + 1 # Len(<<>>) BY <1>1
<1> QED BY <1>1, <1>2

\* A batch that is handed over waits in the queue of its binding.
LEMMA EmitStrands ==
    ASSUME CoreInv, StrandInv, NEW w \in Workers, Emit(w) PROVE StrandInv'
<1>1. /\ setup \in Setups /\ pc \in [Workers -> Labels] /\ taken \in [Workers -> Seq(Kinds)]
      /\ queue \in [Bindings -> Seq(Batches)] /\ pc[w] = "emit"
  BY DEF CoreInv, CoreType, Emit
<1>2. w \in Present BY <1>1, ActiveIsPresent
<1>3. Owner(w) \in setup.bindings /\ w \in Owner(w) /\ Owner(w) \in Bindings BY <1>1, <1>2, OwnerFacts
<1>4. /\ taken' = [taken EXCEPT ![w] = <<>>] /\ UNCHANGED <<setup, ready, wake, packets, pollNow, batch, after, js>>
  BY Zenon DEF Emit
<1>5. Present' = Present /\ Sole' = Sole /\ \A v : Owner(v)' = Owner(v)
  BY <1>4, SameSetup, ZenonT(30) DEF Sole
<1>6. ASSUME NEW v \in Present, Sole, Late(v)' PROVE Pending(v)'
  <2>1. v \in Workers /\ Owner(v) = Owner(w)
    <3>1. Owner(v) \in setup.bindings /\ v \in Workers BY <1>1, OwnerFacts
    <3> QED BY <3>1, <1>3, <1>6 DEF Sole
  <2>2. js[Owner(w)] # "dead" BY <2>1, <1>4, <1>5, <1>6 DEF Late
  <2>3. queue'[Owner(w)] = Append(queue[Owner(w)], [from |-> w, events |-> taken[w]])
    BY <2>2, <1>1, <1>3 DEF Emit
  <2>4. queue'[Owner(v)] # <<>>
    <3>1. [from |-> w, events |-> taken[w]] \in Batches BY <1>1, Zenon DEF Batches
    <3>2. queue[Owner(w)] \in Seq(Batches) BY <1>1, <1>3
    <3>3. Append(queue[Owner(w)], [from |-> w, events |-> taken[w]]) # <<>> BY <3>1, <3>2, AppendedIsThere
    <3> QED BY <3>3, <2>1, <2>3
  <2> QED BY <2>4, <1>5, Zenon DEF Pending
<1> QED BY <1>5, <1>6 DEF StrandInv

\* An acknowledgement is a signal to every worker of the binding.
LEMMA DispatchStrands ==
    ASSUME CoreInv, StrandInv, NEW b \in Bindings, Dispatch(b) PROVE StrandInv'
<1>1. setup \in Setups /\ queue \in [Bindings -> Seq(Batches)] BY DEF CoreInv, CoreType
<1>2. /\ UNCHANGED <<setup, pc, after, ready, js, packets, pollNow, batch, taken>>
      /\ queue' = [queue EXCEPT ![b] = Tail(queue[b])]
      /\ IF js[b] \in {"running", "closing"} THEN WakeAll(b) ELSE UNCHANGED wake
  BY <1>1 DEF Dispatch
<1>3. Present' = Present /\ Sole' = Sole /\ \A v : Owner(v)' = Owner(v) BY <1>2, SameSetup DEF Sole
<1>4. ASSUME NEW v \in Present, Sole, Late(v)' PROVE Pending(v)'
  <2>1. Owner(v) \in Bindings /\ v \in Owner(v) /\ v \in Workers BY <1>1, OwnerFacts
  <2>2. Late(v) BY <1>2, <1>3, <1>4 DEF Late
  <2>3. Pending(v) BY <2>2, <1>4 DEF StrandInv
  <2>4. CASE Owner(v) = b
    <3>1. WakeAll(b) BY <2>2, <2>4, <1>2 DEF Late
    <3>2. wake'[v] BY <3>1, <2>1, <2>4, ZenonT(30) DEF WakeAll
    <3> QED BY <3>2 DEF Pending
  <2>5. CASE Owner(v) # b
    <3>1. queue'[Owner(v)] = queue[Owner(v)] BY <2>1, <2>5, <1>1, <1>2, ZenonT(30)
    <3>2. wake[v] => wake'[v] BY <1>2, <2>1, ZenonT(30) DEF WakeAll
    <3> QED BY <3>1, <3>2, <2>3, <1>2, <1>3, Zenon DEF Pending
  <2> QED BY <2>4, <2>5
<1> QED BY <1>3, <1>4 DEF StrandInv

\* Commands, packets and close() only add signals, and the end of a binding ends the duty.
LEMMA OtherStrands ==
    ASSUME CoreInv, RestType, StrandInv, UNCHANGED <<setup, pc, after, ready, pollNow, batch, taken>>,
           \A w \in Workers : (wake[w] => wake'[w]) /\ (packets[w] => packets'[w]),
           \A b \in Bindings : js'[b] \in {"running", "closing"} =>
                                  js[b] \in {"running", "closing"} /\ queue'[b] = queue[b]
    PROVE  StrandInv'
<1>1. setup \in Setups BY Zenon DEF CoreInv, CoreType
<1>2. Present' = Present /\ Sole' = Sole /\ \A v : Owner(v)' = Owner(v) BY SameSetup, Zenon DEF Sole
<1>3. ASSUME NEW v \in Present, Sole, Late(v)' PROVE Pending(v)'
  <2>1. Owner(v) \in Bindings /\ v \in Workers BY <1>1, OwnerFacts, ZenonT(30)
  <2>2. Late(v) /\ queue'[Owner(v)] = queue[Owner(v)] BY <2>1, <1>2, <1>3 DEF Late
  <2>3. Pending(v) BY <2>2, <1>3 DEF StrandInv
  <2> QED BY <2>1, <2>2, <2>3, <1>2, Zenon DEF Pending
<1> QED BY <1>2, <1>3, Zenon DEF StrandInv

\* Every step keeps the stranding part of the invariant.
LEMMA NextStrands ==
    ASSUME Counting, Part, RestType, ClosingInv, StrandInv, [Next]_vars PROVE StrandInv'
<1>1. CoreInv /\ Gauge BY DEF Part
<1>2. js \in [Bindings -> JsStates] /\ wake \in [Workers -> BOOLEAN] /\ packets \in [Workers -> BOOLEAN]
  BY DEF RestType, JsStates
<1>3. ASSUME NEW w \in Workers, WorkerStep(w) \/ TimerFires(w) \/ EmitFails(w) \/ RuntimeError(w)
                                \/ SendCommand(w) \/ PacketArrives(w)
      PROVE  StrandInv'
  <2>1. CASE Emit(w) BY <2>1, <1>1, EmitStrands
  <2>2. CASE PollAppEvents(w) BY <2>2, <1>1, PollStrands
  <2>3. CASE \/ DispatchCommand(w) \/ ProcessPackets(w) \/ ProcessTimers(w) \/ Woken(w) \/ TimerFires(w)
             \/ RuntimeError(w) \/ PushShutdownComplete(w)
    BY <2>3, <1>1, EarlyStrands, ZenonT(30) DEF Woken, TimerFires
  <2>4. CASE DrainsAndWrites(w) \/ CleanupClosed(w) \/ Deliver(w) \/ EnterPoll(w)
    BY <2>4, <1>1, LateStrands
  <2>5. CASE EmitFails(w)
    <3>1. ~Sole /\ UNCHANGED setup BY <2>5 DEF EmitFails, Sole, script
    <3>2. ~Sole' BY <3>1 DEF Sole, Faults
    <3> QED BY <3>2 DEF StrandInv
  <2>6. CASE SendCommand(w)
    <3>1. /\ UNCHANGED <<setup, pc, after, ready, pollNow, batch, taken, queue, js, packets>>
          /\ wake' = [wake EXCEPT ![w] = TRUE]
      BY <2>6 DEF SendCommand, script
    <3>2. \A v \in Workers : wake[v] => wake'[v] BY <3>1, <1>2
    <3> QED BY <3>1, <3>2, <1>1, OtherStrands
  <2>7. CASE PacketArrives(w)
    <3>1. /\ UNCHANGED <<setup, pc, after, ready, pollNow, batch, taken, queue, js, wake>>
          /\ packets' = [packets EXCEPT ![w] = TRUE]
      BY <2>7 DEF PacketArrives, script
    <3>2. \A v \in Workers : packets[v] => packets'[v] BY <3>1, <1>2
    <3> QED BY <3>1, <3>2, <1>1, OtherStrands
  <2> QED BY <1>3, <2>1, <2>2, <2>3, <2>4, <2>5, <2>6, <2>7 DEF WorkerStep
<1>4. ASSUME NEW b \in Bindings, ScriptStep(b) \/ Close(b) \/ Teardown(b) PROVE StrandInv'
  <2>1. CASE Dispatch(b) BY <2>1, <1>1, DispatchStrands
  <2>2. CASE StartJoin(b) \/ JoinWorker(b) \/ ClearMaps(b) \/ Close(b) \/ Teardown(b)
    <3>1. UNCHANGED <<setup, pc, after, ready, pollNow, batch, taken, packets>>
      BY <2>2, ZenonT(30) DEF StartJoin, JoinWorker, ClearMaps, Close, Teardown, worker
    <3>2. \A v \in Workers : wake[v] => wake'[v]
      BY <2>2, ZenonT(30) DEF StartJoin, JoinWorker, ClearMaps, Close, Teardown, worker, WakeAll
    <3>3. /\ \A c \in Bindings : c # b => js'[c] = js[c]
          /\ js'[b] \in {"running", "closing"} => js[b] \in {"running", "closing"}
      BY <2>2, <1>2 DEF StartJoin, JoinWorker, ClearMaps, Close, Teardown
    <3>4. /\ \A c \in Bindings : c # b => queue'[c] = queue[c]
          /\ js'[b] \in {"running", "closing"} => queue'[b] = queue[b]
      <4>1. queue \in [Bindings -> Seq(Batches)] BY <1>1 DEF CoreInv, CoreType
      <4>2. CASE Teardown(b) BY <4>1, <4>2, <1>2 DEF Teardown
      <4>3. CASE StartJoin(b) \/ JoinWorker(b) \/ ClearMaps(b) \/ Close(b)
        BY <4>3 DEF StartJoin, JoinWorker, ClearMaps, Close
      <4> QED BY <2>2, <4>2, <4>3, ZenonT(30)
    <3>5. \A c \in Bindings : js'[c] \in {"running", "closing"} =>
                                js[c] \in {"running", "closing"} /\ queue'[c] = queue[c]
      BY <3>3, <3>4
    <3> QED BY <3>1, <3>2, <3>5, <1>1, OtherStrands
  <2> QED BY <1>4, <2>1, <2>2 DEF ScriptStep
<1>5. CASE ClockPasses BY <1>1, <1>5, OtherStrands, ZenonT(30) DEF ClockPasses, worker, script
<1>6. CASE UNCHANGED vars BY <1>1, <1>6, OtherStrands, Zenon DEF vars, worker, script
<1> QED BY <1>3, <1>4, <1>5, <1>6 DEF Next
=============================================================================
