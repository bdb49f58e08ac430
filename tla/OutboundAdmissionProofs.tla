---------------------- MODULE OutboundAdmissionProofs ----------------------
(***************************************************************************)
(* Theorems about OutboundAdmission, for every set of writers, every set   *)
(* of payload sizes and every pair of watermarks.                          *)
(***************************************************************************)
EXTENDS OutboundAdmission, TLAPS

\* AdmissionWatermarks::new always yields 0 <= low < high.
LEMMA WatermarksOrdered ==
    high_water \in Nat \ {0} /\ low_water \in Nat /\ low_water < high_water
BY WatermarkAssumption DEF high_water, low_water

\* A payload of at least one unit that admit_next refuses is refused because
\* something is queued: an empty window takes any payload.
LEMMA RefusedOnlyWhenQueued ==
    ASSUME NEW c \in Nat, NEW u \in Nat, ~admit_next(c, u)
    PROVE  c > 0
BY WatermarksOrdered DEF admit_next, Limit

\* release_next is exact when no more is given back than is queued.
LEMMA ReleaseExact ==
    ASSUME NEW c \in Nat, NEW u \in 1..c
    PROVE  release_next(c, u) = c - u /\ release_next(c, u) \in Nat
BY DEF release_next

\* Units are counted in naturals, also outside a call.
LEMMA WantNat == TypeOK => \A w \in Writers : want[w] \in Nat
<1>1. \A u \in Units \cup {0} : u \in Nat
  <2> SUFFICES ASSUME NEW u \in Units PROVE u \in Nat
    OBVIOUS
  <2> QED
    BY UnitsAssumption
<1>2. TypeOK => \A w \in Writers : want[w] \in Units \cup {0}
  BY DEF TypeOK
<1> QED
  BY <1>1, <1>2

\* The inductive invariant under either memory model: what is counted, and which
\* sums an exchange may install.
Counted == TypeOK /\ WindowConserved /\ ExchangeApproved

\* Under sequential consistency also where the pressure of a refused writer is
\* recorded.
IInv == Counted /\ PressurePublished

\* OutboundAdmission::new establishes the invariant.
LEMMA InitIInv == Init => IInv
<1> SUFFICES ASSUME Init PROVE IInv
  OBVIOUS
<1>1. TypeOK
  BY DEF Init, TypeOK, WriterPC, WorkerPC
<1>2. WindowConserved
  BY DEF Init, WindowConserved
<1>3. PressurePublished
  BY DEF Init, PressurePublished, NoLostWakeup
<1>4. ExchangeApproved
  BY DEF Init, ExchangeApproved
<1> QED
  BY <1>1, <1>2, <1>3, <1>4 DEF IInv, Counted

\* Each step keeps the types; held stays a natural number because no release is
\* larger than what is held.
LEMMA StepTypeOK == TypeOK /\ WindowConserved /\ [BufferedNext]_vars => TypeOK'
<1> SUFFICES ASSUME TypeOK, WindowConserved, [BufferedNext]_vars PROVE TypeOK'
  OBVIOUS
<1> USE UnitsAssumption
        DEF TypeOK, WriterPC, WorkerPC, writerVars, workerVars
<1>1. ASSUME NEW w \in Writers, NEW u \in Units, BeginAdmit(w, u) PROVE TypeOK'
  BY <1>1 DEF BeginAdmit
<1>2. ASSUME NEW w \in Writers, LoadQueued(w) PROVE TypeOK'
  BY <1>2 DEF LoadQueued
<1>3. ASSUME NEW w \in Writers, AdmitExchange(w) PROVE TypeOK'
  <2>1. want[w] \in Nat
    BY WantNat
  <2> QED
    BY <1>3, <2>1 DEF AdmitExchange
<1>4. ASSUME NEW w \in Writers, StorePressured(w) PROVE TypeOK'
  BY <1>4 DEF StorePressured
<1>5. ASSUME NEW w \in Writers, DrainStore(w) PROVE TypeOK'
  BY <1>5 DEF DrainStore
<1>6. ASSUME NEW w \in Writers, Recheck(w) PROVE TypeOK'
  BY <1>6 DEF Recheck
<1>7. ASSUME NEW w \in Writers, ReturnBackpressured(w) PROVE TypeOK'
  BY <1>7 DEF ReturnBackpressured
<1>8. ASSUME NEW w \in Writers, DispatchWriteReady(w) PROVE TypeOK'
  BY <1>8 DEF DispatchWriteReady
<1>9. ASSUME NEW u \in 1..held, BeginRelease(u) PROVE TypeOK'
  BY <1>9 DEF BeginRelease
<1>10. CASE ReleaseLoad
  BY <1>10 DEF ReleaseLoad
<1>11. CASE ReleaseExchange
  <2>1. CASE queued = wseen
    <3>1. give \in 1..queued
      BY <1>11 DEF ReleaseExchange, WindowConserved
    <3>2. release_next(queued, give) \in Nat
      BY <3>1, ReleaseExact
    <3>3. held - give \in Nat
      BY <3>1 DEF WindowConserved
    <3> QED
      BY <1>11, <2>1, <3>2, <3>3 DEF ReleaseExchange
  <2>2. CASE queued # wseen
    BY <1>11, <2>2 DEF ReleaseExchange
  <2> QED
    BY <2>1, <2>2
<1>12. CASE ReleaseSwap
  BY <1>12 DEF ReleaseSwap
<1>13. CASE UNCHANGED vars
  BY <1>13 DEF vars
<1>14. ASSUME NEW w \in Writers, BufferPressured(w) PROVE TypeOK'
  BY <1>14 DEF BufferPressured
<1> QED
  BY <1>1, <1>2, <1>3, <1>4, <1>5, <1>6, <1>7, <1>8, <1>9, <1>10, <1>11, <1>12, <1>13, <1>14
  DEF BufferedNext, BufferStep, Next, WriterStep, TryAdmitStep, WorkerStep, ReleaseStep

\* Each step moves queued and held together, or neither.
LEMMA StepConserved == TypeOK /\ WindowConserved /\ [BufferedNext]_vars => WindowConserved'
<1> SUFFICES ASSUME TypeOK, WindowConserved, [BufferedNext]_vars PROVE WindowConserved'
  OBVIOUS
<1> USE DEF WindowConserved, writerVars, workerVars
<1>1. ASSUME NEW w \in Writers, AdmitExchange(w) PROVE WindowConserved'
  <2>1. want[w] \in Nat
    BY WantNat
  <2> QED
    BY <1>1, <2>1 DEF AdmitExchange, TypeOK
<1>2. ASSUME NEW w \in Writers, WriterStep(w), ~AdmitExchange(w) PROVE WindowConserved'
  BY <1>2 DEF WriterStep, TryAdmitStep, BeginAdmit, LoadQueued, StorePressured,
              Recheck, ReturnBackpressured, DispatchWriteReady
<1>3. ASSUME NEW u \in 1..held, BeginRelease(u) PROVE WindowConserved'
  BY <1>3 DEF BeginRelease
<1>4. CASE ReleaseLoad
  BY <1>4 DEF ReleaseLoad
<1>5. CASE ReleaseExchange
  <2>1. give \in 1..queued
    BY <1>5 DEF ReleaseExchange
  <2>2. release_next(queued, give) = queued - give
    BY <2>1, ReleaseExact DEF TypeOK
  <2> QED
    BY <1>5, <2>1, <2>2 DEF ReleaseExchange
<1>6. CASE ReleaseSwap
  BY <1>6 DEF ReleaseSwap
<1>7. ASSUME NEW w \in Writers, BufferStep(w) PROVE WindowConserved'
  BY <1>7 DEF BufferStep, BufferPressured, DrainStore
<1>8. CASE UNCHANGED vars
  BY <1>8 DEF vars
<1> QED
  BY <1>1, <1>2, <1>3, <1>4, <1>5, <1>6, <1>7, <1>8
  DEF BufferedNext, Next, WorkerStep, ReleaseStep

\* A writer gets to its exchange only through a sum admit_next approved.
LEMMA StepApproved == TypeOK /\ ExchangeApproved /\ [BufferedNext]_vars => ExchangeApproved'
<1> SUFFICES ASSUME TypeOK, ExchangeApproved, [BufferedNext]_vars PROVE ExchangeApproved'
  OBVIOUS
<1> USE DEF ExchangeApproved, TypeOK, writerVars, workerVars
<1>1. ASSUME NEW w \in Writers, WriterStep(w) PROVE ExchangeApproved'
  BY <1>1 DEF WriterStep, TryAdmitStep, BeginAdmit, LoadQueued, AdmitExchange, StorePressured,
              Recheck, ReturnBackpressured, DispatchWriteReady
<1>2. CASE WorkerStep
  BY <1>2 DEF WorkerStep, ReleaseStep, BeginRelease, ReleaseLoad, ReleaseExchange, ReleaseSwap
<1>3. ASSUME NEW w \in Writers, BufferStep(w) PROVE ExchangeApproved'
  BY <1>3 DEF BufferStep, BufferPressured, DrainStore
<1>4. CASE UNCHANGED vars
  BY <1>4 DEF vars
<1> QED
  BY <1>1, <1>2, <1>3, <1>4 DEF BufferedNext, Next

\* Without a store buffer, a published flag stays up until the swap of a release
\* turns it into an event, and a release that will do so is still to come.
LEMMA StepPressure ==
    TypeOK /\ WindowConserved /\ PressurePublished /\ [Next]_vars => PressurePublished'
<1> SUFFICES ASSUME TypeOK, WindowConserved, PressurePublished, [Next]_vars
             PROVE  PressurePublished'
  OBVIOUS
<1> DEFINE Published == \A w \in Writers : pc[w] = "recheck" => w \in ready \/ pressured
<1>0. Published /\ NoLostWakeup
  BY DEF PressurePublished
<1> SUFFICES Published' /\ NoLostWakeup'
  BY DEF PressurePublished
<1> USE <1>0 DEF NoLostWakeup, writerVars, workerVars
<1>1. ASSUME NEW w \in Writers, NEW u \in Units, BeginAdmit(w, u)
      PROVE  Published' /\ NoLostWakeup'
  BY <1>1 DEF BeginAdmit, TypeOK
<1>2. ASSUME NEW w \in Writers, LoadQueued(w)
      PROVE  Published' /\ NoLostWakeup'
  BY <1>2 DEF LoadQueued, TypeOK
<1>3. ASSUME NEW w \in Writers, AdmitExchange(w)
      PROVE  Published' /\ NoLostWakeup'
  <2>1. want[w] \in Nat /\ queued \in Nat
    BY WantNat DEF TypeOK
  <2>2. queued > 0 => queued' > 0
    BY <1>3, <2>1 DEF AdmitExchange
  <2> QED
    BY <1>3, <2>2 DEF AdmitExchange, TypeOK
<1>4. ASSUME NEW w \in Writers, StorePressured(w)
      PROVE  Published' /\ NoLostWakeup'
  BY <1>4 DEF StorePressured, TypeOK
\* The writer that gives up saw something queued (an empty window takes any
\* payload), so a release is still owed and will find the flag.
<1>5. ASSUME NEW w \in Writers, Recheck(w)
      PROVE  Published' /\ NoLostWakeup'
  <2>1. ~admit_next(queued, want[w]) => queued > 0
    BY RefusedOnlyWhenQueued, WantNat DEF TypeOK
  <2> QED
    BY <1>5, <2>1 DEF Recheck, TypeOK
<1>6. ASSUME NEW w \in Writers, ReturnBackpressured(w)
      PROVE  Published' /\ NoLostWakeup'
  BY <1>6 DEF ReturnBackpressured, TypeOK
<1>7. ASSUME NEW w \in Writers, DispatchWriteReady(w)
      PROVE  Published' /\ NoLostWakeup'
  BY <1>7 DEF DispatchWriteReady, TypeOK
<1>8. ASSUME NEW u \in 1..held, BeginRelease(u)
      PROVE  Published' /\ NoLostWakeup'
  BY <1>8 DEF BeginRelease
<1>9. CASE ReleaseLoad
  BY <1>9 DEF ReleaseLoad
\* A release that leaves the queue above the low watermark leaves something
\* queued; one that does not goes on to the swap.
<1>10. CASE ReleaseExchange
  <2>1. CASE queued = wseen
    <3>1. queued' = release_next(queued, give) /\ release_next(queued, give) \in Nat
      BY <1>10, <2>1, ReleaseExact DEF ReleaseExchange, WindowConserved, TypeOK
    <3>2. queued' > 0 \/ wpc' = "swap"
      BY <1>10, <2>1, <3>1, WatermarksOrdered DEF ReleaseExchange
    <3> QED
      BY <1>10, <3>2 DEF ReleaseExchange
  <2>2. CASE queued # wseen
    BY <1>10, <2>2 DEF ReleaseExchange
  <2> QED
    BY <2>1, <2>2
\* The swap takes the flag down only by sending every writer an event.
<1>11. CASE ReleaseSwap
  BY <1>11 DEF ReleaseSwap, TypeOK
<1>12. CASE UNCHANGED vars
  BY <1>12 DEF vars
<1> QED
  BY <1>1, <1>2, <1>3, <1>4, <1>5, <1>6, <1>7, <1>8, <1>9, <1>10, <1>11, <1>12
  DEF Next, WriterStep, TryAdmitStep, WorkerStep, ReleaseStep

-----------------------------------------------------------------------------
\* Every sequentially consistent behaviour is one the store buffer allows.
LEMMA BufferedAllowsAll == SafeSpec => BufferedSpec
<1>1. [Next]_vars => [BufferedNext]_vars
  BY DEF BufferedNext
<1> QED
  BY <1>1, PTL DEF SafeSpec, BufferedSpec

\* What is counted stays right in every state, under either memory model.
LEMMA CountedInvariant == BufferedSpec => []Counted
<1>1. Init => Counted
  BY InitIInv DEF IInv
<1>2. Counted /\ [BufferedNext]_vars => Counted'
  BY StepTypeOK, StepConserved, StepApproved DEF Counted
<1> QED
  BY <1>1, <1>2, PTL DEF BufferedSpec

\* Under sequential consistency pressure stays recorded too.
LEMMA IInvInvariant == SafeSpec => []IInv
<1>1. Init => PressurePublished
  BY InitIInv DEF IInv
<1>2. Counted /\ PressurePublished /\ [Next]_vars => PressurePublished'
  BY StepPressure DEF Counted
<1>3. SafeSpec => []Counted
  BY BufferedAllowsAll, CountedInvariant, PTL
<1> QED
  BY <1>1, <1>2, <1>3, PTL DEF SafeSpec, IInv

\* Type correctness of the window, the try_admit calls and the release call.
THEOREM TypeCorrect == BufferedSpec => []TypeOK
BY CountedInvariant, PTL DEF Counted

\* Under either memory model, no interleaving of try_admit and release loses
\* or invents a unit (compare_exchange loops of outbound_admission.rs).
THEOREM Conservation == BufferedSpec => []WindowConserved
BY CountedInvariant, PTL DEF Counted

\* Under sequential consistency, no interleaving strands a refused writer: the
\* store-then-re-check of try_admit and the exchange-then-swap of release
\* cannot miss each other.
THEOREM Wakeup == SafeSpec => []NoLostWakeup
<1>1. IInv => NoLostWakeup
  BY DEF IInv, PressurePublished
<1> QED
  BY IInvInvariant, <1>1, PTL

-----------------------------------------------------------------------------
\* What a step does to the window: an approved admission into it, an exact
\* release from it, or nothing.
LEMMA QueuedStep ==
    ASSUME Counted, [BufferedNext]_vars
    PROVE  \/ \E w \in Writers : /\ pc[w] = "cas" /\ admit_next(queued, want[w])
                                 /\ queued' = queued + want[w]
                                 /\ pc' = [pc EXCEPT ![w] = "idle"]
           \/ \E u \in 1..queued : queued' = queued - u /\ pc' = pc
           \/ queued' = queued
<1> USE DEF Counted, writerVars, workerVars
<1>1. ASSUME NEW w \in Writers, AdmitExchange(w), queued = seen[w]
      PROVE  /\ pc[w] = "cas" /\ admit_next(queued, want[w])
             /\ queued' = queued + want[w]
             /\ pc' = [pc EXCEPT ![w] = "idle"]
  BY <1>1 DEF AdmitExchange, ExchangeApproved
<1>2. ASSUME NEW w \in Writers, WriterStep(w), ~AdmitExchange(w) PROVE queued' = queued
  BY <1>2 DEF WriterStep, TryAdmitStep, BeginAdmit, LoadQueued, StorePressured,
              Recheck, ReturnBackpressured, DispatchWriteReady
<1>3. ASSUME NEW w \in Writers, AdmitExchange(w), queued # seen[w] PROVE queued' = queued
  BY <1>3 DEF AdmitExchange
<1>4. CASE ReleaseExchange /\ queued = wseen
  <2>1. give \in 1..queued
    BY <1>4 DEF ReleaseExchange, WindowConserved
  <2>2. queued' = queued - give /\ pc' = pc
    BY <1>4, <2>1, ReleaseExact DEF ReleaseExchange, TypeOK
  <2> QED
    BY <2>1, <2>2
<1>5. CASE WorkerStep /\ ~(ReleaseExchange /\ queued = wseen)
  BY <1>5 DEF WorkerStep, ReleaseStep, BeginRelease, ReleaseLoad, ReleaseExchange, ReleaseSwap
<1>6. ASSUME NEW w \in Writers, BufferStep(w) PROVE queued' = queued
  BY <1>6 DEF BufferStep, BufferPressured, DrainStore
<1>7. CASE UNCHANGED vars
  BY <1>7 DEF vars
<1> QED
  BY <1>1, <1>2, <1>3, <1>4, <1>5, <1>6, <1>7 DEF BufferedNext, Next

\* A payload larger than the window enters only an empty window, even when the
\* exchange succeeds on a value that was read long before.
THEOREM OversizedAlone == BufferedSpec => OversizedOnlyWhenEmpty
<1>1. ASSUME Counted, [BufferedNext]_vars
      PROVE  queued' > queued /\ queued' > high_water => queued = 0
  <2>1. queued \in Nat
    BY <1>1 DEF Counted, TypeOK
  <2>2. ASSUME NEW w \in Writers, admit_next(queued, want[w]), queued' = queued + want[w],
               queued' > high_water
        PROVE  queued = 0
    <3>1. want[w] \in Nat
      BY <1>1, WantNat DEF Counted
    <3> QED
      BY <2>1, <2>2, <3>1, WatermarksOrdered DEF admit_next, Limit
  <2>3. ASSUME NEW u \in 1..queued, queued' = queued - u PROVE ~(queued' > queued)
    BY <2>1, <2>3
  <2> QED
    BY <1>1, <2>1, <2>2, <2>3, QueuedStep
<1> QED
  BY <1>1, CountedInvariant, PTL DEF BufferedSpec, OversizedOnlyWhenEmpty

\* The atomics implement the one-step window (its safety part): every step of
\* try_admit and release is an Admit, a Refuse, a Release, a Wake or nothing.
THEOREM Refinement == BufferedSpec => Window!SafeSpec
<1>1. Init => Window!Init
  BY DEF Init, Window!Init, Refused
<1>2. ASSUME Counted, [BufferedNext]_vars PROVE [Window!Next]_Window!vars
  <2> USE DEF Window!admit_next, Window!Limit, Window!high_water
  <2>1. ASSUME NEW w \in Writers, AdmitExchange(w) PROVE [Window!Next]_Window!vars
    <3>1. CASE queued = seen[w]
      <4>1. w \notin Refused /\ Refused' = Refused
        BY <1>2, <2>1 DEF AdmitExchange, Refused, Counted, TypeOK
      <4>2. want[w] \in Units
        BY <1>2, <2>1 DEF AdmitExchange, Counted, TypeOK
      <4>3. admit_next(queued, want[w]) /\ queued' = queued + want[w]
        BY <1>2, <2>1, <3>1 DEF AdmitExchange, Counted, ExchangeApproved
      <4> QED
        BY <4>1, <4>2, <4>3
        DEF Window!Next, Window!Admit, admit_next, Limit, high_water
    <3>2. CASE queued # seen[w]
      BY <1>2, <2>1, <3>2 DEF AdmitExchange, Refused, Counted, TypeOK, Window!vars
    <3> QED
      BY <3>1, <3>2
  <2>2. ASSUME NEW w \in Writers, Recheck(w) PROVE [Window!Next]_Window!vars
    <3>1. queued' = queued /\ want[w] \in Units
      BY <1>2, <2>2 DEF Recheck, Counted, TypeOK
    <3>2. CASE admit_next(queued, want[w])
      BY <1>2, <2>2, <3>1, <3>2 DEF Recheck, Refused, Counted, TypeOK, Window!vars
    <3>3. CASE ~admit_next(queued, want[w])
      <4>1. w \notin Refused /\ Refused' = Refused \cup {w}
        BY <1>2, <2>2, <3>3 DEF Recheck, Refused, Counted, TypeOK
      <4> QED
        BY <3>1, <3>3, <4>1 DEF Window!Next, Window!Refuse, admit_next, Limit, high_water
    <3> QED
      BY <3>2, <3>3
  <2>3. ASSUME NEW w \in Writers, DispatchWriteReady(w) PROVE [Window!Next]_Window!vars
    <3>1. queued' = queued
      BY <2>3 DEF DispatchWriteReady
    <3>2. CASE pc[w] = "waiting"
      <4>1. w \in Refused /\ Refused' = Refused \ {w}
        BY <1>2, <2>3, <3>2 DEF DispatchWriteReady, Refused, Counted, TypeOK
      <4> QED
        BY <3>1, <4>1 DEF Window!Next, Window!Wake
    <3>3. CASE pc[w] = "idle"
      BY <1>2, <2>3, <3>1, <3>3 DEF DispatchWriteReady, Refused, Counted, TypeOK, Window!vars
    <3> QED
      BY <2>3, <3>2, <3>3 DEF DispatchWriteReady
  <2>4. ASSUME NEW w \in Writers, WriterStep(w), ~AdmitExchange(w), ~Recheck(w),
               ~DispatchWriteReady(w)
        PROVE  UNCHANGED Window!vars
    BY <1>2, <2>4
    DEF WriterStep, TryAdmitStep, BeginAdmit, LoadQueued, StorePressured,
        ReturnBackpressured, Refused, Counted, TypeOK, Window!vars
  <2>5. CASE ReleaseExchange /\ queued = wseen
    <3>1. give \in 1..queued
      BY <1>2, <2>5 DEF ReleaseExchange, Counted, WindowConserved
    <3>2. queued' = queued - give
      BY <1>2, <2>5, <3>1, ReleaseExact DEF ReleaseExchange, Counted, TypeOK
    <3>3. Refused' = Refused
      BY <2>5 DEF ReleaseExchange, Refused, writerVars
    <3> QED
      BY <3>1, <3>2, <3>3 DEF Window!Next, Window!Release
  <2>6. CASE WorkerStep /\ ~(ReleaseExchange /\ queued = wseen)
    BY <2>6
    DEF WorkerStep, ReleaseStep, BeginRelease, ReleaseLoad, ReleaseExchange, ReleaseSwap,
        Refused, writerVars, Window!vars
  <2>7. ASSUME NEW w \in Writers, BufferStep(w) PROVE UNCHANGED Window!vars
    BY <1>2, <2>7
    DEF BufferStep, BufferPressured, DrainStore, Refused, Counted, TypeOK, Window!vars
  <2>8. CASE UNCHANGED vars
    BY <2>8 DEF vars, writerVars, Refused, Window!vars
  <2> QED
    BY <1>2, <2>1, <2>2, <2>3, <2>4, <2>5, <2>6, <2>7, <2>8 DEF BufferedNext, Next
<1> QED
  BY <1>1, <1>2, CountedInvariant, PTL DEF BufferedSpec, Window!SafeSpec
=============================================================================
