-------------------------- MODULE TimerHeapProofs --------------------------
(***************************************************************************)
(* That no timer is lost, that pop_expired and next_deadline return what   *)
(* they should, for every set of handles, every set of times, and every    *)
(* threshold of compaction.                                                *)
(*                                                                         *)
(* NoTimerLost carries the argument: the entry of a deadline that counts   *)
(* is in the heap, so the top entry, once it is one that counts, is the    *)
(* earliest.  PopProgress says how far the loop of pop_expired has come.   *)
(***************************************************************************)
EXTENDS TimerHeap, TLAPS

PopProgress ==
    mode = "pop" => \A h \in Handles :
        /\ expired[h] = IF h \in due /\ deadlines[h] = NoDeadline THEN 1 ELSE 0
        /\ h \in due => deadlines[h] = NoDeadline \/ deadlines[h] <= now
        /\ h \notin due => deadlines[h] = NoDeadline \/ deadlines[h] > now

IInv == TypeOK /\ NoTimerLost /\ PopProgress /\ PopExact /\ NextIsEarliest

\* compact() and maybe_compact() keep every entry that counts, and invent none.
LEMMA CompactKeeps ==
    ASSUME NEW pushed \in [Entries -> Nat], NEW counts \in [Handles -> Results]
    PROVE  /\ maybe_compact(pushed, counts) \in [Entries -> Nat]
           /\ \A e \in Entries : counts[e[2]] = e[1] => maybe_compact(pushed, counts)[e] = pushed[e]
BY DEF maybe_compact, compact, Entries

\* An entry names a time and a handle.
LEMMA EntryParts ==
    ASSUME NEW e \in Entries
    PROVE  e[1] \in Times /\ e[2] \in Handles /\ e[1] \in Nat /\ e[2] \in Nat /\ e = <<e[1], e[2]>>
<1>1. PICK t \in Times, h \in Handles : e = <<t, h>>
  BY DEF Entries
<1>2. e[1] = t /\ e[2] = h
  BY <1>1
<1> QED BY <1>1, <1>2, TimerAssumption

\* When the top entry counts, no deadline that counts is earlier.
LEMMA TopIsEarliest ==
    ASSUME TypeOK, NoTimerLost, NEW e \in Entries, IsTop(e), is_current_deadline(e),
           NEW h \in Handles, deadlines[h] # NoDeadline
    PROVE  deadlines[h] \in Nat /\ e[1] <= deadlines[h]
<1> DEFINE f == <<deadlines[h], h>>
<1>1. deadlines[h] \in Times /\ f \in Entries
  BY DEF TypeOK, Results, Entries
<1>2. heap[f] > 0
  BY DEF NoTimerLost
<1>3. f = e \/ Before(e, f)
  BY <1>1, <1>2 DEF IsTop
<1>4. f[1] = deadlines[h]
  OBVIOUS
<1>5. e[1] \in Nat /\ deadlines[h] \in Nat
  BY <1>1, EntryParts, TimerAssumption
<1>6. CASE f = e
  BY <1>6, <1>4, <1>5
<1>7. CASE Before(e, f)
  BY <1>7, <1>4, <1>5 DEF Before
<1> QED BY <1>3, <1>5, <1>6, <1>7

\* The heap of a new worker is empty.
LEMMA InitIInv == Init => IInv
BY TimerAssumption DEF Init, IInv, TypeOK, NoTimerLost, PopProgress, PopExact, NextIsEarliest, Results

\* Popping an entry leaves the deadlines that count in the heap, if it does not
\* count, or if its deadline is removed with it.
LEMMA PopKeeps ==
    ASSUME TypeOK, NoTimerLost, NEW e \in Entries, IsTop(e), Pop(e),
           \/ ~is_current_deadline(e) /\ deadlines' = deadlines
           \/ deadlines' = [deadlines EXCEPT ![e[2]] = NoDeadline]
    PROVE  NoTimerLost' /\ heap' \in [Entries -> Nat] /\ deadlines' \in [Handles -> Results]
<1>1. heap' \in [Entries -> Nat]
  BY DEF TypeOK, Pop, IsTop
<1>2. deadlines' \in [Handles -> Results]
  BY DEF TypeOK, Results
<1>3. ASSUME NEW h \in Handles, deadlines'[h] # NoDeadline
      PROVE  heap'[<<deadlines'[h], h>>] > 0
  <2>1. e[2] \in Handles /\ e = <<e[1], e[2]>>
    BY EntryParts
  <2>2. deadlines'[h] = deadlines[h]
    BY <1>3, <2>1 DEF TypeOK
  <2>3. <<deadlines[h], h>> # e
    <3>1. CASE ~is_current_deadline(e)
      BY <3>1 DEF is_current_deadline
    <3>2. CASE deadlines' = [deadlines EXCEPT ![e[2]] = NoDeadline]
      BY <3>2, <1>3, <2>1 DEF TypeOK
    <3> QED BY <3>1, <3>2
  <2>4. <<deadlines[h], h>> \in Entries
    BY <1>3, <2>2 DEF TypeOK, Results, Entries
  <2>5. heap[<<deadlines[h], h>>] > 0
    BY <1>3, <2>2 DEF NoTimerLost
  <2> QED BY <2>2, <2>3, <2>4, <2>5 DEF TypeOK, Pop
<1> QED BY <1>1, <1>2, <1>3 DEF NoTimerLost

\* Every call, and every round of a loop, preserves the invariant.
LEMMA NextIInv == IInv /\ [Next]_vars => IInv'
<1> SUFFICES ASSUME IInv, [Next]_vars PROVE IInv'
  OBVIOUS
<1> USE DEF IInv
<1>1. ASSUME NEW h \in Handles, NEW d \in Times, schedule(h, d) PROVE IInv'
  <2> DEFINE pushed == [heap EXCEPT ![<<d, h>>] = @ + 1]
  <2>1. <<d, h>> \in Entries /\ pushed \in [Entries -> Nat]
    BY DEF TypeOK, Entries
  <2>2. deadlines' \in [Handles -> Results] /\ heap' = maybe_compact(pushed, deadlines')
    BY <1>1 DEF schedule, TypeOK, Results
  <2>3. TypeOK'
    <3>1. maybe_compact(pushed, deadlines') \in [Entries -> Nat]
      BY <2>1, <2>2, CompactKeeps
    <3>2. heap' \in [Entries -> Nat]
      BY <2>2, <3>1
    <3> HIDE DEF pushed
    <3> QED BY <1>1, <2>2, <3>2 DEF schedule, TypeOK
  <2>4. ASSUME NEW g \in Handles, deadlines'[g] # NoDeadline
        PROVE  heap'[<<deadlines'[g], g>>] > 0
    <3> DEFINE e == <<deadlines'[g], g>>
    <3>1. e \in Entries /\ deadlines'[e[2]] = e[1]
      BY <2>2, <2>4 DEF Entries, Results
    <3>2. heap'[e] = pushed[e]
      BY <2>1, <2>2, <3>1, CompactKeeps
    <3>3. pushed[e] > 0
      <4>1. CASE g = h
        BY <4>1, <1>1, <2>1, <3>1 DEF schedule, TypeOK
      <4>2. CASE g # h
        <5>1. deadlines[g] = deadlines'[g] /\ e # <<d, h>>
          BY <4>2, <1>1 DEF schedule, TypeOK
        <5> QED BY <5>1, <2>4, <3>1 DEF NoTimerLost, TypeOK
      <4> QED BY <4>1, <4>2
    <3> QED BY <3>2, <3>3
  <2> QED BY <1>1, <2>3, <2>4 DEF schedule, NoTimerLost, PopProgress, PopExact, NextIsEarliest
<1>2. ASSUME NEW h \in Handles, remove_connection(h) PROVE IInv'
  <2>1. deadlines' \in [Handles -> Results] /\ heap' = maybe_compact(heap, deadlines')
    BY <1>2 DEF remove_connection, TypeOK, Results
  <2>2. TypeOK'
    <3>1. heap \in [Entries -> Nat] BY DEF TypeOK
    <3>2. heap' \in [Entries -> Nat] BY <2>1, <3>1, CompactKeeps
    <3>3. mode' = "idle" /\ UNCHANGED <<now, expired, next, due>> BY <1>2 DEF remove_connection
    <3> QED BY <2>1, <3>2, <3>3 DEF TypeOK
  <2>3. ASSUME NEW g \in Handles, deadlines'[g] # NoDeadline
        PROVE  heap'[<<deadlines'[g], g>>] > 0
    <3>1. deadlines[g] = deadlines'[g]
      BY <1>2, <2>3 DEF remove_connection, TypeOK
    <3>2. <<deadlines[g], g>> \in Entries
      BY <2>3, <3>1 DEF TypeOK, Results, Entries
    <3>3. heap'[<<deadlines[g], g>>] = heap[<<deadlines[g], g>>]
      BY <2>1, <3>1, <3>2, CompactKeeps DEF TypeOK
    <3> QED BY <2>3, <3>1, <3>3 DEF NoTimerLost
  <2> QED BY <1>2, <2>2, <2>3 DEF remove_connection, NoTimerLost, PopProgress, PopExact, NextIsEarliest
<1>3. ASSUME NEW t \in Times, CallPop(t) PROVE IInv'
  <2>1. t \in Nat /\ \A h \in Handles : deadlines[h] # NoDeadline => deadlines[h] \in Nat
    BY TimerAssumption DEF TypeOK, Results
  <2>2. TypeOK' /\ NoTimerLost'
    BY <1>3 DEF CallPop, TypeOK, NoTimerLost
  <2>3. PopProgress'
    BY <1>3, <2>1 DEF CallPop, PopProgress, TypeOK
  <2> QED BY <1>3, <2>2, <2>3 DEF CallPop, PopExact, NextIsEarliest
<1>4. ASSUME NEW e \in Entries, PopStale(e) PROVE IInv'
  <2>1. NoTimerLost' /\ TypeOK'
    BY <1>4, PopKeeps DEF PopStale, TypeOK
  <2> QED BY <1>4, <2>1 DEF PopStale, PopProgress, PopExact, NextIsEarliest
<1>5. ASSUME NEW e \in Entries, PopDue(e) PROVE IInv'
  <2>1. e[2] \in Handles /\ e[1] \in Nat /\ e[1] \in Times
    BY EntryParts
  <2>2. NoTimerLost' /\ TypeOK'
    <3>1. NoTimerLost' /\ heap' \in [Entries -> Nat] /\ deadlines' \in [Handles -> Results]
      BY <1>5, PopKeeps DEF PopDue
    <3>2. expired' \in [Handles -> Nat]
      BY <1>5, <2>1 DEF PopDue, TypeOK
    <3> QED BY <1>5, <3>1, <3>2 DEF PopDue, TypeOK
  <2>3. now \in Nat /\ deadlines[e[2]] = e[1] /\ e[1] # NoDeadline /\ e[1] <= now
    BY <1>5, <2>1, TimerAssumption DEF PopDue, is_current_deadline, TypeOK
  <2>4. e[2] \in due /\ expired[e[2]] = 0
    BY <1>5, <2>1, <2>3 DEF PopDue, PopProgress
  <2>5. PopProgress'
    BY <1>5, <2>1, <2>4 DEF PopDue, PopProgress, TypeOK
  <2> QED BY <1>5, <2>2, <2>5 DEF PopDue, PopExact, NextIsEarliest
<1>6. CASE PopReturns
  <2>1. TypeOK' /\ NoTimerLost'
    BY <1>6 DEF PopReturns, TypeOK, NoTimerLost
  <2>2. ASSUME NEW h \in Handles, deadlines[h] # NoDeadline PROVE deadlines[h] > now
    <3>1. <<deadlines[h], h>> \in Entries /\ heap[<<deadlines[h], h>>] > 0
      BY <2>2 DEF TypeOK, Results, Entries, NoTimerLost
    <3>2. PICK e \in Entries : IsTop(e) /\ is_current_deadline(e) /\ e[1] > now
      BY <1>6, <3>1 DEF PopReturns, Empty
    <3>3. deadlines[h] \in Nat /\ e[1] <= deadlines[h]
      BY <2>2, <3>2, TopIsEarliest
    <3> QED BY <3>2, <3>3, EntryParts, TimerAssumption DEF TypeOK
  <2>3. now \in Nat
    BY TimerAssumption DEF TypeOK
  <2>4. ASSUME NEW h \in Handles PROVE expired[h] = IF h \in due THEN 1 ELSE 0
    <3>1. deadlines[h] # NoDeadline => deadlines[h] \in Nat /\ deadlines[h] > now
      BY <2>2, TimerAssumption DEF TypeOK, Results
    <3> QED BY <1>6, <2>3, <3>1 DEF PopReturns, PopProgress
  <2> QED BY <1>6, <2>1, <2>2, <2>4 DEF PopReturns, PopProgress, PopExact, NextIsEarliest
<1>7. CASE CallNext
  BY <1>7 DEF CallNext, TypeOK, NoTimerLost, PopProgress, PopExact, NextIsEarliest
<1>8. ASSUME NEW e \in Entries, NextStale(e) PROVE IInv'
  <2>1. NoTimerLost' /\ TypeOK'
    BY <1>8, PopKeeps DEF NextStale, TypeOK
  <2> QED BY <1>8, <2>1 DEF NextStale, PopProgress, PopExact, NextIsEarliest
<1>9. CASE NextReturns
  <2>1. NoTimerLost' /\ PopProgress' /\ PopExact'
    BY <1>9 DEF NextReturns, NoTimerLost, PopProgress, PopExact
  <2>2. CASE Empty /\ next' = NoDeadline
    <3>1. ASSUME NEW h \in Handles PROVE deadlines[h] = NoDeadline
      <4>1. deadlines[h] # NoDeadline => <<deadlines[h], h>> \in Entries
        BY DEF TypeOK, Results, Entries
      <4> QED BY <2>2, <4>1 DEF Empty, NoTimerLost
    <3> QED BY <1>9, <2>1, <2>2, <3>1 DEF NextReturns, TypeOK, NextIsEarliest, Results
  <2>3. ASSUME NEW e \in Entries, IsTop(e), is_current_deadline(e), next' = e[1] PROVE IInv'
    <3>1. e[1] \in Times /\ e[2] \in Handles /\ e[1] # NoDeadline
      BY EntryParts, TimerAssumption
    <3>2. \A h \in Handles : deadlines[h] # NoDeadline => e[1] <= deadlines[h]
      BY <2>3, TopIsEarliest
    <3>3. deadlines[e[2]] = e[1]
      BY <2>3 DEF is_current_deadline
    <3> QED BY <1>9, <2>1, <2>3, <3>1, <3>2, <3>3 DEF NextReturns, TypeOK, NextIsEarliest, Results
  <2> QED BY <1>9, <2>2, <2>3 DEF NextReturns
<1>10. CASE UNCHANGED vars
  BY <1>10 DEF vars, TypeOK, NoTimerLost, PopProgress, PopExact, NextIsEarliest
<1>11. ASSUME NEW h \in Handles, NEW d \in Results, set_deadline(h, d) PROVE IInv'
  BY <1>1, <1>2, <1>11 DEF set_deadline, Results
<1> QED BY <1>3, <1>4, <1>5, <1>6, <1>7, <1>8, <1>9, <1>10, <1>11 DEF Next

\* The invariant holds in every state of a worker's timer heap.
LEMMA Invariant == Spec => []IInv
BY InitIInv, NextIInv, PTL DEF Spec

\* timer_heap.rs keeps its types, whatever is scheduled.
THEOREM TimerTypeCorrect == Spec => []TypeOK
BY Invariant, PTL DEF IInv

\* No deadline is lost to rescheduling, removal or compaction.
THEOREM TimersKept == Spec => []NoTimerLost
BY Invariant, PTL DEF IInv

\* pop_expired returns every due connection exactly once and no other.
THEOREM PopCorrect == Spec => []PopExact
BY Invariant, PTL DEF IInv

\* next_deadline returns the earliest deadline that counts.
THEOREM NextCorrect == Spec => []NextIsEarliest
BY Invariant, PTL DEF IInv
=============================================================================
