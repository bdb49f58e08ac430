----------------------------- MODULE TimerHeap -----------------------------
(***************************************************************************)
(* src/timer_heap.rs: the deadlines of the connections of a worker.  The   *)
(* binary heap keeps entries that are out of date; `deadlines` says which  *)
(* one counts, the loops of next_deadline and pop_expired skip the others, *)
(* and compaction throws them away when they are too many.  One action is  *)
(* one call, or one round of a call's loop.                                *)
(***************************************************************************)
EXTENDS Integers, FiniteSets, Functions

CONSTANTS
    Handles,    \* slab slots
    Times,      \* deadlines and clock readings
    NoDeadline, \* the handle is not in `deadlines`
    Factor,     \* 4
    Slack,      \* 32
    MaxCopies   \* bound: how often one deadline of one handle is in the heap

ASSUME TimerAssumption ==
    /\ Handles \subseteq Nat /\ Times \subseteq Nat /\ NoDeadline \notin Times
    /\ Factor \in Nat /\ Slack \in Nat /\ MaxCopies \in Nat

VARIABLES
    heap,      \* how often each (deadline, handle) is in the heap
    deadlines, \* handle -> the deadline that counts
    mode,      \* "idle", the loop that runs, or "popped" and "found" at its end
    now,       \* argument of pop_expired
    expired,   \* result of pop_expired: how often each handle is in it
    next,      \* result of next_deadline
    due        \* ghost: what was due when pop_expired was called

vars == <<heap, deadlines, mode, now, expired, next, due>>

Entries == Times \X Handles
Results == Times \cup {NoDeadline}

Init ==
    /\ heap = [e \in Entries |-> 0]
    /\ deadlines = [h \in Handles |-> NoDeadline]
    /\ mode = "idle" /\ now \in Times
    /\ expired = [h \in Handles |-> 0]
    /\ next = NoDeadline /\ due = {}

Idle == mode \in {"idle", "popped", "found"}

is_current_deadline(e) == deadlines[e[2]] = e[1]

Before(e, f) == e[1] < f[1] \/ (e[1] = f[1] /\ e[2] < f[2])

\* heap.peek()
IsTop(e) == heap[e] > 0 /\ \A f \in Entries : heap[f] > 0 => f = e \/ Before(e, f)
Empty == \A e \in Entries : heap[e] = 0

Pop(e) == heap' = [heap EXCEPT ![e] = @ - 1]

\* Mutant: compaction drops a current entry.
compact_DropsOne(pushed, counts) ==
    [e \in Entries |-> IF counts[e[2]] = e[1] THEN pushed[e] - 1 ELSE 0]

\* What compact() keeps of the entries in pushed.
compact(pushed, counts) ==
    [e \in Entries |-> IF counts[e[2]] = e[1] THEN pushed[e] ELSE 0]

Active(counts) == Cardinality({h \in Handles : counts[h] # NoDeadline})

maybe_compact(pushed, counts) ==
    IF SumFunction(pushed) > Active(counts) * Factor + Slack
    THEN compact(pushed, counts) ELSE pushed

schedule(h, d) ==
    /\ Idle /\ mode' = "idle" /\ heap[<<d, h>>] < MaxCopies
    /\ deadlines' = [deadlines EXCEPT ![h] = d]
    /\ heap' = maybe_compact([heap EXCEPT ![<<d, h>>] = @ + 1], deadlines')
    /\ UNCHANGED <<now, expired, next, due>>

remove_connection(h) ==
    /\ Idle /\ mode' = "idle"
    /\ deadlines' = [deadlines EXCEPT ![h] = NoDeadline]
    /\ heap' = maybe_compact(heap, deadlines')
    /\ UNCHANGED <<now, expired, next, due>>

set_deadline(h, d) == IF d = NoDeadline THEN remove_connection(h) ELSE schedule(h, d)

-----------------------------------------------------------------------------
(* pop_expired. *)

CallPop(t) ==
    /\ Idle /\ mode' = "pop" /\ now' = t
    /\ expired' = [h \in Handles |-> 0]
    /\ due' = {h \in Handles : deadlines[h] # NoDeadline /\ deadlines[h] <= t}
    /\ UNCHANGED <<heap, deadlines, next>>

PopStale(e) ==
    /\ mode = "pop" /\ IsTop(e) /\ ~is_current_deadline(e)
    /\ Pop(e)
    /\ UNCHANGED <<deadlines, mode, now, expired, next, due>>

\* Mutant: a popped deadline stays current.
PopDue_KeepsDeadline(e) ==
    /\ mode = "pop" /\ IsTop(e) /\ is_current_deadline(e) /\ e[1] <= now
    /\ Pop(e)
    /\ expired' = [expired EXCEPT ![e[2]] = @ + 1]
    /\ UNCHANGED <<deadlines, mode, now, next, due>>

PopDue(e) ==
    /\ mode = "pop" /\ IsTop(e) /\ is_current_deadline(e) /\ e[1] <= now
    /\ Pop(e)
    /\ deadlines' = [deadlines EXCEPT ![e[2]] = NoDeadline]
    /\ expired' = [expired EXCEPT ![e[2]] = @ + 1]
    /\ UNCHANGED <<mode, now, next, due>>

PopReturns ==
    /\ mode = "pop" /\ mode' = "popped"
    /\ Empty \/ \E e \in Entries : IsTop(e) /\ is_current_deadline(e) /\ e[1] > now
    /\ UNCHANGED <<heap, deadlines, now, expired, next, due>>

-----------------------------------------------------------------------------
(* next_deadline. *)

CallNext ==
    /\ Idle /\ mode' = "next"
    /\ UNCHANGED <<heap, deadlines, now, expired, next, due>>

NextStale(e) ==
    /\ mode = "next" /\ IsTop(e) /\ ~is_current_deadline(e)
    /\ Pop(e)
    /\ UNCHANGED <<deadlines, mode, now, expired, next, due>>

\* Mutant: a stale entry is taken for current.
NextReturns_AnyEntry ==
    /\ mode = "next" /\ mode' = "found"
    /\ \/ Empty /\ next' = NoDeadline
       \/ \E e \in Entries : IsTop(e) /\ next' = e[1]
    /\ UNCHANGED <<heap, deadlines, now, expired, due>>

NextReturns ==
    /\ mode = "next" /\ mode' = "found"
    /\ \/ Empty /\ next' = NoDeadline
       \/ \E e \in Entries : IsTop(e) /\ is_current_deadline(e) /\ next' = e[1]
    /\ UNCHANGED <<heap, deadlines, now, expired, due>>

-----------------------------------------------------------------------------

Next ==
    \/ \E h \in Handles, d \in Results : set_deadline(h, d)
    \/ \E t \in Times : CallPop(t)
    \/ \E e \in Entries : PopStale(e) \/ PopDue(e) \/ NextStale(e)
    \/ PopReturns \/ CallNext \/ NextReturns

Spec == Init /\ [][Next]_vars

-----------------------------------------------------------------------------
(* Properties. *)

\* The heap counts entries, the deadlines are deadlines.
TypeOK ==
    /\ heap \in [Entries -> Nat] /\ deadlines \in [Handles -> Results]
    /\ mode \in {"idle", "pop", "popped", "next", "found"} /\ now \in Times
    /\ expired \in [Handles -> Nat] /\ next \in Results /\ due \subseteq Handles

\* A deadline that counts is in the heap, whatever was rescheduled, removed and
\* compacted before: no timer is lost.
NoTimerLost ==
    \A h \in Handles : deadlines[h] # NoDeadline => heap[<<deadlines[h], h>>] > 0

\* pop_expired returns exactly the connections whose deadline has passed, each of
\* them once, though the heap may hold several entries for it.
PopExact ==
    mode = "popped" =>
        /\ \A h \in Handles : expired[h] = IF h \in due THEN 1 ELSE 0
        /\ \A h \in Handles : deadlines[h] # NoDeadline => deadlines[h] > now

\* next_deadline returns the earliest deadline that counts, so that the worker
\* neither oversleeps nor wakes for a timer that was moved.
NextIsEarliest ==
    mode = "found" =>
        /\ \A h \in Handles : deadlines[h] # NoDeadline => next # NoDeadline /\ next <= deadlines[h]
        /\ next # NoDeadline => \E h \in Handles : deadlines[h] = next

\* Entries that are out of date do not pile up.  (Copies of a deadline that counts
\* are never thrown away, so nothing bounds those.)
StaleBounded ==
    SumFunction([e \in Entries |-> IF is_current_deadline(e) THEN 0 ELSE heap[e]])
    <= Cardinality(Handles) * Factor + Slack
=============================================================================
