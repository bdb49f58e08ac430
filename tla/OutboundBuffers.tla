--------------------------- MODULE OutboundBuffers ---------------------------
(***************************************************************************)
(* The life of the memory behind outbound payloads: chunk_pool.rs and      *)
(* arc_buf.rs.  A call into the addon copies the JavaScript buffer into    *)
(* memory of a ChunkPool and owns it as a Chunk; the worker turns the      *)
(* Chunk into an ArcBuf, which quiche clones, splits and prefixes with a   *)
(* frame header without copying; when the last handle is dropped, on       *)
(* whatever thread, the memory is sent back and the next call may use it.  *)
(*                                                                         *)
(* An allocation is an element of Buffers, free while its capacity is 0.   *)
(* The vectors of a bin and the return channel are sets: which buffer of   *)
(* a bin is popped, and in which order the channel is drained, is left     *)
(* open.  An empty chunk touches no pool, so no length is 0.               *)
(***************************************************************************)
EXTENDS SizeClasses, FiniteSets

CONSTANTS
    Buffers, Handles,
    None,            \* no buffer
    Classes,         \* CHUNK_CLASSES
    SmallClass,      \* the largest class kept up to max_per_bin: 4096
    MaxPerBin,       \* max_per_bin
    ReturnCapacity,  \* total_capacity of the return channel
    MaxLen,          \* longest payload (bound)
    Payloads         \* what the bytes of a payload may be; 0 is a header byte

VARIABLES
    bins,      \* ChunkPool.bins
    returned,  \* buffers in the return channel
    capacity,  \* Vec::capacity of every buffer
    data,      \* its bytes
    handles    \* Chunk or ArcBuf: the buffer and the window off+1 .. off+len;
               \* ghost `want': the bytes its owner put there, by position

vars == <<bins, returned, capacity, data, handles>>

Bins == 1 .. Len(Classes)
Positions == 1 .. MaxLen
Bytes == Payloads \cup {0}

Dropped == [buf |-> None, arc |-> FALSE, off |-> 0, len |-> 0, want |-> [p \in Positions |-> 0]]
Window(h) == handles[h].off + 1 .. handles[h].off + handles[h].len
Owners(b) == {h \in Handles : handles[h].buf = b}

\* max_entries_for_bin: large classes keep an eighth, and at least one.
max_entries_for_bin(i) ==
    IF Classes[i] <= SmallClass THEN MaxPerBin
    ELSE IF MaxPerBin \div 8 = 0 THEN 1 ELSE MaxPerBin \div 8

Init ==
    /\ bins = [i \in Bins |-> {}] /\ returned = {}
    /\ capacity = [b \in Buffers |-> 0]
    /\ data = [b \in Buffers |-> [p \in Positions |-> 0]]
    /\ handles = [h \in Handles |-> Dropped]

-----------------------------------------------------------------------------
(* The pool, behind the mutex of ChunkPoolIngress *)

\* checkin of everything in the channel keeps `kept' and drops the rest: each
\* bin takes what it has room for.
checkin(kept) ==
    /\ kept \subseteq {b \in returned : bin_for_cap(Classes, capacity[b]) # 0}
    /\ \A i \in Bins :
          LET mine == {b \in returned : bin_for_cap(Classes, capacity[b]) = i}
              room == max_entries_for_bin(i) - Cardinality(bins[i])
          IN  Cardinality(kept \cap mine) = IF Cardinality(mine) <= room THEN Cardinality(mine) ELSE room

\* drain_returned: the bins afterwards.
drain_returned(kept) ==
    [i \in Bins |-> bins[i] \cup {b \in kept : bin_for_cap(Classes, capacity[b]) = i}]

\* copy_napi_buffer takes buffer b for a payload: it is written from the start.
Lend(h, b, len, payload) ==
    LET bytes == [p \in Positions |-> IF p <= len THEN payload ELSE 0]
    IN  /\ data' = [data EXCEPT ![b] = bytes]
        /\ handles' = [handles EXCEPT ![h] =
                          [buf |-> b, arc |-> FALSE, off |-> 0, len |-> len, want |-> bytes]]

\* copy_napi_buffer: drain the channel, then checkout_copy from the first bin at
\* or above the class of len that has a buffer, or from a fresh allocation.
copy_napi_buffer(h, len, payload) ==
    /\ handles[h] = Dropped
    /\ \E kept \in SUBSET returned :
          LET pool == drain_returned(kept)
              bin == bin_for(Classes, len)
              usable == {i \in Bins : bin # 0 /\ i >= bin /\ pool[i] # {}}
              left == [b \in Buffers |-> IF b \in returned \ kept THEN 0 ELSE capacity[b]]
          IN  /\ checkin(kept)
              /\ \/ /\ usable # {}
                    /\ \E b \in pool[Least(usable)] :
                          /\ bins' = [pool EXCEPT ![Least(usable)] = @ \ {b}]
                          /\ capacity' = left
                          /\ Lend(h, b, len, payload)
                 \/ /\ usable = {}
                    /\ \E b \in Buffers :
                          /\ left[b] = 0
                          /\ bins' = pool
                          /\ capacity' = [left EXCEPT ![b] = IF bin = 0 THEN len ELSE Classes[bin]]
                          /\ Lend(h, b, len, payload)
    /\ returned' = {}

-----------------------------------------------------------------------------
(* Handles, on the thread that holds them *)

\* ArcBuf::from_chunk: the allocation moves, nothing is copied.
from_chunk(h) ==
    /\ handles[h].buf # None /\ ~handles[h].arc
    /\ handles' = [handles EXCEPT ![h].arc = TRUE]
    /\ UNCHANGED <<bins, returned, capacity, data>>

\* ArcBuf is Clone.
clone(h, g) ==
    /\ handles[h].buf # None /\ handles[h].arc /\ handles[g] = Dropped
    /\ handles' = [handles EXCEPT ![g] = handles[h]]
    /\ UNCHANGED <<bins, returned, capacity, data>>

\* BufSplit::split_at: h keeps the first `cut' bytes, the tail is returned as g.
split_at(h, g, cut) ==
    /\ handles[h].buf # None /\ handles[h].arc /\ handles[g] = Dropped
    /\ cut <= handles[h].len
    /\ LET head == [handles[h] EXCEPT !.len = cut]
           tail == [handles[h] EXCEPT !.off = @ + cut, !.len = @ - cut]
       IN  handles' = [handles EXCEPT ![h] = head, ![g] = tail]
    /\ UNCHANGED <<bins, returned, capacity, data>>

Prefixed(h, n) ==
    LET b == handles[h].buf
        start == handles[h].off - n
        Over(bytes) == [p \in Positions |-> IF p > start /\ p <= handles[h].off THEN 0 ELSE bytes[p]]
        grown == [handles[h] EXCEPT !.off = start, !.len = @ + n, !.want = Over(@)]
    IN  /\ data' = [data EXCEPT ![b] = Over(data[b])]
        /\ handles' = [handles EXCEPT ![h] = grown]

\* A plausible bug: a header is written over memory that others still read.
try_add_prefix_Shared(h, n) ==
    /\ handles[h].buf # None /\ handles[h].arc
    /\ handles[h].off >= n
    /\ Prefixed(h, n)
    /\ UNCHANGED <<bins, returned, capacity>>

\* try_add_prefix of n header bytes that succeeds: there is room before the
\* window and Arc::get_mut finds no other handle.
try_add_prefix(h, n) ==
    /\ handles[h].buf # None /\ handles[h].arc
    /\ handles[h].off >= n
    /\ Owners(handles[h].buf) = {h}
    /\ Prefixed(h, n)
    /\ UNCHANGED <<bins, returned, capacity>>

\* Drop of a Chunk, or of the last ArcBuf of an allocation: the vector is cleared
\* and sent into the return channel; the memory is freed when that is full.
Drop(h) ==
    LET b == handles[h].buf
        last == Owners(b) = {h}
        room == Cardinality(returned) < ReturnCapacity
    IN  /\ b # None
        /\ handles' = [handles EXCEPT ![h] = Dropped]
        /\ returned' = IF last /\ room THEN returned \cup {b} ELSE returned
        /\ capacity' = IF last /\ ~room THEN [capacity EXCEPT ![b] = 0] ELSE capacity
        /\ data' = IF last THEN [data EXCEPT ![b] = [p \in Positions |-> 0]] ELSE data
        /\ UNCHANGED bins

Next ==
    \E h \in Handles :
       \/ \E len \in 1 .. MaxLen, payload \in Payloads : copy_napi_buffer(h, len, payload)
       \/ from_chunk(h)
       \/ \E g \in Handles : clone(h, g)
       \/ \E g \in Handles, cut \in 0 .. MaxLen : split_at(h, g, cut)
       \/ \E n \in 1 .. MaxLen : try_add_prefix(h, n)
       \/ Drop(h)

Spec == Init /\ [][Next]_vars

-----------------------------------------------------------------------------

\* Every piece of state has its type, and the return channel its bound.
TypeOK ==
    /\ bins \in [Bins -> SUBSET Buffers] /\ returned \subseteq Buffers
    /\ Cardinality(returned) <= ReturnCapacity
    /\ capacity \in [Buffers -> Nat] /\ data \in [Buffers -> [Positions -> Bytes]]
    /\ handles \in [Handles -> [buf : Buffers \cup {None}, arc : BOOLEAN, off : 0 .. MaxLen,
                                len : 0 .. MaxLen, want : [Positions -> Bytes]]]
    /\ \A h \in Handles : handles[h].off + handles[h].len <= MaxLen

\* The places an allocation may be in.
Pooled(i) == bins[i]
InUse == {b \in Buffers : Owners(b) # {}}

\* An allocation is in one place only: a bin, the return channel or behind a
\* handle.  What quiche may still send or retransmit is never lent to another
\* payload, nothing is in two bins, and no allocation is forgotten.
OneOwner ==
    /\ \A i, j \in Bins : i # j => Pooled(i) \cap Pooled(j) = {}
    /\ \A i \in Bins : Pooled(i) \cap (returned \cup InUse) = {}
    /\ returned \cap InUse = {}
    /\ \A b \in Buffers : capacity[b] # 0 <=> b \in returned \cup InUse \cup UNION {Pooled(i) : i \in Bins}

\* Every handle reads the bytes its owner put there, however the allocation was
\* split, cloned, prefixed in place and lent before.
ContentIntact ==
    \A h \in Handles : handles[h].buf # None =>
       \A p \in Window(h) : data[handles[h].buf][p] = handles[h].want[p]

\* A buffer in a bin can hold every request of the bin's class, so checkout never
\* grows one, and no bin exceeds its limit (checkin and bin_for_cap).
BinsFit ==
    \A i \in Bins :
       /\ \A b \in bins[i] : capacity[b] >= Classes[i]
       /\ Cardinality(bins[i]) <= max_entries_for_bin(i)
=============================================================================
