--------------------------- MODULE InboundBuffers ---------------------------
(***************************************************************************)
(* The life of the memory behind inbound data: buffer_pool.rs, the leases  *)
(* of unsafe_boundary.rs and the pools of H3Connection and QuicConnection. *)
(* A connection reads into a buffer of its AdaptiveBufferPool and hands it *)
(* to JavaScript as an external Buffer.  The finalizer runs on the         *)
(* JavaScript thread, at any time, also after the connection is gone; it   *)
(* sends the buffer back through the connection's BufferRecycler or into   *)
(* the process-wide RightSizedPool.                                        *)
(*                                                                         *)
(* An allocation is an element of Buffers, free while its capacity is 0.   *)
(* Pools and channels are sets, as in OutboundBuffers.                     *)
(***************************************************************************)
EXTENDS SizeClasses, FiniteSets

CONSTANTS
    Buffers, Conns,
    Classes,      \* RIGHT_SIZED_CLASSES
    MaxPerClass,  \* RIGHT_SIZED_MAX_PER_CLASS
    MaxBuffers,   \* max_buffers of a connection's pool
    Chunk,        \* H3_RECV_CHUNK, RECV_CHUNK: min_capacity of that pool
    Credits,      \* what is left of a stream's read credit when it is read (bound)
    Datagrams     \* sizes of received DATAGRAMs (bound)

VARIABLES
    alive,     \* connections that exist
    pool,      \* AdaptiveBufferPool.buffers, per connection
    recycled,  \* the recycler channel, per connection
    buckets,   \* RightSizedPool.buckets
    capacity,  \* Vec::capacity of every buffer
    lease      \* who uses it: no one, a read, a queued event, or JavaScript

vars == <<alive, pool, recycled, buckets, capacity, lease>>

Bins == 1 .. Len(Classes)
Idle == [by |-> "none", conn |-> 0, len |-> 0]
Lease(by, c, len) == [by |-> by, conn |-> c, len |-> len]
MaxRetain == 4 * Chunk

Init ==
    /\ alive = Conns
    /\ pool = [c \in Conns |-> {}] /\ recycled = [c \in Conns |-> {}]
    /\ buckets = [i \in Bins |-> {}]
    /\ capacity = [b \in Buffers |-> 0]
    /\ lease = [b \in Buffers |-> Idle]

\* Freeing the buffers of `gone'.
Freed(gone) == [b \in Buffers |-> IF b \in gone THEN 0 ELSE capacity[b]]

-----------------------------------------------------------------------------
(* RightSizedPool *)

\* recycle of every buffer of S files `filed' and drops the rest.
recycle(S, filed) ==
    /\ filed \subseteq {b \in S : bin_for_cap(Classes, capacity[b]) # 0}
    /\ \A i \in Bins :
          LET mine == {b \in S : bin_for_cap(Classes, capacity[b]) = i}
              room == MaxPerClass - Cardinality(buckets[i])
          IN  Cardinality(filed \cap mine) = IF Cardinality(mine) <= room THEN Cardinality(mine) ELSE room

Filed(filed) ==
    [i \in Bins |-> buckets[i] \cup {b \in filed : bin_for_cap(Classes, capacity[b]) = i}]

\* take(len): one buffer is popped from every bucket from the class of len up,
\* until one is large enough; those that are not are dropped.  `top' is what the
\* pops find.
Searched(len) == {i \in Bins : bin_for(Classes, len) # 0 /\ i >= bin_for(Classes, len) /\ buckets[i] # {}}
Large(top, len) == {i \in DOMAIN top : capacity[top[i]] >= len}

Popped(top, len) ==
    IF Large(top, len) = {} THEN DOMAIN top ELSE {i \in DOMAIN top : i <= Least(Large(top, len))}
Taken(top, len) == [i \in Bins |-> IF i \in Popped(top, len) THEN buckets[i] \ {top[i]} ELSE buckets[i]]

-----------------------------------------------------------------------------
(* A connection, on its worker *)

\* checkout_empty_vec(len): a buffer of the connection's own pool, else of the
\* shared one, else a fresh one.
checkout_empty_vec(c, b, len) ==
    \/ /\ b \in pool[c] /\ capacity[b] >= len
       /\ pool' = [pool EXCEPT ![c] = @ \ {b}]
       /\ UNCHANGED <<buckets, capacity>>
    \/ /\ \A x \in pool[c] : capacity[x] < len
       /\ \E top \in [Searched(len) -> Buffers] :
             /\ \A i \in DOMAIN top : top[i] \in buckets[i]
             /\ buckets' = Taken(top, len)
             /\ LET lost == {top[i] : i \in Popped(top, len)} \ {b}
                IN  IF Large(top, len) # {}
                    THEN b = top[Least(Large(top, len))] /\ capacity' = Freed(lost)
                    ELSE /\ capacity[b] = 0
                         /\ capacity' = [Freed(lost) EXCEPT ![b] = IF len > Chunk THEN len ELSE Chunk]
       /\ UNCHANGED pool

\* checkout_recv(RECV_CHUNK.min(credit)) for the body or stream data being read.
checkout_recv(c, b, credit) ==
    LET len == IF credit < Chunk THEN credit ELSE Chunk
    IN  /\ c \in alive
        /\ checkout_empty_vec(c, b, len)
        /\ lease' = [lease EXCEPT ![b] = Lease("read", c, len)]
        /\ UNCHANGED <<alive, recycled>>

\* checkin of the buffers of S: `kept' stay in the connection's pool, `filed' go
\* to the shared one, the rest is freed.
checkin(c, S, kept, filed) ==
    LET fits == {b \in S : capacity[b] >= Chunk /\ capacity[b] <= MaxRetain}
        room == MaxBuffers - Cardinality(pool[c])
    IN  /\ kept \subseteq fits
        /\ Cardinality(kept) = IF Cardinality(fits) <= room THEN Cardinality(fits) ELSE room
        /\ recycle(S \ kept, filed)
        /\ pool' = [pool EXCEPT ![c] = @ \cup kept]
        /\ buckets' = Filed(filed)
        /\ capacity' = Freed((S \ kept) \ filed)

\* Nothing was read, or the stream is gone: the buffer goes back (into_recycle_vec).
ReadNothing(b) ==
    LET c == lease[b].conn
    IN  /\ lease[b].by = "read"
        /\ \E kept, filed \in SUBSET {b} : checkin(c, {b}, kept, filed)
        /\ lease' = [lease EXCEPT ![b] = Idle]
        /\ UNCHANGED <<alive, recycled>>

\* The data is queued as an event; so is a DATAGRAM, whose vector quiche made.
ReadData(b) ==
    /\ lease[b].by = "read"
    /\ lease' = [lease EXCEPT ![b].by = "event", ![b].len = 0]
    /\ UNCHANGED <<alive, pool, recycled, buckets, capacity>>

poll_datagram_events(c, b, size) ==
    /\ c \in alive /\ capacity[b] = 0
    /\ capacity' = [capacity EXCEPT ![b] = size]
    /\ lease' = [lease EXCEPT ![b] = Lease("event", c, 0)]
    /\ UNCHANGED <<alive, pool, recycled, buckets>>

\* drain_returned, once per turn of the worker's loop.
drain_returned(c) ==
    /\ c \in alive /\ recycled[c] # {}
    /\ \E kept \in SUBSET recycled[c] : \E filed \in SUBSET (recycled[c] \ kept) :
          checkin(c, recycled[c], kept, filed)
    /\ recycled' = [recycled EXCEPT ![c] = {}]
    /\ UNCHANGED <<alive, lease>>

\* The connection is dropped with its pool, its channel and what it was reading.
Close(c) ==
    LET reading == {b \in Buffers : lease[b].by = "read" /\ lease[b].conn = c}
    IN  /\ c \in alive
        /\ alive' = alive \ {c}
        /\ pool' = [pool EXCEPT ![c] = {}] /\ recycled' = [recycled EXCEPT ![c] = {}]
        /\ capacity' = Freed(pool[c] \cup recycled[c] \cup reading)
        /\ lease' = [b \in Buffers |-> IF b \in reading THEN Idle ELSE lease[b]]
        /\ UNCHANGED buckets

-----------------------------------------------------------------------------
(* JavaScript *)

\* into_napi_value: N-API takes the memory, or refuses it and the vector is
\* copied or reclaimed here; an event that is never delivered is freed as well.
into_napi_value(b) ==
    /\ lease[b].by = "event"
    /\ lease' = [lease EXCEPT ![b].by = "js"]
    /\ UNCHANGED <<alive, pool, recycled, buckets, capacity>>

EventDropped(b) ==
    /\ lease[b].by = "event"
    /\ lease' = [lease EXCEPT ![b] = Idle]
    /\ capacity' = Freed({b})
    /\ UNCHANGED <<alive, pool, recycled, buckets>>

\* A plausible bug: the channel of a connection that is gone still takes buffers.
finalize_recycle_Blind(b) ==
    LET c == lease[b].conn
    IN  /\ lease[b].by = "js"
        /\ lease' = [lease EXCEPT ![b] = Idle]
        /\ recycled' = [recycled EXCEPT ![c] = @ \cup {b}]
        /\ UNCHANGED <<alive, pool, buckets, capacity>>

\* finalize_recycle, BufferRecycler::recycle: V8 collected the Buffer; a channel
\* that is full or disconnected leaves the buffer to the shared pool.
finalize_recycle(b) ==
    LET c == lease[b].conn
    IN  /\ lease[b].by = "js"
        /\ lease' = [lease EXCEPT ![b] = Idle]
        /\ \/ /\ c \in alive /\ Cardinality(recycled[c]) < MaxBuffers * 2
              /\ recycled' = [recycled EXCEPT ![c] = @ \cup {b}]
              /\ UNCHANGED <<buckets, capacity>>
           \/ /\ c \notin alive \/ Cardinality(recycled[c]) >= MaxBuffers * 2
              /\ \E filed \in SUBSET {b} :
                    /\ recycle({b}, filed)
                    /\ buckets' = Filed(filed) /\ capacity' = Freed({b} \ filed)
              /\ UNCHANGED recycled
        /\ UNCHANGED <<alive, pool>>

Next ==
    \/ \E c \in Conns :
          \/ \E b \in Buffers :
                \/ \E credit \in Credits : checkout_recv(c, b, credit)
                \/ \E size \in Datagrams : poll_datagram_events(c, b, size)
          \/ drain_returned(c)
          \/ Close(c)
    \/ \E b \in Buffers :
          ReadNothing(b) \/ ReadData(b) \/ into_napi_value(b) \/ EventDropped(b) \/ finalize_recycle(b)

Spec == Init /\ [][Next]_vars

-----------------------------------------------------------------------------

\* Every piece of state has its type, and the recycler channels their bound.
TypeOK ==
    /\ alive \subseteq Conns
    /\ pool \in [Conns -> SUBSET Buffers] /\ recycled \in [Conns -> SUBSET Buffers]
    /\ \A c \in Conns : Cardinality(recycled[c]) <= MaxBuffers * 2
    /\ buckets \in [Bins -> SUBSET Buffers] /\ capacity \in [Buffers -> Nat]
    /\ lease \in [Buffers -> [by : {"none", "read", "event", "js"}, conn : Conns \cup {0},
                              len : 0 .. Chunk]]

Leased == {b \in Buffers : lease[b].by # "none"}

\* An allocation is in one place only: in use, in one pool or in one channel.
\* Memory that JavaScript can still read is never read into, whichever of the
\* connection and the Buffer ends first; nothing is forgotten, and a connection
\* that is gone keeps nothing.
LeasedOnce ==
    /\ \A b \in Buffers :
          Cardinality({c \in Conns : b \in pool[c]}) + Cardinality({c \in Conns : b \in recycled[c]})
             + Cardinality({i \in Bins : b \in buckets[i]}) + (IF b \in Leased THEN 1 ELSE 0)
          = (IF capacity[b] = 0 THEN 0 ELSE 1)
    /\ \A c \in Conns \ alive : pool[c] \cup recycled[c] = {}

\* A buffer that is read into can hold what quiche may write, and a buffer that
\* is kept fits the pool it is kept in, which does not exceed its limit.
CapacityFits ==
    /\ \A b \in Buffers : lease[b].by = "read" => capacity[b] >= lease[b].len
    /\ \A c \in Conns :
          /\ Cardinality(pool[c]) <= MaxBuffers
          /\ \A b \in pool[c] : capacity[b] >= Chunk /\ capacity[b] <= MaxRetain
    /\ \A i \in Bins :
          /\ Cardinality(buckets[i]) <= MaxPerClass
          /\ \A b \in buckets[i] : capacity[b] >= Classes[i]

\* What leaves the shared pool is used: take() finds the first buffer it pops
\* large enough and discards none (class_for_capacity against class_for_request).
TakenIsUsed ==
    \A i \in Bins : \A b \in buckets[i] \ buckets'[i] : lease'[b].by = "read"
NothingDiscarded == [][TakenIsUsed]_vars
=============================================================================
