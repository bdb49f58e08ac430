------------------------------ MODULE MCMemory ------------------------------
(***************************************************************************)
(* What the event loops stand on, for safety: the timers (TimerHeap) and   *)
(* the memory of payloads (OutboundBuffers, InboundBuffers). They are      *)
(* explored side by side: `part' says which of them a behaviour is about.  *)
(* Variables of the same name are shared; those a part does not have stay  *)
(* 0, and the timers keep one initial state.                               *)
(***************************************************************************)
EXTENDS TimerHeap, TLC

CONSTANTS Buffers, Holders, NoBuffer

VARIABLES part, \* which part a behaviour is about
    bins, returned, capacity, data, handles, alive, pool, recycled, buckets, lease

-----------------------------------------------------------------------------
(* TimerHeap *)

-----------------------------------------------------------------------------
(* OutboundBuffers *)

Out == INSTANCE OutboundBuffers WITH
    Handles <- Holders, None <- NoBuffer, Classes <- <<1, 2>>, SmallClass <- 1,
    MaxPerBin <- 1, ReturnCapacity <- 2, MaxLen <- 3, Payloads <- {1}

-----------------------------------------------------------------------------
(* InboundBuffers *)

In == INSTANCE InboundBuffers WITH
    Conns <- {1, 2}, Classes <- <<2, 8>>, MaxPerClass <- 1, MaxBuffers <- 1, Chunk <- 8,
    Credits <- {2, 8}, Datagrams <- {1, 5}

-----------------------------------------------------------------------------

TimersRest == <<part,
      bins, returned, capacity, data, handles, alive, pool, recycled, buckets, lease>>
OutRest == <<part, vars,
      alive, pool, recycled, buckets, lease>>
InRest == <<part, vars,
      bins, returned, data, handles>>
everything == <<part, vars,
      bins, returned, capacity, data, handles, alive, pool, recycled, buckets, lease>>

TimersInit ==
    /\ part = "timers" /\ Init
    /\ bins = 0 /\ returned = 0 /\ capacity = 0 /\ data = 0 /\ handles = 0 /\ alive = 0
    /\ pool = 0 /\ recycled = 0 /\ buckets = 0 /\ lease = 0
OutInit ==
    /\ part = "outbound" /\ Out!Init /\ Init /\ now = 0
    /\ alive = 0 /\ pool = 0 /\ recycled = 0 /\ buckets = 0 /\ lease = 0
InInit ==
    /\ part = "inbound" /\ In!Init /\ Init /\ now = 0
    /\ bins = 0 /\ returned = 0 /\ data = 0 /\ handles = 0

MemoryInit ==
    \/ TimersInit \/ OutInit \/ InInit

MemoryNext ==
    \/ part = "timers" /\ Next /\ UNCHANGED TimersRest
    \/ part = "outbound" /\ Out!Next /\ UNCHANGED OutRest
    \/ part = "inbound" /\ In!Next /\ UNCHANGED InRest
    \/ part \in {"inbound"} /\ UNCHANGED everything

\* Buffers are alike, and so are the handles.
Symmetry == Permutations(Buffers) \cup Permutations(Holders)

MemorySpec == MemoryInit /\ [][MemoryNext]_everything

-----------------------------------------------------------------------------
(* The properties of the parts. *)

\* Memory is in one place: an outbound allocation is in a bin, in the return
\* channel or behind handles (chunk_pool.rs, arc_buf.rs), an inbound one is in a
\* pool, with its reader, in the channel or with JavaScript, until its finalizer
\* has run (buffer_pool.rs).
BuffersHaveOneOwner ==
    /\ part = "outbound" => Out!OneOwner
    /\ part = "inbound" => In!LeasedOnce

\* No handle reads bytes that its owner did not put there: memory is reused only
\* after the last handle, and a frame header is written in place only by a sole
\* owner (arc_buf.rs).
ContentIntact == part = "outbound" => Out!ContentIntact

\* What is kept is bounded and fits where it is kept: superseded deadlines are
\* compacted away before they outnumber the limit (timer_heap.rs), and a bin, a
\* class or a channel holds at most its limit of buffers, each at least as large as
\* its class.
LimitsHold ==
    /\ part = "timers" => TypeOK /\ StaleBounded
    /\ part = "outbound" => Out!TypeOK /\ Out!BinsFit
    /\ part = "inbound" => In!TypeOK /\ In!CapacityFits
=============================================================================
