--------------------------- MODULE IoUringDriver ---------------------------
(***************************************************************************)
(* The io_uring transport driver: submit_sends turns datagrams into send   *)
(* requests (one per datagram, one per run of equal datagrams with GSO, or *)
(* one bundle through a ring of provided buffers), poll submits what is    *)
(* queued, waits, and harvests the completions.  One multishot receive and *)
(* one read of the wake-up eventfd are always with the kernel.             *)
(*                                                                         *)
(* `io' holds the driver and the two rings it shares with the kernel; the  *)
(* kernel takes its own steps between the driver's system calls.  A        *)
(* datagram is a number, its length and destination are given by the       *)
(* setup.  The submission ring has as many entries as there are TX slots,  *)
(* as in the code.  Metrics, recycled buffers and address parsing are left *)
(* out.                                                                    *)
(***************************************************************************)
EXTENDS Naturals, Sequences, FiniteSets, SequencesExt, Functions

CONSTANT Setups

AllFaults == {"again", "size", "fail", "busy", "short", "disarm"}

\* pkts: the datagrams the event loop sends, in order;  batch: most given to one
\* submit_sends;  gso, bundle, defer: what the kernel supports (defer: the ring is
\* created disabled, DEFER_TASKRUN);  slots: TX_SLOTS = SQ_RING_ENTRIES;
\* cap: tx_bytes_cap;  entry: TX_BUF_ENTRY_SIZE;  seg: largest GSO segment;
\* waits: TIER2_BLOCKING_WAIT_LIMIT;  bufs: RX_RING_SIZE;
\* early: datagrams a client's first flight has, submitted before the first poll;
\* rx, wakes: datagrams and wakes that arrive;  norx: poll_without_rx is used;
\* faults: what the kernel may do;  errors: how often.
Setup(u) ==
    /\ \A p \in DOMAIN u.pkts : u.pkts[p].len \in Nat \ {0} /\ u.pkts[p].to \in Nat
    /\ {u.batch, u.slots, u.cap, u.entry, u.seg, u.waits, u.bufs} \subseteq Nat \ {0}
    /\ {u.gso, u.bundle, u.defer, u.norx} \subseteq BOOLEAN
    /\ {u.early, u.rx, u.wakes, u.errors} \subseteq Nat /\ u.faults \subseteq AllFaults
    /\ u.slots >= u.early + 2 /\ u.early <= Len(u.pkts)  \* the first flight leaves room

Packets == {x : x \in UNION {DOMAIN u.pkts : u \in Setups}}

VARIABLES
    setup,      \* fixed at the start
    io,         \* the driver and its rings: see Driver0
    pc,         \* "idle", in "poll" or "norx" (poll_without_rx), "wait" (tier 2), "failed"
    waits,      \* blocking waits of this submit_sends
    next,       \* next datagram to send
    arrived,    \* datagrams that reached the socket
    woken,      \* calls of wake()
    delivered   \* datagrams poll returned

vars == <<setup, io, pc, waits, next, arrived, woken, delivered>>

Recv == [op |-> "recv", at |-> 0]
Waker == [op |-> "waker", at |-> 0]
Send(i) == [op |-> "send", at |-> i]
Bundle == [op |-> "bundle", at |-> 0]

Driver0(u) == [
    (* IoUringDriver *)
    enabled |-> ~u.defer,            \* ~needs_enable
    slots |-> [i \in 1..u.slots |-> << >>],  \* datagrams of a slot in flight
    pending_tx |-> << >>, tx_in_flight |-> 0, tx_bytes_in_flight |-> 0,
    bundle |-> << >>,                \* datagrams of the bundle in flight
    rx_armed |-> ~u.defer, waker_armed |-> ~u.defer,
    deferred_rx |-> << >>, deferred_woken |-> FALSE,
    err |-> FALSE,                   \* the call in progress returns an error
    (* shared with the kernel *)
    sq |-> << >>,                    \* submission ring
    posted |-> IF u.defer THEN {} ELSE {Recv, Waker},  \* requests the kernel has
    cq |-> << >>,                    \* completions not yet harvested
    ring |-> << >>,                  \* TX buffer ring: published, not consumed
    free |-> u.bufs,                 \* RX buffers the kernel may fill
    eventfd |-> 0, socket |-> << >>, errors |-> 0,
    (* ghosts *)
    wire |-> [p \in DOMAIN u.pkts |-> 0],  \* how often a datagram was transmitted
    lost |-> {}]                     \* given up on a permanent error

Init ==
    /\ setup \in Setups /\ io = Driver0(setup)
    /\ pc = "idle" /\ waits = 0 /\ next = 1 /\ arrived = 0 /\ woken = 0
    /\ delivered = << >>

----------------------------------------------------------------------------
(* The submission ring. *)

Full(x) == Len(x.sq) >= setup.slots

Push(x, e) == [x EXCEPT !.sq = Append(@, e)]

\* A submitting system call; a ring not enabled yet refuses, and so may a busy one.
Submitted(x, ok) ==
    IF x.enabled /\ ok THEN [x EXCEPT !.sq = << >>, !.posted = @ \cup ToSet(x.sq)] ELSE x

Fails(x) == [x EXCEPT !.err = TRUE]

arm_multishot_recv(x) ==
    IF Full(x) THEN Fails(x) ELSE [Push(x, Recv) EXCEPT !.rx_armed = TRUE]

submit_waker_read(x) ==
    CASE x.waker_armed -> x
      [] ~x.waker_armed /\ Full(x) -> Fails(x)
      [] OTHER -> [Push(x, Waker) EXCEPT !.waker_armed = TRUE]

enable_on_worker_thread(x) ==
    LET a == arm_multishot_recv([x EXCEPT !.enabled = TRUE])
        w == IF a.err THEN a ELSE submit_waker_read(a)
    IN IF w.err THEN w ELSE Submitted(w, TRUE)

----------------------------------------------------------------------------
(* Sending. *)

Bytes(pkts) == FoldLeft(LAMBDA n, p : n + setup.pkts[p].len, 0, pkts)

MaxSegments == 64

Joins(batch, p) ==
    LET q == setup.pkts[batch[1]] IN
    /\ q.to = setup.pkts[p].to /\ q.len = setup.pkts[p].len
    /\ q.len <= setup.seg /\ Len(batch) < MaxSegments

\* runs of datagrams that differ in nothing the kernel cares about
group_for_gso(pkts) ==
    LET Group(batches, p) ==
            IF batches # << >> /\ Joins(Last(batches), p)
            THEN [batches EXCEPT ![Len(batches)] = Append(@, p)]
            ELSE Append(batches, <<p>>)
    IN FoldLeft(Group, << >>, pkts)

\* first slot not in flight, 0 if there is none
FreeSlot(x) == SelectInSeq(x.slots, LAMBDA s : s = << >>)

\* prepare or prepare_gso, push and count; the caller checked for room
Occupy(x, pkts) ==
    LET i == FreeSlot(x) IN
    [Push(x, Send(i)) EXCEPT
        !.slots[i] = pkts, !.tx_in_flight = @ + 1, !.tx_bytes_in_flight = @ + Bytes(pkts)]

Requeue(x, pkts) == [x EXCEPT !.pending_tx = @ \o pkts]

NoRoom(x) == FreeSlot(x) = 0 \/ Full(x)

OverCap(x) == x.tx_bytes_in_flight >= setup.cap /\ x.tx_in_flight > 0

submit_pending_tx(x) ==
    LET Each(r, p) ==
            IF r.stop \/ OverCap(r.x) \/ NoRoom(r.x)
            THEN [r EXCEPT !.stop = TRUE, !.x = Requeue(@, <<p>>)]
            ELSE [r EXCEPT !.n = @ + 1, !.x = Occupy(@, <<p>>)]
    IN FoldLeft(Each, [x |-> [x EXCEPT !.pending_tx = << >>], n |-> 0, stop |-> FALSE], x.pending_tx)

flush_pending_tx_after_progress(x, ok) ==
    LET r == submit_pending_tx(x) IN IF r.n > 0 THEN Submitted(r.x, ok) ELSE r.x

\* the GSO branch of submit_sends: batches of several segments take a slot at once
GsoBatches(x, pkts) ==
    LET Each(r, b) ==
            IF \/ Len(b) = 1
               \/ r.x.tx_bytes_in_flight + Bytes(b) > setup.cap /\ r.x.tx_in_flight > 0
               \/ NoRoom(r.x)
            THEN [r EXCEPT !.x = Requeue(@, b)]
            ELSE [r EXCEPT !.n = @ + 1, !.x = Occupy(@, b)]
    IN FoldLeft(Each, [x |-> x, n |-> 0], group_for_gso(pkts))

\* what a bundle leaves over: no byte cap here
submit_sends_gso(x, pkts) ==
    LET Each(r, b) ==
            IF NoRoom(r.x) THEN [r EXCEPT !.x = Requeue(@, b)]
            ELSE [r EXCEPT !.n = @ + 1, !.x = Occupy(@, b)]
    IN FoldLeft(Each, [x |-> x, n |-> 0], group_for_gso(pkts))

send_bundle_prefix_len(pkts) ==
    LET fits == {n \in 0..Len(pkts) : /\ n <= setup.slots
                                      /\ \A i \in 1..n : setup.pkts[pkts[i]].len <= setup.entry}
    IN CHOOSE n \in fits : \A m \in fits : m <= n

\* a datagram handed back by a full submission ring goes to pending_tx, and the
\* buffer ring is registered anew
submit_send_bundle(x, pkts, ok) ==
    LET n == send_bundle_prefix_len(pkts)
        prefix == SubSeq(pkts, 1, n)
        rest == SubSeq(pkts, n + 1, Len(pkts))
        sent == CASE n = 0 -> x
                  [] n > 0 /\ Full(x) -> [Requeue(x, prefix) EXCEPT !.ring = << >>]
                  [] OTHER -> Submitted([Push(x, Bundle) EXCEPT !.bundle = prefix, !.ring = @ \o prefix], ok)
        over == IF setup.gso /\ Len(rest) > 1 THEN submit_sends_gso(sent, rest)
                ELSE [x |-> Requeue(sent, rest), n |-> 0]
        last == submit_pending_tx(over.x)
    IN IF over.n + last.n > 0 THEN Submitted(last.x, ok) ELSE last.x

----------------------------------------------------------------------------
(* Completions.  poll and process_cqes_inline treat them alike: what the   *)
(* first puts into its outcome the second defers to the next poll, whose   *)
(* outcome begins with what was deferred.                                  *)

\* Mutant: the buffer of a completion is not returned.
OnRecv_Leaks(x, c) ==
    LET armed == IF c.more THEN x ELSE arm_multishot_recv(x)
    IN IF c.data = 0 THEN armed ELSE [armed EXCEPT !.deferred_rx = Append(@, c.data)]

OnRecv(x, c) ==
    LET armed == CASE c.more -> x
                   [] ~c.more /\ Full(x) -> [x EXCEPT !.rx_armed = FALSE]
                   [] OTHER -> arm_multishot_recv(x)
    IN IF c.data = 0 THEN armed
       ELSE [armed EXCEPT !.deferred_rx = Append(@, c.data), !.free = @ + 1]

Retryable(c, pkts) == c.res = "again" \/ (c.res = "size" /\ Len(pkts) > 1)

OnSend(x, c) ==
    LET pkts == x.slots[c.at]
        y == [x EXCEPT !.slots[c.at] = << >>, !.tx_in_flight = @ - 1,
                       !.tx_bytes_in_flight = @ - Bytes(pkts)]
    IN CASE c.res = "ok" -> y
         [] c.res # "ok" /\ Retryable(c, pkts) -> Requeue(y, pkts)
         [] OTHER -> [y EXCEPT !.lost = @ \cup ToSet(pkts)]

\* the read that completed emptied the eventfd, and the driver empties it again
OnWaker(x) ==
    submit_waker_read([x EXCEPT !.waker_armed = FALSE, !.deferred_woken = TRUE, !.eventfd = 0])

\* TxBufRing::complete counts whole datagrams in the bytes sent
Consumed(pkts, bytes) ==
    CHOOSE n \in 0..Len(pkts) : /\ Bytes(SubSeq(pkts, 1, n)) <= bytes
                                /\ n < Len(pkts) => Bytes(SubSeq(pkts, 1, n + 1)) > bytes

OnBundle(x, c) ==
    LET unsent == SubSeq(x.bundle, Consumed(x.bundle, c.data) + 1, Len(x.bundle))
        y == [x EXCEPT !.bundle = << >>]
        z == IF c.res \in {"ok", "again"} THEN Requeue(y, unsent)
             ELSE [y EXCEPT !.lost = @ \cup ToSet(unsent)]
    IN IF unsent # << >> \/ c.data = 0 THEN [z EXCEPT !.ring = << >>] ELSE z

Handle(x, c) ==
    CASE x.err -> x
      [] ~x.err /\ c.op = "recv" -> OnRecv(x, c)
      [] ~x.err /\ c.op = "send" -> OnSend(x, c)
      [] ~x.err /\ c.op = "waker" -> OnWaker(x)
      [] OTHER -> OnBundle(x, c)

process_cqes_inline(x) ==
    LET h == FoldLeft(Handle, [x EXCEPT !.cq = << >>], x.cq)
    IN IF h.err \/ h.rx_armed THEN h ELSE arm_multishot_recv(h)

\* TX slots a harvest of the completion ring frees
Freed(x) == Cardinality({i \in DOMAIN x.cq : x.cq[i].op = "send"})

----------------------------------------------------------------------------
(* The calls of the event loop. *)

\* a call returns with the driver in state x, or with the error and is the last
Returns(x) == IF x.err THEN pc' = "failed" /\ UNCHANGED io ELSE pc' = "idle" /\ io' = x

\* poll and poll_without_rx up to the system call that submits and waits
PollEnter(kind) ==
    /\ pc = "idle"
    /\ \E e \in {IF io.enabled THEN io ELSE enable_on_worker_thread(io)} :
       \E w \in {IF e.err THEN e ELSE submit_waker_read(submit_pending_tx(e).x)} :
          IF w.err THEN pc' = "failed" /\ UNCHANGED io
          ELSE pc' = kind /\ io' = Submitted(w, TRUE)
    /\ UNCHANGED <<setup, waits, next, arrived, woken, delivered>>

PollWithoutRx == setup.norx /\ PollEnter("norx")

\* poll from there: a completion or the deadline ended the wait.  SQEs that
\* submit_pending_tx pushes here wait for the next system call.
PollReturn ==
    /\ pc \in {"poll", "norx"}
    /\ \E h \in {process_cqes_inline(io)} :
       \E x \in {IF h.err THEN h ELSE submit_pending_tx(h).x} :
          /\ Returns([x EXCEPT !.deferred_woken = FALSE,
                               !.deferred_rx = IF pc = "poll" THEN << >> ELSE @])
          /\ delivered' = IF x.err \/ pc = "norx" THEN delivered ELSE delivered \o x.deferred_rx
    /\ UNCHANGED <<setup, waits, next, arrived, woken>>

Stuck(x) == x.pending_tx # << >> /\ x.tx_in_flight > 0

\* after the non-blocking part of submit_sends or a fruitless wait: block for a
\* completion, which submits first, or return
WaitOrReturn(x, n) ==
    IF ~x.err /\ Stuck(x) /\ x.enabled /\ n < setup.waits
    THEN pc' = "wait" /\ waits' = n /\ io' = Submitted(x, TRUE)
    ELSE Returns(x) /\ waits' = 0

Submits == IF "busy" \in setup.faults THEN BOOLEAN ELSE {TRUE}

Left == IF io.enabled THEN Len(setup.pkts) + 1 - next ELSE setup.early + 1 - next

Batches == {[i \in 1..n |-> next + i - 1] : n \in 1..setup.batch \cap 1..Left}

UsesBundle == setup.bundle /\ io.bundle = << >>

\* completions a deferring kernel has not posted yet are not seen
SubmitBundle ==
    /\ pc = "idle" /\ UsesBundle
    /\ \E pkts \in Batches, ok \in Submits, seen \in IF setup.defer THEN BOOLEAN ELSE {TRUE} :
          /\ \E d \in {IF seen /\ io.cq # << >> THEN process_cqes_inline(io) ELSE io} :
                Returns(IF d.err THEN d ELSE submit_send_bundle(d, pkts, ok))
          /\ next' = IF pc' = "failed" THEN next ELSE next + Len(pkts)
    /\ UNCHANGED <<setup, waits, arrived, woken, delivered>>

\* run: the kernel says that it has completions to post (SQ_TASKRUN)
SubmitSends ==
    /\ pc = "idle" /\ ~UsesBundle
    /\ \E pkts \in Batches, ok \in Submits,
          run \in IF setup.defer /\ io.cq # << >> THEN BOOLEAN ELSE {FALSE} :
          /\ \E g \in {IF setup.gso /\ Len(pkts) > 1 THEN GsoBatches(io, pkts)
                       ELSE [x |-> Requeue(io, pkts), n |-> 0]} :
             \E r \in {submit_pending_tx(g.x)} :
             \E x \in {IF g.n + r.n > 0 THEN Submitted(r.x, ok) ELSE r.x} :
             \E h \in {IF Stuck(x) /\ run THEN process_cqes_inline(x) ELSE x} :
                IF ~h.err /\ Stuck(x) /\ run /\ Freed(x) > 0
                THEN Returns(flush_pending_tx_after_progress(h, ok)) /\ waits' = 0
                ELSE WaitOrReturn(h, 0)
          /\ next' = IF pc' = "failed" THEN next ELSE next + Len(pkts)
    /\ UNCHANGED <<setup, arrived, woken, delivered>>

\* submit_and_wait returned
WaitReturn ==
    /\ pc = "wait" /\ io.cq # << >>
    /\ \E h \in {process_cqes_inline(io)}, ok \in Submits :
          IF ~h.err /\ Freed(io) > 0
          THEN Returns(flush_pending_tx_after_progress(h, ok)) /\ waits' = 0
          ELSE WaitOrReturn(h, waits + 1)
    /\ UNCHANGED <<setup, next, arrived, woken, delivered>>

\* submit_and_wait was interrupted by a signal
WaitInterrupted ==
    /\ pc = "wait" /\ "busy" \in setup.faults
    /\ WaitOrReturn(io, waits + 1)
    /\ UNCHANGED <<setup, next, arrived, woken, delivered>>

\* IoUringWaker::wake, from another thread
Wake ==
    /\ pc # "failed" /\ woken < setup.wakes /\ woken' = woken + 1
    /\ io' = [io EXCEPT !.eventfd = @ + 1]
    /\ UNCHANGED <<setup, pc, waits, next, arrived, delivered>>

----------------------------------------------------------------------------
(* The kernel. *)

CQE(op, at, res, data, more) == [op |-> op, at |-> at, res |-> res, data |-> data, more |-> more]

Complete(c, x) ==
    /\ pc # "failed"
    /\ io' = [x EXCEPT !.cq = Append(@, c)]
    /\ UNCHANGED <<setup, pc, waits, next, arrived, woken, delivered>>

May(fault) == fault \in setup.faults /\ io.errors < setup.errors

Done(e) == [io EXCEPT !.posted = @ \ {e}]

Failed(e) == [io EXCEPT !.posted = @ \ {e}, !.errors = @ + 1]

Transmit(x, pkts) ==
    [x EXCEPT !.wire = [p \in DOMAIN @ |-> IF p \in ToSet(pkts) THEN @[p] + 1 ELSE @[p]]]

\* a multishot receive that posts data may end there
KernelReceives ==
    /\ Recv \in io.posted /\ io.socket # << >> /\ io.free > 0
    /\ \E more \in IF May("disarm") THEN BOOLEAN ELSE {TRUE} :
          \E x \in {IF more THEN io ELSE Failed(Recv)} :
             Complete(CQE("recv", 0, "ok", Head(io.socket), more),
                      [x EXCEPT !.socket = Tail(@), !.free = @ - 1])

\* without a buffer it ends; the datagram stays in the socket
KernelOutOfBuffers ==
    /\ Recv \in io.posted /\ io.socket # << >> /\ io.free = 0
    /\ Complete(CQE("recv", 0, "fail", 0, FALSE), Done(Recv))

KernelReadsEventfd ==
    /\ Waker \in io.posted /\ io.eventfd > 0
    /\ Complete(CQE("waker", 0, "ok", 0, FALSE), [Done(Waker) EXCEPT !.eventfd = 0])

KernelSends(i) ==
    /\ Send(i) \in io.posted
    /\ Complete(CQE("send", i, "ok", 0, FALSE), Transmit(Done(Send(i)), io.slots[i]))

KernelRefuses(i) ==
    /\ Send(i) \in io.posted
    /\ \E res \in {"again", "size", "fail"} :
          May(res) /\ Complete(CQE("send", i, res, 0, FALSE), Failed(Send(i)))

\* a bundle may be cut short after any whole datagram
KernelSendsBundle ==
    /\ Bundle \in io.posted
    /\ \E n \in IF May("short") THEN 0..Len(io.ring) ELSE {Len(io.ring)} :
       \E pkts \in {SubSeq(io.ring, 1, n)} :
       \E x \in {IF n < Len(io.ring) THEN Failed(Bundle) ELSE Done(Bundle)} :
          Complete(CQE("bundle", 0, "ok", Bytes(pkts), FALSE),
                   [Transmit(x, pkts) EXCEPT !.ring = SubSeq(@, n + 1, Len(@))])

KernelRefusesBundle ==
    /\ Bundle \in io.posted
    /\ \E res \in {"again", "fail"} :
          May(res) /\ Complete(CQE("bundle", 0, res, 0, FALSE), Failed(Bundle))

Arrive ==
    /\ pc # "failed" /\ arrived < setup.rx /\ arrived' = arrived + 1
    /\ io' = [io EXCEPT !.socket = Append(@, arrived + 1)]
    /\ UNCHANGED <<setup, pc, waits, next, woken, delivered>>

Slots == 1 .. Max({u.slots : u \in Setups})

Kernel ==
    \/ KernelReceives \/ KernelOutOfBuffers \/ KernelReadsEventfd
    \/ KernelSendsBundle \/ KernelRefusesBundle
    \/ \E i \in Slots : KernelSends(i) \/ KernelRefuses(i)

Next ==
    \/ PollEnter("poll") \/ PollWithoutRx \/ PollReturn
    \/ SubmitBundle \/ SubmitSends \/ WaitReturn \/ WaitInterrupted
    \/ Wake \/ Arrive \/ Kernel

SafeSpec == Init /\ [][Next]_vars

\* The event loop polls again and again; the kernel serves every request.
Spec ==
    /\ SafeSpec
    /\ WF_vars(PollReturn) /\ WF_vars(WaitReturn) /\ SF_vars(PollEnter("poll"))
    /\ WF_vars(Kernel)

----------------------------------------------------------------------------
(* Properties. *)

\* What the kernel still has or has not been given yet, or completed without success.
Unsent(e) ==
    \/ e \in io.posted \/ e \in ToSet(io.sq)
    \/ \E c \in ToSet(io.cq) : c.op = e.op /\ c.at = e.at /\ c.res # "ok"

\* Where the driver still has a datagram that it has to send.
Holds(p) ==
    \/ p \in ToSet(io.pending_tx)
    \/ \E i \in DOMAIN io.slots : p \in ToSet(io.slots[i]) /\ Unsent(Send(i))
    \/ p \in ToSet(io.bundle) /\ io.wire[p] = 0

Fate(p) ==
    CASE p \notin DOMAIN setup.pkts \/ p >= next -> "new"
      [] OTHER -> CASE Holds(p) /\ io.wire[p] = 0 -> "held"
                    [] ~Holds(p) /\ io.wire[p] = 1 -> "sent"
                    [] ~Holds(p) /\ io.wire[p] = 0 /\ p \in io.lost -> "lost"
                    [] OTHER -> "astray"

Received == FoldLeft(LAMBDA s, c : IF c.op = "recv" /\ c.data # 0 THEN Append(s, c.data) ELSE s,
                     << >>, io.cq)

\* Datagrams that arrived and were not delivered; a wake that was not reported.
Inbox == io.deferred_rx \o Received \o io.socket
Owed == io.eventfd > 0 \/ io.deferred_woken \/ \E c \in ToSet(io.cq) : c.op = "waker"

Promise == INSTANCE Driver WITH
    fate <- [p \in Packets |-> Fate(p)], inbox <- Inbox, owed <- Owed, dead <- pc = "failed"

\* The driver keeps what the event loops are promised (transport/mod.rs, trait Driver):
\* a datagram given to submit_sends is transmitted once, or is given up on a permanent
\* error, across full rings, retries, GSO batches that are split, and bundles the kernel
\* cut short; received datagrams are delivered in order although some are harvested
\* inside submit_sends; a wake harvested there is reported by the next poll.
KeepsPromise == Promise!Spec

Entries(op) ==
    Cardinality({i \in DOMAIN io.sq : io.sq[i].op = op}) + Cardinality({e \in io.posted : e.op = op})

Completions(Test(_)) == Cardinality({i \in DOMAIN io.cq : Test(io.cq[i])})

\* The type invariant: what the driver holds are submitted datagrams, no more is delivered
\* than arrived, the submission queue keeps to its size and waits to their bound.
TypeOK ==
    /\ pc \in {"idle", "poll", "norx", "wait", "failed"} /\ waits \in 0..setup.waits
    /\ next \in 1..Len(setup.pkts) + 1 /\ Len(delivered) <= arrived
    /\ Len(io.sq) <= setup.slots /\ ~io.err
    /\ ToSet(io.pending_tx) \cup io.lost \subseteq DOMAIN setup.pkts

\* On an enabled ring one multishot receive and one read of the eventfd are outstanding
\* or completed and not harvested: never none (the worker would be deaf to packets or to
\* its commands), never two (both reads would use waker_buf).
ReadsArmedOnce == io.enabled /\ pc # "failed" =>
    /\ Entries("recv") + Completions(LAMBDA c : c.op = "recv" /\ ~c.more) = 1
    /\ Entries("waker") + Completions(LAMBDA c : c.op = "waker") = 1

\* A slot is in flight exactly while one request or completion names it, so its buffer
\* is not reused under the kernel, and the two gauges count just these slots.
SlotsMatchRequests ==
    LET busy == {i \in DOMAIN io.slots : io.slots[i] # << >>} IN
    /\ \A i \in DOMAIN io.slots :
          Cardinality({j \in DOMAIN io.sq : io.sq[j] = Send(i)})
            + Cardinality({e \in io.posted : e = Send(i)})
            + Completions(LAMBDA c : c.op = "send" /\ c.at = i) = IF i \in busy THEN 1 ELSE 0
    /\ io.tx_in_flight = Cardinality(busy)
    /\ io.tx_bytes_in_flight = FoldLeft(LAMBDA n, pkts : n + Bytes(pkts), 0, io.slots)

\* The bytes in flight exceed tx_bytes_cap by less than one datagram, unless a single
\* request carries more (the bundle path has no cap and is left out).
CapHolds == ~setup.bundle =>
    \/ io.tx_in_flight = 1
    \/ \E p \in DOMAIN setup.pkts : io.tx_bytes_in_flight < setup.cap + setup.pkts[p].len
    \/ io.tx_bytes_in_flight = 0

\* No provided RX buffer leaks: each is the kernel's or carries a completion.
BuffersConserved == io.free + Completions(LAMBDA c : c.op = "recv" /\ c.data # 0) = setup.bufs
=============================================================================
