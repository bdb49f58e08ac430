-------------------------- MODULE ReadinessDrivers --------------------------
(***************************************************************************)
(* The drivers that send at once and wait for readiness: PollDriver        *)
(* (Linux, poll(2) with sendmmsg and GSO), KqueueDriver (macOS, kevent     *)
(* with an edge-triggered read filter and a one-shot write filter, and     *)
(* optionally the batched sendmsg_x and recvmsg_x) and MockDriver (a pair  *)
(* of channels, for tests).                                                *)
(*                                                                         *)
(* A call is one step: nothing another thread does between the system      *)
(* calls of one poll changes its outcome except as if it came before or    *)
(* after.  A socket takes `room' more datagrams (or GSO batches) before it *)
(* would block.                                                            *)
(***************************************************************************)
EXTENDS Naturals, Sequences, FiniteSets, SequencesExt, Functions

CONSTANT Setups

AllFaults == {"fail", "size", "nosys", "norecvx", "rxerr", "intr", "loss", "closed"}

\* kind: the driver;  pkts: the lengths of the datagrams to send;  batch: most given to
\* one submit_sends;  room: what the socket takes at once;  gso: PollDriver's;
\* msgx: sendmsg_x and recvmsg_x are used, chunk: MSG_X_BATCH_SIZE;
\* maxrx: MAX_RX_PER_POLL;  tokens: capacity of the mock waker's channel;
\* rx, wakes: datagrams and wakes that arrive;  norx: poll_without_rx is used.
Setup(u) ==
    /\ u.kind \in {"poll", "kqueue", "mock"} /\ \A p \in DOMAIN u.pkts : u.pkts[p] \in Nat \ {0}
    /\ {u.batch, u.room, u.chunk, u.maxrx, u.tokens} \subseteq Nat \ {0}
    /\ {u.gso, u.msgx, u.norx} \subseteq BOOLEAN
    /\ {u.rx, u.wakes, u.errors} \subseteq Nat /\ u.faults \subseteq AllFaults

Packets == {x : x \in UNION {DOMAIN u.pkts : u \in Setups}}

VARIABLES
    setup,      \* fixed at the start
    net,        \* the driver and its socket: see Driver0
    next,       \* next datagram to send
    arrived,    \* datagrams that reached the socket
    woken,      \* calls of wake()
    delivered,  \* datagrams poll returned
    dead        \* a call returned an error

vars == <<setup, net, next, arrived, woken, delivered, dead>>

Driver0(u) == [
    unsent |-> << >>,
    write_interest_registered |-> FALSE,
    read_backlog |-> FALSE,
    send_enabled |-> u.msgx, recv_enabled |-> u.msgx,
    (* kernel *)
    room |-> u.room, socket |-> << >>,
    writeFilter |-> FALSE,  \* EVFILT_WRITE is registered
    readEdge |-> FALSE,     \* EVFILT_READ has an event
    wakes |-> 0,            \* eventfd, EVFILT_USER or the channel of the mock waker
    errors |-> 0,
    (* ghosts *)
    wire |-> [p \in DOMAIN u.pkts |-> 0], lost |-> {}]

Init ==
    /\ setup \in Setups /\ net = Driver0(setup)
    /\ next = 1 /\ arrived = 0 /\ woken = 0 /\ delivered = << >> /\ dead = FALSE

May(fault) == fault \in setup.faults /\ net.errors < setup.errors

Least(a, b) == IF a < b THEN a ELSE b

Transmit(x, pkts) ==
    [x EXCEPT !.wire = [p \in DOMAIN @ |-> IF p \in ToSet(pkts) THEN @[p] + 1 ELSE @[p]]]

Drop(x, pkts) == [x EXCEPT !.lost = @ \cup ToSet(pkts)]

Queue(x, pkts) == [x EXCEPT !.unsent = @ \o pkts]

Erred(x) == [x EXCEPT !.errors = @ + 1]

\* One send_to: the datagram at place `bad' meets a permanent error.
SendTo(x, pkts, i, bad) ==
    CASE i = bad -> Erred(Drop(x, <<pkts[i]>>))
      [] i # bad /\ x.room > 0 -> [Transmit(x, <<pkts[i]>>) EXCEPT !.room = @ - 1]
      [] OTHER -> Queue(x, <<pkts[i]>>)

Places(pkts) == {0} \cup IF May("fail") THEN DOMAIN pkts ELSE {}

\* the unsent queue, one datagram at a time: drain_unsent and drain_unsent_send_to
drain_unsent_send_to(x, bad) ==
    FoldLeft(LAMBDA y, i : SendTo(y, x.unsent, i, IF y.unsent = << >> THEN bad ELSE 0),
             [x EXCEPT !.unsent = << >>], [i \in DOMAIN x.unsent |-> i])

----------------------------------------------------------------------------
(* PollDriver. *)

MaxSegments == 64

\* runs of equal datagrams: the setups of this module send to one peer
group_for_gso(pkts) ==
    LET Group(batches, p) ==
            IF /\ batches # << >> /\ setup.pkts[Last(batches)[1]] = setup.pkts[p]
               /\ Len(Last(batches)) < MaxSegments
            THEN [batches EXCEPT ![Len(batches)] = Append(@, p)]
            ELSE Append(batches, <<p>>)
    IN FoldLeft(Group, << >>, pkts)

\* sendmmsg sends a prefix; an error of its first message is its result, one of a
\* later message only ends it early
Sendmmsg(batches) ==
    LET most == Least(net.room, Len(batches)) IN
    {[n |-> most, err |-> IF most = 0 THEN "again" ELSE "none"]}
      \cup (IF May("fail") THEN {[n |-> 0, err |-> "fail"]} \cup [n : 1..most, err : {"none"}] ELSE {})
      \cup (IF May("size") /\ \E b \in ToSet(batches) : Len(b) > 1 THEN {[n |-> 0, err |-> "size"]} ELSE {})

\* Mutant: after a partial sendmmsg everything is queued again.
send_batch_QueuesAll(x, batches, r) ==
    LET sent == [Transmit(x, FlattenSeq(SubSeq(batches, 1, r.n))) EXCEPT !.room = @ - r.n]
    IN IF r.n = Len(batches) THEN sent ELSE Queue(sent, FlattenSeq(batches))

send_batch(x, batches, r) ==
    LET rest == FlattenSeq(SubSeq(batches, r.n + 1, Len(batches)))
        sent == [Transmit(x, FlattenSeq(SubSeq(batches, 1, r.n))) EXCEPT
                    !.room = @ - r.n,
                    !.errors = IF r.err \in {"fail", "size"} \/ r.n < Least(x.room, Len(batches)) THEN @ + 1 ELSE @]
    IN IF r.err = "fail" THEN Drop(sent, rest) ELSE Queue(sent, rest)

Singles(pkts) == [i \in DOMAIN pkts |-> <<pkts[i]>>]

Batches == {[i \in 1..n |-> next + i - 1] : n \in 1..Least(setup.batch, Len(setup.pkts) + 1 - next)}

Submits(kind, pkts) ==
    /\ ~dead /\ setup.kind = kind /\ next' = next + Len(pkts)
    /\ UNCHANGED <<setup, arrived, woken, delivered>>

PollSubmitSends ==
    \E pkts \in Batches :
       /\ Submits("poll", pkts)
       /\ \E b \in {IF setup.gso /\ Len(pkts) > 1 THEN group_for_gso(pkts) ELSE Singles(pkts)} :
          \E r \in Sendmmsg(b) : net' = send_batch(net, b, r)
       /\ UNCHANGED dead

\* what poll returned: rx datagrams in order
Delivers(x, n) ==
    /\ net' = [x EXCEPT !.socket = SubSeq(@, n + 1, Len(@))]
    /\ delivered' = delivered \o SubSeq(x.socket, 1, n)
    /\ UNCHANGED <<setup, next, arrived, woken>>

\* POLLOUT is asked for only when something is unsent; both events are levels
PollPoll(receive) ==
    /\ ~dead /\ setup.kind = "poll" /\ (receive \/ setup.norx)
    /\ \E bad \in Places(net.unsent) :
       \E x \in {IF net.room > 0 THEN drain_unsent_send_to(net, bad) ELSE net} :
          Delivers([x EXCEPT !.wakes = 0], IF receive THEN Least(setup.maxrx, Len(net.socket)) ELSE 0)
    /\ UNCHANGED dead

----------------------------------------------------------------------------
(* KqueueDriver. *)

submit_sends_send_to(x, pkts, bad) ==
    FoldLeft(LAMBDA y, i : SendTo(y, pkts, i, bad), x, [i \in DOMAIN pkts |-> i])

\* sendmsg_x takes chunks until the socket is full.  A permanent error at the start of
\* a chunk hands the rest to send_to, and turns sendmsg_x off if it is not supported.
send_msg_x_queue(x, pkts) ==
    LET most == Least(x.room, Len(pkts))
        After(n) == [Transmit(x, SubSeq(pkts, 1, n)) EXCEPT !.room = @ - n]
        Rest(n) == SubSeq(pkts, n + 1, Len(pkts))
        Starts == {n \in {0, setup.chunk} : n <= most /\ n < Len(pkts)}
    IN {Queue(After(most), Rest(most))}
         \cup {submit_sends_send_to(Erred(After(n)), Rest(n), 0) :
                 n \in IF May("fail") THEN Starts ELSE {}}
         \cup {submit_sends_send_to([Erred(x) EXCEPT !.send_enabled = FALSE], pkts, 0) :
                 n \in IF May("nosys") /\ pkts # << >> THEN {0} ELSE {}}

Sends(x, pkts) ==
    IF x.send_enabled THEN send_msg_x_queue(x, pkts)
    ELSE {submit_sends_send_to(x, pkts, bad) : bad \in Places(pkts)}

KqueueSubmitSends ==
    \E pkts \in Batches :
       /\ Submits("kqueue", pkts)
       /\ net' \in Sends(net, pkts)
       /\ UNCHANGED dead

drain_unsent(x) ==
    IF x.send_enabled THEN send_msg_x_queue([x EXCEPT !.unsent = << >>], x.unsent)
    ELSE {drain_unsent_send_to(x, bad) : bad \in Places(x.unsent)}

\* the write filter follows the unsent queue
Watched(x) ==
    IF (x.unsent # << >>) = x.write_interest_registered THEN x
    ELSE [x EXCEPT !.write_interest_registered = ~@, !.writeFilter = ~x.write_interest_registered]

\* kevent returned: the events it reports are cleared, the write filter was one-shot
Reported(x) ==
    LET y == [x EXCEPT !.readEdge = FALSE, !.wakes = 0] IN
    IF x.writeFilter /\ x.room > 0
    THEN drain_unsent([y EXCEPT !.writeFilter = FALSE, !.write_interest_registered = FALSE])
    ELSE {y}

\* how many datagrams the receive loop takes, and whether it stopped at its cap
recvmsg_loop_into(x) ==
    LET n == Least(setup.maxrx, Len(x.socket)) IN
    {[x |-> x, n |-> n, more |-> n = setup.maxrx]}
      \cup (IF May("rxerr") THEN {[x |-> Erred(x), n |-> m, more |-> FALSE] : m \in 0..n} ELSE {})

recvmsg_x_loop_into(x) ==
    LET n == Least(setup.maxrx, Len(x.socket)) IN
    {[x |-> x, n |-> n, more |-> n = setup.maxrx]}
      \cup (IF May("norecvx") THEN {[x |-> [Erred(x) EXCEPT !.recv_enabled = FALSE], n |-> n,
                                    more |-> n = setup.maxrx]}
            ELSE {})

KqueuePoll(receive) ==
    /\ ~dead /\ setup.kind = "kqueue" /\ (receive \/ setup.norx)
    /\ \E x \in Reported(Watched(net)) :
          IF receive
          THEN \E r \in IF x.recv_enabled THEN recvmsg_x_loop_into(x) ELSE recvmsg_loop_into(x) :
                  Delivers([r.x EXCEPT !.read_backlog = r.more], r.n)
          ELSE Delivers(x, 0)
    /\ UNCHANGED dead

\* a signal: poll(2) returns an empty outcome, kevent an error
Interrupted ==
    /\ ~dead /\ May("intr")
    /\ \/ setup.kind = "poll" /\ net' = Erred(net) /\ UNCHANGED dead
       \/ setup.kind = "kqueue" /\ net' = Erred(Watched(net)) /\ dead' = TRUE
    /\ UNCHANGED <<setup, next, arrived, woken, delivered>>

----------------------------------------------------------------------------
(* MockDriver: nothing is ever queued. *)

\* each datagram is put into the peer's channel or lost on purpose; a peer that is
\* gone ends the call with an error
MockSubmitSends ==
    \E pkts \in Batches :
       /\ Submits("mock", pkts)
       /\ \E loss \in SUBSET (IF "loss" \in setup.faults THEN DOMAIN pkts ELSE {}),
             gone \in {Len(pkts) + 1} \cup IF May("closed") THEN DOMAIN pkts ELSE {} :
             /\ net' = FoldLeft(LAMBDA x, i : IF i < gone /\ i \notin loss THEN Transmit(x, <<pkts[i]>>)
                                              ELSE Drop(x, <<pkts[i]>>),
                                net, [i \in DOMAIN pkts |-> i])
             /\ dead' = (gone <= Len(pkts))

\* one wake token per poll, and none while there are datagrams
MockPoll(receive) ==
    /\ ~dead /\ setup.kind = "mock" /\ (receive \/ setup.norx)
    /\ IF receive /\ net.socket # << >> THEN Delivers(net, Len(net.socket))
       ELSE Delivers([net EXCEPT !.wakes = IF @ > 0 THEN @ - 1 ELSE 0], 0)
    /\ UNCHANGED dead

----------------------------------------------------------------------------
(* Wakers and kernel. *)

\* a full channel of the mock waker refuses; the events of the others coalesce
Wake ==
    /\ ~dead /\ woken < setup.wakes /\ woken' = woken + 1
    /\ net' = [net EXCEPT !.wakes = IF setup.kind = "mock" THEN Least(@ + 1, setup.tokens) ELSE 1]
    /\ UNCHANGED <<setup, next, arrived, delivered, dead>>

Arrive ==
    /\ ~dead /\ arrived < setup.rx /\ arrived' = arrived + 1
    /\ net' = [net EXCEPT !.socket = Append(@, arrived + 1), !.readEdge = TRUE]
    /\ UNCHANGED <<setup, next, woken, delivered, dead>>

\* the network takes what the socket had buffered
SocketDrains ==
    /\ ~dead /\ net.room < setup.room
    /\ net' = [net EXCEPT !.room = setup.room]
    /\ UNCHANGED <<setup, next, arrived, woken, delivered, dead>>

Polls(receive) == PollPoll(receive) \/ KqueuePoll(receive) \/ MockPoll(receive)

Next ==
    \/ PollSubmitSends \/ KqueueSubmitSends \/ MockSubmitSends
    \/ Polls(TRUE) \/ Polls(FALSE) \/ Interrupted
    \/ Wake \/ Arrive \/ SocketDrains

SafeSpec == Init /\ [][Next]_vars

\* The event loop polls again and again and the network takes what is sent.
Spec == SafeSpec /\ WF_vars(Polls(TRUE)) /\ WF_vars(SocketDrains)

----------------------------------------------------------------------------
(* Properties. *)

Fate(p) ==
    LET held == p \in ToSet(net.unsent) IN
    CASE p \notin DOMAIN setup.pkts \/ p >= next -> "new"
      [] OTHER -> CASE held /\ net.wire[p] = 0 -> "held"
                    [] ~held /\ net.wire[p] = 1 /\ p \notin net.lost -> "sent"
                    [] ~held /\ net.wire[p] = 0 /\ p \in net.lost -> "lost"
                    [] OTHER -> "astray"

Promise == INSTANCE Driver WITH
    fate <- [p \in Packets |-> Fate(p)], inbox <- net.socket, owed <- net.wakes > 0

\* Every field keeps its type; the token of a wake is kept at most as often as the
\* driver's channel holds, and no datagram is delivered that did not arrive.
TypeOK ==
    /\ net.room \in 0..setup.room
    /\ next \in 1..Len(setup.pkts) + 1 /\ net.wakes \in 0..setup.tokens
    /\ Len(delivered) + Len(net.socket) = arrived
    /\ ToSet(net.unsent) \cup net.lost \subseteq DOMAIN setup.pkts

\* All three drivers keep what the event loops are promised (transport/mod.rs, trait
\* Driver): a datagram leaves once or is given up on a permanent error, across partial
\* sendmmsg and sendmsg_x calls, split GSO batches and the fallback to send_to; what
\* arrives is delivered in order; a wake is reported.
KeepsPromise == Promise!Spec

\* The write filter is registered exactly when the driver believes so: a one-shot event
\* that fired and one that was deleted are both taken into account.
WriteInterestIsTrue == net.write_interest_registered = net.writeFilter

\* Datagrams left in the socket by KqueueDriver's receive cap do not wait for another
\* packet: the edge is still to come or read_backlog makes the next poll return at once.
\* (A poll without rx takes the edge and leaves the datagrams; so does a receive error.)
BacklogIsSignalled ==
    setup.kind = "kqueue" /\ ~setup.norx /\ "rxerr" \notin setup.faults /\ net.socket # << >>
       => net.readEdge \/ net.read_backlog
=============================================================================
