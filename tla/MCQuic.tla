------------------------------- MODULE MCQuic -------------------------------
(***************************************************************************)
(* Raw QUIC, for safety: the server (QuicServer) and the clients           *)
(* (QuicClients). They are explored side by side: `part' says which of     *)
(* them a behaviour is about. Variables of the same name are shared, and   *)
(* those a part does not have stay 0.                                      *)
(***************************************************************************)
EXTENDS QuicServer

VARIABLES part, \* which part a behaviour is about
    queued, pressured, call, live, ses, pc, left, releasing, drained

-----------------------------------------------------------------------------
(* QuicServer *)

Base == [workers |-> 1, span |-> 1, max |-> 1, home |-> <<0>>, retry |-> FALSE, cert |-> FALSE,
         sessions |-> 1, scids |-> 2, streams |-> {0}, chunks |-> {}, finals |-> {}, body |-> 0,
         credit |-> 0, reads |-> 0, budgets |-> {2}, ops |-> {}]

\* One connection, two streams and their writes.
Writing == [Base EXCEPT !.streams = {1}, !.chunks = {1}, !.finals = {1}, !.body = 2, !.credit = 1,
                        !.ops = {"destroy", "close", "stop"}]
EndsAlone == [Writing EXCEPT !.chunks = {}, !.finals = {0, 1}, !.ops = {"close", "stop", "server"}]
Two == [Base EXCEPT !.streams = {1, 5}, !.chunks = {2}, !.body = 2, !.credit = 2, !.scids = 1,
                    !.ops = {"datagram"}]

\* Two peers take turns in one slot.
Turns == [Base EXCEPT !.home = <<0, 0>>, !.sessions = 2, !.streams = {1}, !.chunks = {1}, !.body = 1,
                      !.credit = 1, !.ops = {"close"}]
IdleTurns == [Turns EXCEPT !.chunks = {}, !.ops = {"close", "idle", "retire"}]

\* Retry and certificates: a peer that uses both its tokens has two connections.
Retries == [Base EXCEPT !.span = 2, !.max = 2, !.retry = TRUE, !.cert = TRUE,
                        !.sessions = 2, !.scids = 2, !.streams = {}, !.ops = {"peerclose", "garbled"}]

\* What peers send, with small budgets.
Reading == [Base EXCEPT !.streams = {0, 4}, !.scids = 1, !.reads = 1, !.budgets = {0, 1}, !.ops = {"reset"}]

\* Two workers that fail; and two that are shut down.
Sharded == [Base EXCEPT !.workers = 2, !.home = <<0, 1>>, !.sessions = 2, !.streams = {1}, !.scids = 1,
                        !.chunks = {1}, !.body = 1, !.credit = 0, !.ops = {"fail"}]
Stopping == [Sharded EXCEPT !.streams = {}, !.chunks = {}, !.ops = {"server"}]

ServerSetups == {Writing, EndsAlone, Two, Turns, IdleTurns, Retries, Reading, Sharded, Stopping}

-----------------------------------------------------------------------------
(* QuicClients *)

One == [kind |-> "shared", sessions |-> {1}, opened |-> {0}, local |-> {}, remote |-> {},
        chunks |-> {1}, finals |-> {1}, body |-> 3, credit |-> 2, reads |-> 0,
        budgets |-> {1}, tick |-> 2, ops |-> {}]

\* One stream written to its end while it is stopped, destroyed and closed.
Sending == [One EXCEPT !.body = 2, !.ops = {"destroy", "stop", "close"}]

\* Two streams of one session, and end() without data.
TwoStreams == [One EXCEPT !.opened = {0, 4}, !.body = 1, !.credit = 1, !.finals = {0}]

\* A dedicated worker; openStream() may time out; datagrams use the window too.
Dedicated == [One EXCEPT !.kind = "dedicated", !.opened = {}, !.local = {0, 4}, !.body = 1,
                         !.credit = 1, !.finals = {}, !.ops = {"timeout", "close"}]
Datagrams == [One EXCEPT !.body = 2, !.ops = {"datagram"}]

\* Streams the server opens, read under every budget.
TwoRemote == [One EXCEPT !.opened = {}, !.remote = {1, 5}, !.chunks = {}, !.finals = {},
                         !.reads = 2, !.budgets = {1}, !.ops = {"reset"}]
Remote == [TwoRemote EXCEPT !.remote = {1}, !.reads = 3, !.budgets = {0, 1, 2},
                          !.ops = {"reset", "destroy", "statelessreset"}]

\* A request and its response on one stream.
Exchange == [One EXCEPT !.body = 1, !.reads = 2, !.credit = 1, !.budgets = {0, 2}, !.ops = {"idle", "stop", "peerclose"}]

\* Two sessions behind one window, which two writers of one byte never fill.
Sharing == [One EXCEPT !.sessions = {1, 2}, !.body = 1, !.credit = 1, !.finals = {}, !.ops = {"close"}]

ClientSetups == {Sending, TwoStreams, Dedicated, Datagrams, TwoRemote, Remote, Exchange, Sharing}

Clients == INSTANCE QuicClients WITH Setups <- ClientSetups

-----------------------------------------------------------------------------

ServerRest == <<part,
      queued, pressured, call, live, ses, pc, left, releasing, drained>>
ClientsRest == <<part,
      srv, sessions, server, issued, tokens, accepted>>
everything == <<part, vars,
      queued, pressured, call, live, ses, pc, left, releasing, drained>>

ServerInit ==
    /\ part = "server" /\ Init
    /\ queued = 0 /\ pressured = 0 /\ call = 0 /\ live = 0 /\ ses = 0 /\ pc = 0 /\ left = 0
    /\ releasing = 0 /\ drained = 0
ClientsInit ==
    /\ part = "clients" /\ Clients!Init
    /\ srv = 0 /\ sessions = 0 /\ server = 0 /\ issued = 0 /\ tokens = 0 /\ accepted = 0

QuicInit ==
    \/ ServerInit \/ ClientsInit

QuicNext ==
    \/ part = "server" /\ Next /\ UNCHANGED ServerRest
    \/ part = "clients" /\ Clients!Next /\ UNCHANGED ClientsRest

QuicSpec == QuicInit /\ [][QuicNext]_everything

-----------------------------------------------------------------------------
(* The properties of the parts. *)

\* The admission window of a raw QUIC endpoint holds exactly the units of the
\* commands and payloads that are queued, retained or being released.
WindowsTight ==
    /\ part = "server" => TypeOK /\ WindowTight
    /\ part = "clients" => Clients!TypeOK /\ Clients!WindowTight

\* Every byte written to a raw QUIC stream reaches quiche or is retained while the
\* stream lives, and a stream has ended for JavaScript only when all quiche had of
\* it has been read (quic_connection.rs).
BodyIntact == part = "clients" => Clients!NoByteLost /\ Clients!EndMeansAll

\* A chunk parked in JavaScript has something still to come that tries it again or
\* rejects it, and a payload retained in the worker is on a stream that quiche will
\* report writable (blocked streams are watched again after every partial send).
WritersHaveWakers ==
    /\ part = "server" => ParkedHasWaker /\ PendingIsWatched
    /\ part = "clients" => Clients!ParkedHasWaker /\ Clients!PendingIsWatched

\* JavaScript and the raw QUIC server agree on which sessions exist, as of the
\* events on their way, and every connection ID that routes a packet was issued by
\* the connection it leads to.
SessionsAgree == part = "server" => SessionsInStep /\ RoutesToOwner
=============================================================================
