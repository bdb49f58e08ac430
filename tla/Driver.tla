------------------------------- MODULE Driver -------------------------------
(***************************************************************************)
(* What the event loops rely on in a transport driver, whichever system    *)
(* interface it uses (the trait Driver and its waker).  Each datagram that *)
(* submit_sends takes is held until it is transmitted once or given up on  *)
(* a permanent error; datagrams that arrive are delivered in order and     *)
(* none is skipped; a wake is reported by some later poll.  A driver that  *)
(* has returned an error is dead: the worker stops.                        *)
(***************************************************************************)
EXTENDS Naturals, Sequences

CONSTANT Packets  \* the datagrams the event loop submits

VARIABLES
    fate,       \* of a datagram: "new", "held", "sent" or "lost"
    inbox,      \* datagrams that arrived and were not delivered
    delivered,  \* datagrams delivered
    owed,       \* a wake was not reported yet
    dead        \* poll or submit_sends returned an error

vars == <<fate, inbox, delivered, owed, dead>>

Init ==
    /\ fate = [p \in Packets |-> "new"]
    /\ inbox = << >> /\ delivered = << >> /\ ~owed /\ ~dead

\* new datagrams are taken, held ones leave; nothing leaves twice
Sends ==
    \A p \in Packets :
        \/ fate'[p] = fate[p]
        \/ fate[p] = "new" /\ fate'[p] \in {"held", "sent", "lost"}
        \/ fate[p] = "held" /\ fate'[p] \in {"sent", "lost"}

Submit == ~dead /\ Sends /\ UNCHANGED <<inbox, delivered, owed, dead>>

Arrive == \E x \in {Len(delivered) + Len(inbox) + 1} :
    inbox' = Append(inbox, x) /\ UNCHANGED <<fate, delivered, owed, dead>>

Wake == owed' = TRUE /\ UNCHANGED <<fate, inbox, delivered, dead>>

\* poll reports a wake only when there was one, and may have more to report
Poll ==
    /\ ~dead /\ Sends
    /\ \E n \in 0..Len(inbox) :
          /\ delivered' = delivered \o SubSeq(inbox, 1, n)
          /\ inbox' = SubSeq(inbox, n + 1, Len(inbox))
    /\ owed' => owed
    /\ UNCHANGED dead

\* what the failing call had not sent is lost
Fail == ~dead /\ dead' = TRUE /\ Sends /\ UNCHANGED <<inbox, delivered, owed>>

Next == Submit \/ Arrive \/ Wake \/ Poll \/ Fail

Spec == Init /\ [][Next]_vars

\* Held datagrams are transmitted or given up, the arrived ones are delivered and
\* wakes are reported, unless the driver dies: this is what must not last, once
\* nothing is added any more.
Owes == ~dead /\ (inbox # << >> \/ owed \/ \E p \in Packets : fate[p] = "held")
=============================================================================
