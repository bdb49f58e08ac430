-------------------------- MODULE AdmissionWindow --------------------------
(***************************************************************************)
(* What the outbound write-admission window promises its users, with every *)
(* operation a single step: a budget that writers draw from, that the      *)
(* worker gives back to, and that a refused writer waits on.  The module   *)
(* OutboundAdmission implements it with the two atomics of                 *)
(* src/outbound_admission.rs.                                              *)
(***************************************************************************)
EXTENDS AdmissionCore

CONSTANTS Writers,  \* streams whose payloads share one worker's window
          Units     \* payload sizes a writer may ask for

VARIABLES queued,   \* units admitted and not yet released
          refused   \* writers that were refused and have not been woken

vars == <<queued, refused>>

Init == queued = 0 /\ refused = {}

Admit(w, u) ==
    /\ w \notin refused
    /\ admit_next(queued, u)
    /\ queued' = queued + u
    /\ UNCHANGED refused

\* Refusal is a statement about the present: the payload does not fit now.
Refuse(w, u) ==
    /\ w \notin refused
    /\ ~admit_next(queued, u)
    /\ refused' = refused \cup {w}
    /\ UNCHANGED queued

Release(u) ==
    /\ u \in 1..queued
    /\ queued' = queued - u
    /\ UNCHANGED refused

Wake(w) ==
    /\ w \in refused
    /\ refused' = refused \ {w}
    /\ UNCHANGED queued

Next ==
    \/ \E w \in Writers, u \in Units : Admit(w, u) \/ Refuse(w, u)
    \/ \E u \in 1..queued : Release(u)
    \/ \E w \in Writers : Wake(w)

SafeSpec == Init /\ [][Next]_vars

\* A refused writer is woken, unless other writers are admitted for ever: the
\* window reopens only at the low watermark, so admissions that keep it above
\* that mark can starve a writer that already waits.
WokenUnlessOthersAdmitted ==
    \A w \in Writers : (w \in refused ~> w \notin refused) \/ []<><<queued' > queued>>_vars

Spec == SafeSpec /\ WokenUnlessOthersAdmitted
=============================================================================
