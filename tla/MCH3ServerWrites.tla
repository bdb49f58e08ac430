-------------------------- MODULE MCH3ServerWrites --------------------------
(* A whole response meets a window that another stream has filled. *)
EXTENDS H3ServerWrites

CONSTANTS s1, s2

ResponseSetups ==
    {[streams |-> {s1, s2}, responded |-> {s1}, chunks |-> {1}, finals |-> {1},
      body |-> 1, credit |-> 2, datagrams |-> 0, ops |-> {"respondWithBody"}]}
=============================================================================
