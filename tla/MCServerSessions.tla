-------------------------- MODULE MCServerSessions --------------------------
(* Two shards, and streams that are cancelled with data pending. *)
EXTENDS ServerSessions

ResetSetups ==
    {[workers |-> 2, span |-> 1, connections |-> 1, scids |-> 1, sessions |-> 2,
      streams |-> {0}, pauses |-> FALSE, ops |-> {"write", "cancel"}]}
=============================================================================
