----------------------------- MODULE MCRequests -----------------------------
(* Two recorders, one of them added by a request. *)
EXTENDS Requests, TLC

CONSTANTS d1, d2, k1, k2

MCKeyOf == d1 :> k1 @@ d2 :> k2
MCChans == k1 :> 1 @@ k2 :> 2
MCAsks == [kind : {"sync"}, dev : {d1, d2}]
     \cup [kind : {"record", "stop", "goto"}, dev : {d1}]
     \cup [kind : {"add", "addNoIp", "ack", "turn", "preset"}, dev : {d2}]
MCGarbage == {-1, 2}

\* For the PTZ commands alone.
MCPtzAsks == [kind : {"turn", "focus", "stopFocus"}, dev : {d1, d2}]
=============================================================================
