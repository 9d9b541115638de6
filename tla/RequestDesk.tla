----------------------------- MODULE RequestDesk -----------------------------
(***************************************************************************)
(* What the management platform may expect of a request that a gateway has *)
(* taken: it is answered once or abandoned once, never both and never      *)
(* again, and this happens eventually.  Only a device that was accepted is *)
(* reported as online, once, and after the answer.  The handlers (module   *)
(* Requests) are shown to implement this.                                  *)
(***************************************************************************)
CONSTANT Reqs       \* msgIds of the requests

VARIABLE state      \* where each request is

States == {"new", "taken", "answered", "accepted", "reported", "abandoned"}

Init == state = [r \in Reqs |-> "new"]

Move(r, from, to) == state[r] = from /\ state' = [state EXCEPT ![r] = to]

Take(r) == Move(r, "new", "taken")
Settle(r) == \E s \in {"answered", "accepted", "abandoned"} : Move(r, "taken", s)
Report(r) == Move(r, "accepted", "reported")

Next == \E r \in Reqs : Take(r) \/ Settle(r) \/ Report(r)

Spec == Init /\ [][Next]_state /\ \A r \in Reqs : WF_state(Settle(r)) /\ WF_state(Report(r))
=============================================================================
