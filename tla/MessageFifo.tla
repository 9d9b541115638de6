---------------------------- MODULE MessageFifo -----------------------------
(***************************************************************************)
(* What the gateway's message list promises: every message put in is       *)
(* handed on exactly once, in the order it was put in, and eventually.     *)
(* Inbox (server_manage) implements this.                                  *)
(***************************************************************************)
EXTENDS Naturals, Sequences

CONSTANT Messages

VARIABLES sent, delivered
vars == <<sent, delivered>>

Init == sent = <<>> /\ delivered = <<>>

Send == \E m \in Messages : sent' = Append(sent, m) /\ UNCHANGED delivered

Deliver ==
  /\ Len(delivered) < Len(sent)
  /\ delivered' = Append(delivered, sent[Len(delivered) + 1])
  /\ UNCHANGED sent

Next == Send \/ Deliver

Spec == Init /\ [][Next]_vars
FairSpec == Spec /\ WF_vars(Deliver)
=============================================================================
