----------------------------- MODULE RtpStream ------------------------------
(***************************************************************************)
(* What a media server may rely on: it receives the packets of a session   *)
(* in order, each once and without a gap, up to the point where the        *)
(* session stops sending.                                                  *)
(***************************************************************************)
EXTENDS Naturals, Sequences

CONSTANT Packets

VARIABLES accepted,   \* packets the session took over from the packetiser
          received,   \* packets written to the media connection
          open        \* whether the session may still write

vars == <<accepted, received, open>>

Init == accepted = <<>> /\ received = <<>> /\ open \in BOOLEAN

Accept(p) == accepted' = Append(accepted, p) /\ UNCHANGED <<received, open>>

Transmit ==
  /\ open
  /\ \E n \in Len(received) + 1 .. Len(accepted) : received' = SubSeq(accepted, 1, n)
  /\ UNCHANGED <<accepted, open>>

Close == open /\ open' = FALSE /\ UNCHANGED <<accepted, received>>

\* The connection is opened once, before the first packet.
Open ==
  /\ accepted = <<>>
  /\ ~open
  /\ open' = TRUE
  /\ UNCHANGED <<accepted, received>>

Next == Transmit \/ Close \/ Open \/ \E p \in Packets : Accept(p)

Spec == Init /\ [][Next]_vars
=============================================================================
