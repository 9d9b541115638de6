----------------------------- MODULE MessageIds -----------------------------
(***************************************************************************)
(* The msgIds of the messages the gateway sends of its own accord.  A      *)
(* gateway_msg counts them in msg_id and puts the number into the string   *)
(* msg_id_b ("b_") or msg_id_h ("h_") in place:                            *)
(*                                                                         *)
(*     msg_id++;  ... msg_id_b += to_string(msg_id) ...;  msg_id_b = "b_"; *)
(*                                                                         *)
(* without a lock.  server_manage's gateway_msg is shared by start_server, *)
(* which reports the saved platforms, and by the pool threads that add     *)
(* one; client_manage's by the heartbeat and the listener.                 *)
(*                                                                         *)
(* A string is the sequence of numbers appended to its prefix, or Garbled  *)
(* after two threads wrote it at once.                                     *)
(***************************************************************************)
EXTENDS Naturals, Sequences

CONSTANTS Builders,   \* threads that build such messages
          FirstId,    \* msg_id before they start
          Garbled

ASSUME IdsAssumption == FirstId \in Nat /\ Garbled \notin Seq(Nat)

VARIABLES msg_id,
          msg_id_b,   \* or msg_id_h: what stands behind the prefix
          build,      \* threads: the next step of the build
          loaded,     \* ... what msg_id++ has read
          undisturbed,\* history: no other build has met this one
          ids         \* history: the msgIds built

idVars == <<msg_id, msg_id_b, build, loaded, undisturbed, ids>>

Text == Seq(Nat) \cup {Garbled}
BuildSteps == {"none", "store", "append", "take", "reset"}

IdsTypeOK ==
  /\ msg_id \in Nat
  /\ msg_id_b \in Text
  /\ build \in [Builders -> BuildSteps]
  /\ loaded \in [Builders -> Nat]
  /\ undisturbed \in [Builders -> BOOLEAN]
  /\ ids \in Seq([id : Text, undisturbed : BOOLEAN])

IdsInit ==
  /\ msg_id = FirstId /\ msg_id_b = <<>>
  /\ build = [t \in Builders |-> "none"]
  /\ loaded = [t \in Builders |-> 0]
  /\ undisturbed = [t \in Builders |-> TRUE]
  /\ ids = <<>>
-----------------------------------------------------------------------------
Building == {t \in Builders : build[t] # "none"}

Proceed(t, from, to) == build[t] = from /\ build' = [build EXCEPT ![t] = to]

\* msg_id++ reads ...
msg_id_load(t) ==
  /\ Proceed(t, "none", "store")
  /\ loaded' = [loaded EXCEPT ![t] = msg_id]
  /\ undisturbed' = [u \in Builders |->
                       IF u = t THEN Building = {} ELSE undisturbed[u] /\ u \notin Building]
  /\ UNCHANGED <<msg_id, msg_id_b, ids>>

\* ... and writes.
msg_id_store(t) ==
  /\ Proceed(t, "store", "append")
  /\ msg_id' = loaded[t] + 1
  /\ UNCHANGED <<msg_id_b, loaded, undisturbed, ids>>

\* Somebody else is about to write the string, or to read it.
Contended(t) == \E u \in Building \ {t} : build[u] \in {"append", "take", "reset"}

msg_id_append(t) ==
  /\ Proceed(t, "append", "take")
  /\ \/ msg_id_b # Garbled /\ msg_id_b' = Append(msg_id_b, msg_id)
     \/ (msg_id_b = Garbled \/ Contended(t)) /\ msg_id_b' = Garbled
  /\ UNCHANGED <<msg_id, loaded, undisturbed, ids>>

\* The JSON value takes a copy of the string, perhaps while another thread is
\* writing it.
msg_id_take(t) ==
  /\ Proceed(t, "take", "reset")
  /\ \E copy \in {msg_id_b, Garbled} :
       /\ copy = msg_id_b \/ Contended(t)
       /\ ids' = Append(ids, [id |-> copy, undisturbed |-> undisturbed[t]])
  /\ UNCHANGED <<msg_id, msg_id_b, loaded, undisturbed>>

\* Mutant: the string is not set back to its prefix.
msg_id_reset_Missing(t) ==
  /\ Proceed(t, "reset", "none")
  /\ loaded' = [loaded EXCEPT ![t] = 0]
  /\ UNCHANGED <<msg_id, msg_id_b, undisturbed, ids>>

msg_id_reset(t) ==
  /\ Proceed(t, "reset", "none")
  /\ msg_id_b' = <<>>
  /\ loaded' = [loaded EXCEPT ![t] = 0]
  /\ UNCHANGED <<msg_id, undisturbed, ids>>

Build(t) == msg_id_store(t) \/ msg_id_append(t) \/ msg_id_take(t) \/ msg_id_reset(t)
-----------------------------------------------------------------------------
(***************************************************************************)
(* A message whose build no other build met has a msgId of its own: its    *)
(* prefix and one number, larger than that of every such message before    *)
(* it, whatever the builds that did meet have left in the counter and in   *)
(* the string.                                                             *)
(***************************************************************************)
UndisturbedIdsGrow ==
  \A j \in DOMAIN ids : ids[j].undisturbed =>
    /\ ids[j].id \in Seq(Nat) /\ Len(ids[j].id) = 1
    /\ \A i \in 1 .. j - 1 : ids[i].undisturbed => ids[i].id[1] < ids[j].id[1]
=============================================================================
