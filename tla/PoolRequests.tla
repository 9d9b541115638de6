---------------------------- MODULE PoolRequests ----------------------------
(***************************************************************************)
(* Requests side by side on the threads of sdk_thread that share more than *)
(* lists and maps: those about the playback of one recorded stream share   *)
(* its PlaySession (PlaybackControl), those that add a platform share      *)
(* server_manage's gateway_msg with each other and with start_server,      *)
(* which reports the saved platforms meanwhile (MessageIds).  A thread of  *)
(* the pool works on one request at a time.                                *)
(***************************************************************************)
EXTENDS PlaybackControl, MessageIds, RecordQuery, FiniteSets

CONSTANTS Main,        \* the thread of start_server
          Saved,       \* platforms it reports
          MaxReqs,     \* bound: requests
          LastSecond   \* bound: times of the record queries

ASSUME PoolAssumption ==
  /\ Builders = Pool \cup {Main} /\ Main \notin Pool
  /\ {Saved, MaxReqs, LastSecond} \subseteq Nat

VARIABLES requests,    \* requests so far
          reported     \* platforms start_server has reported

counters == <<requests, reported>>
vars == <<controlVars, idVars, counters>>

TypeOK ==
  /\ ControlTypeOK /\ IdsTypeOK
  /\ requests \in 0 .. MaxReqs /\ reported \in 0 .. Saved
  /\ \A t \in Pool : step[t] = "idle" \/ build[t] = "none"

Init ==
  /\ ControlInit /\ IdsInit
  /\ requests = 0 /\ reported = 0

\* A free thread takes the next request.
arrives(t) ==
  /\ step[t] = "idle" /\ build[t] = "none"
  /\ requests < MaxReqs /\ requests' = requests + 1

\* DEVICE_RECORD_PAUSE, _RESUME, _SPEED, CHANNEL_STOP_PLAY.
device_record(t) ==
  /\ arrives(t)
  /\ \E a \in Asks : control(t, a)
  /\ UNCHANGED <<idVars, reported>>

\* DEVICE_ADD, once logged in: gm.device_add(2, platform).
device_add(t) ==
  /\ arrives(t)
  /\ msg_id_load(t)
  /\ UNCHANGED <<controlVars, reported>>

\* start_server's loop.
start_server_report ==
  /\ reported < Saved
  /\ reported' = reported + 1
  /\ msg_id_load(Main)
  /\ UNCHANGED <<controlVars, requests>>

Next ==
  \/ \E t \in Pool : device_record(t) \/ device_add(t)
  \/ start_server_report
  \/ \E t \in Pool : Control(t) /\ UNCHANGED <<idVars, counters>>
  \/ \E t \in Builders : Build(t) /\ UNCHANGED <<controlVars, counters>>

Spec == Init /\ [][Next]_vars
-----------------------------------------------------------------------------
(***************************************************************************)
(* RecordsExact for every query of the instance: any two files, any range. *)
(* No state takes part in it, so it is asked before the first request.     *)
(***************************************************************************)
RecordsClipped ==
  LET spans == {i \in [startTime : 0 .. LastSecond, endTime : 0 .. LastSecond] :
                  i.startTime <= i.endTime}
  IN  requests = 0 => \A file1, file2, range \in spans : RecordsExact({file1, file2}, range)
=============================================================================
