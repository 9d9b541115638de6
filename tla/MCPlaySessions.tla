--------------------------- MODULE MCPlaySessions ---------------------------
(* The instances have two pool threads, one stream id and two sessions. *)
EXTENDS PlaySessions
=============================================================================
