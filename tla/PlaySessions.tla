---------------------------- MODULE PlaySessions ----------------------------
(***************************************************************************)
(* The play sessions of the gateway: SessionMange's map of shared pointers *)
(* and the requests that work on it.  start_real_stream, start_play_back   *)
(* and stop_play run on the pool's threads, onclose on an XHNetSDK thread, *)
(* and the Dahua SDK's stream thread reports write errors in sendMS.  Only *)
(* the map itself is locked.  A PlaySession is destroyed when the map and  *)
(* the handlers have let go of it; its destructor closes the media         *)
(* connection and nothing else.                                            *)
(***************************************************************************)
EXTENDS FiniteSets, Naturals

CONSTANTS Handlers,   \* pool threads
          Keys,       \* stream ids
          Sessions,   \* bound: PlaySession objects ever made
          None

ASSUME SessionsAssumption == None \notin Sessions /\ None \notin Keys

VARIABLES session_map,  \* [Keys -> Sessions \cup {None}]
          pc,           \* what each handler does next
          key,          \* its streamId
          session,      \* its local PlaySessionPtr
          made,         \* sessions constructed so far
          destroyed,    \* sessions whose destructor has run
          handle,       \* m_lRealPlayHandle or m_lRecordPlayHandle # 0
          stream,       \* the device delivers to the session's callback
          is_run,       \* _is_run
          media,        \* nMediaClient # 0
          conn,         \* the media connection, as XHNetSDK sees it
          kept,         \* history: write or disconnect reported an error
          stopped,      \* history: sessions a stop_play has returned from
          refused,      \* history: the device refused to stop their stream
          orphaned      \* history: no place in the map, or lost it, though no
                        \* stop_play had found them

vars == <<session_map, pc, key, session, made, destroyed, handle, stream, is_run,
          media, conn, kept, stopped, refused, orphaned>>
deviceVars == <<handle, stream, is_run>>
history == <<stopped, refused, orphaned>>
mediaVars == <<media, conn, kept>>

PlaySteps == {"connect", "start", "insert", "playReturn"}
StopSteps == {"stop", "clear", "disconnect", "delete", "stopReturn"}

TypeOK ==
  /\ session_map \in [Keys -> Sessions \cup {None}]
  /\ pc \in [Handlers -> {"idle"} \cup PlaySteps \cup StopSteps]
  /\ key \in [Handlers -> Keys \cup {None}]
  /\ session \in [Handlers -> Sessions \cup {None}]
  /\ made \subseteq Sessions
  /\ destroyed \subseteq made
  /\ \A f \in {handle, stream, is_run, media} : f \in [Sessions -> BOOLEAN]
  /\ conn \in [Sessions -> {"none", "open", "lost", "gone", "closed"}]
  /\ kept \subseteq made
  /\ stopped \subseteq made /\ refused \subseteq made /\ orphaned \subseteq made
  \* a shared pointer never outlives its session
  /\ \A h \in Handlers : session[h] # None => session[h] \in made \ destroyed
  /\ \A k \in Keys : session_map[k] # None => session_map[k] \in made \ destroyed

Init ==
  /\ session_map = [k \in Keys |-> None]
  /\ pc = [h \in Handlers |-> "idle"]
  /\ key = [h \in Handlers |-> None]
  /\ session = [h \in Handlers |-> None]
  /\ made = {} /\ destroyed = {}
  /\ handle = [s \in Sessions |-> FALSE]
  /\ stream = [s \in Sessions |-> FALSE]
  /\ is_run = [s \in Sessions |-> FALSE]
  /\ media = [s \in Sessions |-> FALSE]
  /\ conn = [s \in Sessions |-> "none"]
  /\ kept = {} /\ stopped = {} /\ refused = {} /\ orphaned = {}
-----------------------------------------------------------------------------
goto(h, step) == pc' = [pc EXCEPT ![h] = step]

\* XHNetSDK_Disconnect: refused for a handle the library no longer knows.
XHNetSDK_Disconnect(s, ok) ==
  /\ ok => conn[s] \in {"open", "lost"}
  /\ conn' = IF ok THEN [conn EXCEPT ![s] = "closed"] ELSE conn

\* disconnetMS: the handle is zeroed only when the library closed it.
disconnetMS(s) ==
  \/ ~media[s] /\ UNCHANGED mediaVars
  \/ /\ media[s]
     /\ \E ok \in BOOLEAN :
          /\ XHNetSDK_Disconnect(s, ok)
          /\ media' = [media EXCEPT ![s] = ~ok]
          /\ kept' = IF ok THEN kept ELSE kept \cup {s}

InMap(s) == \E k \in Keys : session_map[k] = s

\* Mutant: the destructor leaves the media connection alone.
Release_NoDisconnect(s) ==
  LET last == \A h \in Handlers : session'[h] # s
      gone == \A k \in Keys : session_map'[k] # s
  IN  /\ destroyed' = IF last /\ gone THEN destroyed \cup {s} ELSE destroyed
      /\ UNCHANGED mediaVars

\* Mutant: the object is deleted when the map lets go of it.
Release_IgnoresHandlers(s) ==
  IF \A k \in Keys : session_map'[k] # s
  THEN /\ destroyed' = destroyed \cup {s}
       /\ disconnetMS(s)
  ELSE UNCHANGED <<destroyed, mediaVars>>

\* A reference to s was dropped; the last one runs ~PlaySession.
Release(s) ==
  IF /\ \A h \in Handlers : session'[h] # s
     /\ \A k \in Keys : session_map'[k] # s
  THEN /\ destroyed' = destroyed \cup {s}
       /\ disconnetMS(s)
  ELSE UNCHANGED <<destroyed, mediaVars>>

\* The handler returns: its local pointer goes out of scope.
return(h) ==
  /\ session' = [session EXCEPT ![h] = None]
  /\ key' = [key EXCEPT ![h] = None]
  /\ goto(h, "idle")
  /\ Release(session[h])
-----------------------------------------------------------------------------
(***************************************************************************)
(* start_real_stream and start_play_back; which of the two the request is  *)
(* shows at the start step only.                                           *)
(***************************************************************************)

\* "has playing": GetPlaySession's pointer is held until the return.
GetForPlay_Found(h, k) ==
  /\ session_map[k] # None
  /\ session' = [session EXCEPT ![h] = session_map[k]]
  /\ goto(h, "playReturn")
  /\ UNCHANGED made

\* Nothing in the map: a PlaySession is made.  (_is_run is not
\* initialised, and not read before the start assigns it: no stream, no sendMS.)
GetForPlay_New(h, k) ==
  /\ session_map[k] = None
  /\ \E s \in Sessions \ made :
       /\ made' = made \cup {s}
       /\ session' = [session EXCEPT ![h] = s]
  /\ goto(h, "connect")

GetForPlay(h, k) ==
  /\ pc[h] = "idle"
  /\ GetForPlay_Found(h, k) \/ GetForPlay_New(h, k)
  /\ key' = [key EXCEPT ![h] = k]
  /\ UNCHANGED <<session_map, destroyed, deviceVars, mediaVars, history>>

\* setMSAddr, left out when sdpIp is empty; a failed connect is only logged.
connetMS(h) ==
  LET s == session[h]
  IN  /\ pc[h] = "connect"
      /\ \/ /\ media' = [media EXCEPT ![s] = TRUE]
            /\ conn' = [conn EXCEPT ![s] = "open"]
         \/ UNCHANGED <<media, conn>>
      /\ goto(h, "start")
      /\ UNCHANGED <<session_map, key, session, made, destroyed, deviceVars, kept, history>>

\* The device accepted the play request: it delivers to the session.
Plays(s) ==
  /\ handle' = [handle EXCEPT ![s] = TRUE]
  /\ stream' = [stream EXCEPT ![s] = TRUE]
  /\ is_run' = [is_run EXCEPT ![s] = TRUE]

\* A failing CLIENT_MakeKeyFrame returns 0, a failing RealPlay its error.
startRealPlaySession(h) ==
  LET s == session[h]
  IN  /\ pc[h] = "start"
      /\ \/ Plays(s) /\ goto(h, "insert")
         \/ UNCHANGED deviceVars /\ goto(h, "insert")
         \/ /\ is_run' = [is_run EXCEPT ![s] = TRUE]
            /\ UNCHANGED <<handle, stream>>
            /\ goto(h, "playReturn")
      /\ UNCHANGED <<session_map, key, session, made, destroyed, mediaVars, history>>

\* A failing CLIENT_SetDeviceMode or PlayBack returns its error.
startRecordPlaySession(h) ==
  /\ pc[h] = "start"
  /\ \/ Plays(session[h]) /\ goto(h, "insert")
     \/ UNCHANGED deviceVars /\ goto(h, "playReturn")
  /\ UNCHANGED <<session_map, key, session, made, destroyed, mediaVars, history>>

\* Mutant: session_map[key] = p instead of insert.
InsertPlaySession_Overwrites(h) ==
  LET k == key[h]
  IN  /\ pc[h] = "insert"
      /\ session_map' = [session_map EXCEPT ![k] = session[h]]
      /\ goto(h, "playReturn")
      /\ UNCHANGED <<key, session, made, deviceVars, history>>
      /\ IF session_map[k] = None THEN UNCHANGED <<destroyed, mediaVars>>
                                  ELSE Release(session_map[k])

\* unordered_map::insert keeps an entry the key already has; true either way.
InsertPlaySession(h) ==
  LET k == key[h]
  IN  /\ pc[h] = "insert"
      /\ \/ /\ session_map[k] = None
            /\ session_map' = [session_map EXCEPT ![k] = session[h]]
            /\ UNCHANGED orphaned
         \/ /\ session_map[k] # None
            /\ UNCHANGED session_map
            /\ orphaned' = orphaned \cup {session[h]}
      /\ goto(h, "playReturn")
      /\ UNCHANGED <<key, session, made, destroyed, deviceVars, mediaVars, stopped, refused>>

PlayReturn(h) ==
  /\ pc[h] = "playReturn"
  /\ UNCHANGED <<session_map, made, deviceVars, history>>
  /\ return(h)
-----------------------------------------------------------------------------
(***************************************************************************)
(* stop_play.  A key without a session returns -1 and changes nothing.     *)
(***************************************************************************)

GetForStop(h, k) ==
  /\ pc[h] = "idle"
  /\ IF session_map[k] = None
     THEN UNCHANGED <<pc, key, session>>
     ELSE /\ session' = [session EXCEPT ![h] = session_map[k]]
          /\ key' = [key EXCEPT ![h] = k]
          /\ goto(h, "stop")
  /\ UNCHANGED <<session_map, made, destroyed, deviceVars, mediaVars, history>>

\* Mutant: a session that is not running is taken for one that has stopped.
stopSession_IfRunning(h) ==
  LET s == session[h]
  IN  /\ pc[h] = "stop"
      /\ is_run' = [is_run EXCEPT ![s] = FALSE]
      /\ \/ /\ is_run[s] /\ handle[s]
            /\ \/ stream[s] /\ stream' = [stream EXCEPT ![s] = FALSE] /\ UNCHANGED refused
               \/ UNCHANGED stream /\ refused' = IF stream[s] THEN refused \cup {s} ELSE refused
            /\ goto(h, "clear")
         \/ /\ ~(is_run[s] /\ handle[s])
            /\ UNCHANGED <<stream, refused>>
            /\ goto(h, "delete") \/ goto(h, "disconnect")
      /\ UNCHANGED <<session_map, key, session, made, destroyed, handle, mediaVars, stopped, orphaned>>

(***************************************************************************)
(* stopSession: CLIENT_StopPlayBack or CLIENT_StopRealPlayEx, whose error  *)
(* is only reported (a second stop of the same handle is one).  Without a  *)
(* handle the uninitialised m_lDowloadPlayHandle decides whether           *)
(* disconnetMS is reached.                                                 *)
(***************************************************************************)
stopSession(h) ==
  LET s == session[h]
  IN  /\ pc[h] = "stop"
      /\ is_run' = [is_run EXCEPT ![s] = FALSE]
      /\ \/ /\ handle[s]
            /\ \/ stream[s] /\ stream' = [stream EXCEPT ![s] = FALSE] /\ UNCHANGED refused
               \/ UNCHANGED stream /\ refused' = IF stream[s] THEN refused \cup {s} ELSE refused
            /\ goto(h, "clear")
         \/ /\ ~handle[s]
            /\ UNCHANGED <<stream, refused>>
            /\ goto(h, "delete") \/ goto(h, "disconnect")
      /\ UNCHANGED <<session_map, key, session, made, destroyed, handle, mediaVars, stopped, orphaned>>

stopSession_clear(h) ==
  /\ pc[h] = "clear"
  /\ handle' = [handle EXCEPT ![session[h]] = FALSE]
  /\ goto(h, "disconnect")
  /\ UNCHANGED <<session_map, key, session, made, destroyed, stream, is_run, mediaVars, history>>

stopSession_disconnect(h) ==
  /\ pc[h] = "disconnect"
  /\ disconnetMS(session[h])
  /\ goto(h, "delete")
  /\ UNCHANGED <<session_map, key, session, made, destroyed, deviceVars, history>>

\* Mutant: the map entry is kept when the media connection could not be closed.
DelPlaySession_OnlyIfClosed(h) ==
  /\ pc[h] = "delete"
  /\ session_map' = IF media[session[h]] THEN session_map
                                         ELSE [session_map EXCEPT ![key[h]] = None]
  /\ goto(h, "stopReturn")
  /\ UNCHANGED <<key, session, made, deviceVars, history>>
  /\ LET s == session_map[key[h]]
     IN  IF s = None THEN UNCHANGED <<destroyed, mediaVars>> ELSE Release(s)

\* DelPlaySession(key): whatever the map has under the key by now.
DelPlaySession(h) ==
  /\ pc[h] = "delete"
  /\ session_map' = [session_map EXCEPT ![key[h]] = None]
  /\ orphaned' = orphaned \cup ({session_map[key[h]]} \ {session[h], None})
  /\ goto(h, "stopReturn")
  /\ UNCHANGED <<key, session, made, deviceVars, stopped, refused>>
  /\ LET s == session_map[key[h]]
     IN  IF s = None THEN UNCHANGED <<destroyed, mediaVars>> ELSE Release(s)

StopReturn(h) ==
  /\ pc[h] = "stopReturn"
  /\ stopped' = stopped \cup {session[h]}
  /\ UNCHANGED <<session_map, made, deviceVars, refused, orphaned>>
  /\ return(h)
-----------------------------------------------------------------------------
(***************************************************************************)
(* The network and the stream thread.                                      *)
(***************************************************************************)

\* XHNetSDK_Write failed in sendMS: the handle is forgotten, not closed.
sendMS_error(s) ==
  /\ s \notin destroyed
  /\ stream[s] /\ is_run[s] /\ media[s]
  /\ is_run' = [is_run EXCEPT ![s] = FALSE]
  /\ media' = [media EXCEPT ![s] = FALSE]
  /\ kept' = kept \cup {s}
  /\ UNCHANGED <<session_map, pc, key, session, made, destroyed, handle, stream, conn, history>>

\* The media server or the network ends the connection.
ConnectionLost(s) ==
  /\ conn[s] = "open"
  /\ conn' = [conn EXCEPT ![s] = "lost"]
  /\ UNCHANGED <<session_map, pc, key, session, made, destroyed, deviceVars, media, kept, history>>

\* onclose -> DisconnetPlaySession: the entry whose get_clihandle matches.
\* (After erase(it) the loop reads the erased iterator; handles are unique,
\* so wherever it goes on no further entry matches.)
onclose(s) ==
  /\ conn[s] = "lost"
  /\ LET erased == media[s] /\ InMap(s)
         last == erased /\ \A h \in Handlers : session[h] # s
     IN  /\ session_map' = IF erased
                           THEN [k \in Keys |-> IF session_map[k] = s THEN None ELSE session_map[k]]
                           ELSE session_map
         /\ orphaned' = IF erased THEN orphaned \cup {s} ELSE orphaned
         /\ destroyed' = IF last THEN destroyed \cup {s} ELSE destroyed
         /\ \/ /\ conn' = [conn EXCEPT ![s] = "gone"]
               /\ UNCHANGED media
            \/ /\ last    \* ~PlaySession: the library may still take the disconnect
               /\ conn' = [conn EXCEPT ![s] = "closed"]
               /\ media' = [media EXCEPT ![s] = FALSE]
  /\ UNCHANGED <<pc, key, session, made, deviceVars, kept, stopped, refused>>
-----------------------------------------------------------------------------
Handler(h) ==
  \/ connetMS(h) \/ startRealPlaySession(h) \/ startRecordPlaySession(h)
  \/ InsertPlaySession(h) \/ PlayReturn(h)
  \/ stopSession(h) \/ stopSession_clear(h) \/ stopSession_disconnect(h)
  \/ DelPlaySession(h) \/ StopReturn(h)

Next ==
  \/ \E h \in Handlers, k \in Keys : GetForPlay(h, k) \/ GetForStop(h, k)
  \/ \E h \in Handlers : Handler(h)
  \/ \E s \in Sessions : sendMS_error(s) \/ ConnectionLost(s) \/ onclose(s)

\* A pool thread finishes the request it works on; nothing is owed by the
\* outside: no request, no network event need ever come.
Fairness == \A h \in Handlers : WF_vars(Handler(h))

Spec == Init /\ [][Next]_vars
FairSpec == Spec /\ Fairness
-----------------------------------------------------------------------------
(***************************************************************************)
(* A session some stop_play has finished with is out of the map for good,  *)
(* even when the device or the media library refused to stop it, and       *)
(* however stop and play requests for the key interleave.                  *)
(***************************************************************************)
StoppedSessionsLeave == \A s \in stopped : ~InMap(s)

(***************************************************************************)
(* The media connection of a destroyed session is closed, unless the media *)
(* library itself reported an error on it (a failed write makes sendMS     *)
(* forget the handle; a refused disconnect is not tried again).            *)
(***************************************************************************)
ConnectionsClosed == \A s \in destroyed \ kept : conn[s] \notin {"open", "lost"}

(***************************************************************************)
(* rtp_packet_callback_func_netsdk is given a raw pointer.  The device does *)
(* not deliver to a session that a stop_play has finished with, unless it  *)
(* refused to stop.  (Of other sessions see StreamsHaveOwners.)            *)
(***************************************************************************)
StoppedSilent == \A s \in stopped : stream[s] => s \in refused

(***************************************************************************)
(* A stream that runs can be stopped: its session is in the map, or is     *)
(* about to be put there.  No interleaving of plays, stops and network     *)
(* events makes another exception than these, all of them the code's: the  *)
(* device refused a stop; a second play of the key came too late for the   *)
(* map; onclose or a stop_play that had found the key's earlier session    *)
(* took the entry away.                                                    *)
(***************************************************************************)
StreamsHaveOwners ==
  \A s \in Sessions : stream[s] =>
    \/ InMap(s)
    \/ \E h \in Handlers : pc[h] = "insert" /\ session[h] = s
    \/ s \in refused \cup orphaned

\* Some stop_play works on s.
Stopping(s) == \E h \in Handlers : pc[h] \in StopSteps /\ session[h] = s

(***************************************************************************)
(* A stop_play that found its session leads to the destruction of that     *)
(* session: no handler and no map entry keeps a reference for ever.        *)
(***************************************************************************)
StopDestroys == \A s \in Sessions : Stopping(s) ~> s \in destroyed
-----------------------------------------------------------------------------
(***************************************************************************)
(* DHGatewayServer.cpp:121, "closed by the network: the session has to be  *)
(* reclaimed": after onclose, with no request at work, it is out of the    *)
(* map.                                                                    *)
(***************************************************************************)
OncloseReclaims ==
  \A s \in Sessions : conn[s] = "gone" /\ (\A h \in Handlers : pc[h] = "idle") => ~InMap(s)
=============================================================================
