------------------------- MODULE PlaySessionsProofs -------------------------
(***************************************************************************)
(* Proofs about PlaySessions, for any number of pool threads, streams and  *)
(* sessions: types, what a stop_play leaves behind, and which streams can  *)
(* run on without anybody to stop them.                                    *)
(***************************************************************************)
EXTENDS PlaySessions, TLAPS

\* A handler has a session and a stream id while it works on a request.
BusyInv ==
  \A h \in Handlers :
    IF pc[h] = "idle" THEN session[h] = None
                      ELSE session[h] # None /\ key[h] \in Keys

\* The device delivers to sessions that were made.
MadeInv == \A s \in Sessions : stream[s] => s \in made

\* The steps between a session's construction and its place in the map.
Making == {"connect", "start", "insert"}

\* A session that is being made is known to its handler only.
OwnOf(h) ==
  pc[h] \in Making =>
    /\ session[h] \notin stopped
    /\ \A k \in Keys : session_map[k] # session[h]
    /\ \A g \in Handlers \ {h} : session[g] # session[h]
OwnInv == \A h \in Handlers : OwnOf(h)

\* A session is in the map under one key, the one its handlers have.
KeyInv ==
  /\ \A j, k \in Keys : session_map[j] = session_map[k] /\ session_map[k] # None => j = k
  /\ \A h \in Handlers, k \in Keys :
       session_map[k] = session[h] /\ session[h] # None => key[h] = k

\* DelPlaySession has taken the handler's own session out of the map.
LeftInv == \A h \in Handlers : pc[h] = "stopReturn" => \A k \in Keys : session_map[k] # session[h]

\* A stream without a handle is one the device refused to stop; stopSession
\* leaves no other.
SilentInv ==
  /\ \A s \in Sessions : stream[s] => handle[s] \/ s \in refused
  /\ \A h \in Handlers :
       pc[h] \in StopSteps \ {"stop"} /\ stream[session[h]] => session[h] \in refused

\* The session knows its living connection, unless an error was reported.
MediaInv == \A s \in Sessions : conn[s] \in {"open", "lost"} => media[s] \/ s \in kept
-----------------------------------------------------------------------------
(***************************************************************************)
(* disconnetMS and the end of a session.                                   *)
(***************************************************************************)
\* disconnetMS touches the connection of its session only, and leaves it
\* closed, known, or with an error reported.
LEMMA DisconnectEffect ==
  ASSUME TypeOK, NEW s \in made, disconnetMS(s)
  PROVE  /\ media' \in [Sessions -> BOOLEAN]
         /\ conn' \in [Sessions -> {"none", "open", "lost", "gone", "closed"}]
         /\ kept' \in {kept, kept \cup {s}}
         /\ \A x \in Sessions \ {s} : media'[x] = media[x] /\ conn'[x] = conn[x]
         /\ \/ conn'[s] = conn[s] /\ (media'[s] = media[s]) /\ (media[s] => s \in kept')
            \/ conn'[s] = "closed"
<1>1. /\ media \in [Sessions -> BOOLEAN] /\ s \in Sessions
      /\ conn \in [Sessions -> {"none", "open", "lost", "gone", "closed"}]
  BY DEF TypeOK
<1>2. CASE ~media[s] /\ UNCHANGED mediaVars
  BY <1>1, <1>2 DEF mediaVars
<1>3. ASSUME NEW ok \in BOOLEAN, media[s], XHNetSDK_Disconnect(s, ok),
             media' = [media EXCEPT ![s] = ~ok], kept' = IF ok THEN kept ELSE kept \cup {s}
      PROVE  /\ media' \in [Sessions -> BOOLEAN]
             /\ conn' \in [Sessions -> {"none", "open", "lost", "gone", "closed"}]
             /\ kept' \in {kept, kept \cup {s}}
             /\ \A x \in Sessions \ {s} : media'[x] = media[x] /\ conn'[x] = conn[x]
             /\ \/ conn'[s] = conn[s] /\ (media'[s] = media[s]) /\ (media[s] => s \in kept')
                \/ conn'[s] = "closed"
  <2>1. CASE ok
    BY <1>1, <1>3, <2>1 DEF XHNetSDK_Disconnect
  <2>2. CASE ~ok
    BY <1>1, <1>3, <2>2 DEF XHNetSDK_Disconnect
  <2>3. QED
    BY <2>1, <2>2
<1>4. QED
  BY <1>2, <1>3 DEF disconnetMS

\* Only a session nobody refers to any more is destroyed.
LEMMA ReleaseEffect ==
  ASSUME TypeOK, NEW s \in made, Release(s)
  PROVE  \/ UNCHANGED <<destroyed, mediaVars>>
         \/ /\ destroyed' = destroyed \cup {s}
            /\ \A h \in Handlers : session'[h] # s
            /\ \A k \in Keys : session_map'[k] # s
            /\ disconnetMS(s)
BY DEF Release

\* Dropping a reference keeps the types, and destroys what nobody else has.
LEMMA ReleaseType ==
  ASSUME TypeOK, NEW s \in made, Release(s)
  PROVE  /\ media' \in [Sessions -> BOOLEAN]
         /\ conn' \in [Sessions -> {"none", "open", "lost", "gone", "closed"}]
         /\ kept' \subseteq made /\ destroyed' \subseteq made
         /\ \A x \in destroyed' \ destroyed :
              (\A h \in Handlers : session'[h] # x) /\ (\A k \in Keys : session_map'[k] # x)
<1>1. CASE UNCHANGED <<destroyed, mediaVars>>
  BY <1>1 DEF mediaVars, TypeOK
<1>2. CASE /\ destroyed' = destroyed \cup {s}
           /\ \A h \in Handlers : session'[h] # s
           /\ \A k \in Keys : session_map'[k] # s
           /\ disconnetMS(s)
  BY <1>2, DisconnectEffect DEF TypeOK
<1>3. QED
  BY <1>1, <1>2, ReleaseEffect
-----------------------------------------------------------------------------
(***************************************************************************)
(* Types.                                                                  *)
(***************************************************************************)
\* The session a handler or the map drops is one that lives.
LEMMA Lives ==
  ASSUME TypeOK, BusyInv
  PROVE  /\ \A h \in Handlers : pc[h] # "idle" =>
              session[h] \in made \ destroyed /\ session[h] \in Sessions /\ key[h] \in Keys
         /\ \A k \in Keys : session_map[k] # None =>
              session_map[k] \in made \ destroyed /\ session_map[k] \in Sessions
BY DEF TypeOK, BusyInv

\* What no step of a request, or of the network, leaves open.
LEMMA TypeParts ==
  ASSUME /\ session_map' \in [Keys -> Sessions \cup {None}]
         /\ pc' \in [Handlers -> {"idle"} \cup PlaySteps \cup StopSteps]
         /\ key' \in [Handlers -> Keys \cup {None}]
         /\ session' \in [Handlers -> Sessions \cup {None}]
         /\ made' \subseteq Sessions /\ destroyed' \subseteq made'
         /\ handle' \in [Sessions -> BOOLEAN] /\ stream' \in [Sessions -> BOOLEAN]
         /\ is_run' \in [Sessions -> BOOLEAN] /\ media' \in [Sessions -> BOOLEAN]
         /\ conn' \in [Sessions -> {"none", "open", "lost", "gone", "closed"}]
         /\ kept' \subseteq made' /\ stopped' \subseteq made' /\ refused' \subseteq made'
         /\ orphaned' \subseteq made'
         /\ \A h \in Handlers : session'[h] # None => session'[h] \in made' \ destroyed'
         /\ \A k \in Keys : session_map'[k] # None => session_map'[k] \in made' \ destroyed'
  PROVE  TypeOK'
BY DEF TypeOK

\* Every step keeps the types, BusyInv and MadeInv.
LEMMA TypeStep ==
  ASSUME TypeOK, BusyInv, MadeInv, [Next]_vars
  PROVE  TypeOK' /\ BusyInv' /\ MadeInv'
<1> DEFINE Good == TypeOK' /\ BusyInv' /\ MadeInv'
<1>t. /\ session_map \in [Keys -> Sessions \cup {None}]
      /\ pc \in [Handlers -> {"idle"} \cup PlaySteps \cup StopSteps]
      /\ key \in [Handlers -> Keys \cup {None}]
      /\ session \in [Handlers -> Sessions \cup {None}]
      /\ made \subseteq Sessions /\ destroyed \subseteq made
      /\ handle \in [Sessions -> BOOLEAN] /\ stream \in [Sessions -> BOOLEAN]
      /\ is_run \in [Sessions -> BOOLEAN] /\ media \in [Sessions -> BOOLEAN]
      /\ conn \in [Sessions -> {"none", "open", "lost", "gone", "closed"}]
      /\ kept \subseteq made /\ stopped \subseteq made /\ refused \subseteq made
      /\ orphaned \subseteq made
      /\ \A h \in Handlers : session[h] # None => session[h] \in made \ destroyed
      /\ \A k \in Keys : session_map[k] # None => session_map[k] \in made \ destroyed
      /\ None \notin Sessions /\ None \notin Keys
  BY SessionsAssumption DEF TypeOK
<1>b. /\ \A h \in Handlers : pc[h] # "idle" =>
              session[h] \in made \ destroyed /\ session[h] \in Sessions /\ key[h] \in Keys
      /\ \A h \in Handlers : pc[h] = "idle" => session[h] = None
      /\ \A k \in Keys : session_map[k] # None =>
              session_map[k] \in made \ destroyed /\ session_map[k] \in Sessions
  BY Lives DEF BusyInv
<1> USE DEF PlaySteps, StopSteps
<1>1. ASSUME NEW h \in Handlers, NEW k \in Keys, GetForPlay(h, k) PROVE Good
  <2>1. CASE GetForPlay_Found(h, k)
    <3>1. TypeOK'
      BY <1>t, <1>b, <1>1, <2>1, TypeParts DEF GetForPlay, GetForPlay_Found, goto, deviceVars, mediaVars, history
    <3>2. QED
      BY <1>t, <1>b, <1>1, <2>1, <3>1
      DEF GetForPlay, GetForPlay_Found, goto, deviceVars, BusyInv, MadeInv
  <2>2. CASE GetForPlay_New(h, k)
    <3>1. TypeOK'
      BY <1>t, <1>b, <1>1, <2>2, TypeParts DEF GetForPlay, GetForPlay_New, goto, deviceVars, mediaVars, history
    <3>2. QED
      BY <1>t, <1>b, <1>1, <2>2, <3>1
      DEF GetForPlay, GetForPlay_New, goto, deviceVars, BusyInv, MadeInv
  <2>3. QED
    BY <1>1, <2>1, <2>2 DEF GetForPlay
<1>2. ASSUME NEW h \in Handlers, NEW k \in Keys, GetForStop(h, k) PROVE Good
  <2>1. TypeOK'
    BY <1>t, <1>b, <1>2, TypeParts DEF GetForStop, goto, deviceVars, mediaVars, history
  <2>2. QED
    BY <1>t, <1>b, <1>2, <2>1 DEF GetForStop, goto, deviceVars, BusyInv, MadeInv
<1>3. ASSUME NEW h \in Handlers, connetMS(h) PROVE Good
  <2>1. TypeOK'
    BY <1>t, <1>b, <1>3, TypeParts DEF connetMS, goto, deviceVars, history
  <2>2. QED
    BY <1>t, <1>b, <1>3, <2>1 DEF connetMS, goto, deviceVars, BusyInv, MadeInv
<1>4. ASSUME NEW h \in Handlers, startRealPlaySession(h) \/ startRecordPlaySession(h) PROVE Good
  <2>1. TypeOK'
    BY <1>t, <1>b, <1>4, TypeParts DEF startRealPlaySession, startRecordPlaySession, Plays, goto,
       deviceVars, mediaVars, history
  <2>2. QED
    BY <1>t, <1>b, <1>4, <2>1 DEF startRealPlaySession, startRecordPlaySession, Plays, goto,
       deviceVars, BusyInv, MadeInv
<1>5. ASSUME NEW h \in Handlers, InsertPlaySession(h) PROVE Good
  <2>1. TypeOK'
    BY <1>t, <1>b, <1>5, TypeParts DEF InsertPlaySession, goto, deviceVars, mediaVars, history
  <2>2. QED
    BY <1>t, <1>b, <1>5, <2>1 DEF InsertPlaySession, goto, deviceVars, BusyInv, MadeInv
<1>6. ASSUME NEW h \in Handlers, PlayReturn(h) \/ StopReturn(h) PROVE Good
  <2>1. session[h] \in made /\ pc[h] # "idle" /\ Release(session[h])
    BY <1>b, <1>6 DEF PlayReturn, StopReturn, return
  <2>2. /\ media' \in [Sessions -> BOOLEAN]
        /\ conn' \in [Sessions -> {"none", "open", "lost", "gone", "closed"}]
        /\ kept' \subseteq made /\ destroyed' \subseteq made
        /\ \A x \in destroyed' \ destroyed :
             (\A g \in Handlers : session'[g] # x) /\ (\A k \in Keys : session_map'[k] # x)
    BY <2>1, ReleaseType
  <2>3. /\ session' = [session EXCEPT ![h] = None] /\ key' = [key EXCEPT ![h] = None]
        /\ pc' = [pc EXCEPT ![h] = "idle"]
        /\ UNCHANGED <<session_map, made, deviceVars, refused, orphaned>>
        /\ stopped' \in {stopped, stopped \cup {session[h]}}
    BY <1>6 DEF PlayReturn, StopReturn, return, goto, history
  <2>4. TypeOK'
    <3>1. /\ \A g \in Handlers : session'[g] # None => session'[g] \in made' \ destroyed'
          /\ \A k \in Keys : session_map'[k] # None => session_map'[k] \in made' \ destroyed'
      BY <1>t, <2>2, <2>3
    <3>2. /\ pc' \in [Handlers -> {"idle"} \cup PlaySteps \cup StopSteps]
          /\ key' \in [Handlers -> Keys \cup {None}]
          /\ session' \in [Handlers -> Sessions \cup {None}]
          /\ stopped' \subseteq made'
      BY <1>t, <2>1, <2>3
    <3>3. QED
      BY <1>t, <2>2, <2>3, <3>1, <3>2, TypeParts DEF deviceVars
  <2>5. QED
    BY <1>t, <1>b, <2>3, <2>4 DEF deviceVars, BusyInv, MadeInv
<1>7. ASSUME NEW h \in Handlers, stopSession(h) PROVE Good
  <2>1. TypeOK'
    <3>1. session[h] \in made /\ session[h] \in Sessions
      BY <1>b, <1>7 DEF stopSession
    <3>2. /\ stream' \in {stream, [stream EXCEPT ![session[h]] = FALSE]}
          /\ refused' \in {refused, refused \cup {session[h]}}
          /\ is_run' = [is_run EXCEPT ![session[h]] = FALSE]
      BY <1>7 DEF stopSession
    <3>3. pc' \in [Handlers -> {"idle"} \cup PlaySteps \cup StopSteps]
      BY <1>t, <1>7 DEF stopSession, goto
    <3>4. stream' \in [Sessions -> BOOLEAN] /\ is_run' \in [Sessions -> BOOLEAN]
          /\ refused' \subseteq made
      BY <1>t, <3>1, <3>2
    <3>5. UNCHANGED <<session_map, key, session, made, destroyed, handle, media, conn, kept, stopped, orphaned>>
      BY <1>7 DEF stopSession, mediaVars
    <3>6. QED
      BY <1>t, <3>3, <3>4, <3>5, TypeParts
  <2>2. QED
    BY <1>t, <1>b, <1>7, <2>1 DEF stopSession, goto, BusyInv, MadeInv
<1>8. ASSUME NEW h \in Handlers, stopSession_clear(h) PROVE Good
  <2>1. TypeOK'
    BY <1>t, <1>b, <1>8, TypeParts DEF stopSession_clear, goto, mediaVars, history
  <2>2. QED
    BY <1>t, <1>b, <1>8, <2>1 DEF stopSession_clear, goto, BusyInv, MadeInv
<1>9. ASSUME NEW h \in Handlers, stopSession_disconnect(h) PROVE Good
  <2>1. session[h] \in made /\ disconnetMS(session[h])
    BY <1>b, <1>9 DEF stopSession_disconnect
  <2>2. /\ media' \in [Sessions -> BOOLEAN]
        /\ conn' \in [Sessions -> {"none", "open", "lost", "gone", "closed"}]
        /\ kept' \subseteq made
    BY <1>t, <2>1, DisconnectEffect
  <2>3. TypeOK'
    BY <1>t, <1>b, <1>9, <2>2, TypeParts DEF stopSession_disconnect, goto, deviceVars, history
  <2>4. QED
    BY <1>t, <1>b, <1>9, <2>3 DEF stopSession_disconnect, goto, deviceVars, BusyInv, MadeInv
<1>10. ASSUME NEW h \in Handlers, DelPlaySession(h) PROVE Good
  <2>1. /\ session_map' = [session_map EXCEPT ![key[h]] = None] /\ pc[h] = "delete"
        /\ pc' = [pc EXCEPT ![h] = "stopReturn"]
        /\ UNCHANGED <<key, session, made, deviceVars, stopped, refused>>
        /\ orphaned' = orphaned \cup ({session_map[key[h]]} \ {session[h], None})
        /\ \/ session_map[key[h]] = None /\ UNCHANGED <<destroyed, mediaVars>>
           \/ session_map[key[h]] # None /\ Release(session_map[key[h]])
    BY <1>10 DEF DelPlaySession, goto
  <2>2. /\ media' \in [Sessions -> BOOLEAN]
        /\ conn' \in [Sessions -> {"none", "open", "lost", "gone", "closed"}]
        /\ kept' \subseteq made /\ destroyed' \subseteq made
        /\ \A x \in destroyed' \ destroyed :
             (\A g \in Handlers : session'[g] # x) /\ (\A k \in Keys : session_map'[k] # x)
    <3>1. CASE session_map[key[h]] = None
      BY <1>t, <2>1, <3>1 DEF mediaVars
    <3>2. CASE session_map[key[h]] # None
      <4>1. session_map[key[h]] \in made
        BY <1>b, <2>1, <3>2
      <4>2. QED
        BY <2>1, <3>2, <4>1, ReleaseType
    <3>3. QED
      BY <3>1, <3>2
  <2>3. orphaned' \subseteq made
    BY <1>t, <1>b, <2>1
  <2>4. TypeOK'
    BY <1>t, <2>1, <2>2, <2>3, TypeParts DEF deviceVars
  <2>5. QED
    BY <1>t, <1>b, <2>1, <2>4 DEF deviceVars, BusyInv, MadeInv
<1>11. ASSUME NEW s \in Sessions, sendMS_error(s) PROVE Good
  <2>1. TypeOK'
    BY <1>t, <1>11, TypeParts DEF sendMS_error, history, MadeInv
  <2>2. QED
    BY <1>t, <1>11, <2>1 DEF sendMS_error, BusyInv, MadeInv
<1>12. ASSUME NEW s \in Sessions, ConnectionLost(s) PROVE Good
  <2>1. TypeOK'
    BY <1>t, <1>12, TypeParts DEF ConnectionLost, history, deviceVars
  <2>2. QED
    BY <1>t, <1>12, <2>1 DEF ConnectionLost, BusyInv, MadeInv, deviceVars
<1>13. ASSUME NEW s \in Sessions, onclose(s) PROVE Good
  <2>1. /\ session_map' \in [Keys -> Sessions \cup {None}]
        /\ \A k \in Keys : session_map'[k] # None => session_map'[k] = session_map[k]
    BY <1>t, <1>13 DEF onclose
  <2>2. /\ destroyed' \subseteq made
        /\ \A x \in destroyed' \ destroyed :
             (\A g \in Handlers : session'[g] # x) /\ (\A k \in Keys : session_map'[k] # x)
    <3>1. CASE media[s] /\ InMap(s) /\ \A g \in Handlers : session[g] # s
      <4>1. /\ destroyed' = destroyed \cup {s} /\ session' = session
            /\ session_map' = [k \in Keys |-> IF session_map[k] = s THEN None ELSE session_map[k]]
        BY <1>13, <3>1 DEF onclose
      <4>2. s \in made
        BY <1>b, <1>t, <3>1 DEF InMap
      <4>3. QED
        BY <1>t, <3>1, <4>1, <4>2
    <3>2. CASE ~(media[s] /\ InMap(s) /\ \A g \in Handlers : session[g] # s)
      <4>1. destroyed' = destroyed
        BY <1>13, <3>2 DEF onclose
      <4>2. QED
        BY <1>t, <4>1
    <3>3. QED
      BY <3>1, <3>2
  <2>3. /\ conn' \in [Sessions -> {"none", "open", "lost", "gone", "closed"}]
        /\ media' \in [Sessions -> BOOLEAN]
        /\ UNCHANGED <<pc, key, session, made, deviceVars, kept, stopped, refused>>
    BY <1>t, <1>13 DEF onclose
  <2>4. orphaned' \subseteq made
    BY <1>t, <1>b, <1>13 DEF onclose, InMap
  <2>5. TypeOK'
    BY <1>t, <2>1, <2>2, <2>3, <2>4, TypeParts DEF deviceVars
  <2>6. QED
    BY <1>t, <2>3, <2>5 DEF BusyInv, MadeInv, deviceVars
<1>14. CASE UNCHANGED vars
  <2>1. TypeOK'
    BY <1>t, <1>14, TypeParts DEF vars, history, deviceVars, mediaVars
  <2>2. QED
    BY <1>14, <2>1 DEF vars, BusyInv, MadeInv, deviceVars
<1>15. QED
  BY <1>1, <1>2, <1>3, <1>4, <1>5, <1>6, <1>7, <1>8, <1>9, <1>10, <1>11, <1>12, <1>13, <1>14
  DEF Next, Handler

(***************************************************************************)
(* Type correctness: in particular a session a handler or the map refers   *)
(* to has not been destroyed.  (What the SDK's callback refers to is the   *)
(* matter of DanglingCallbacks below.)                                     *)
(***************************************************************************)
THEOREM TypeCorrect == Spec => [](TypeOK /\ BusyInv /\ MadeInv)
<1>1. Init => TypeOK /\ BusyInv /\ MadeInv
  BY SessionsAssumption DEF Init, TypeOK, BusyInv, MadeInv
<1>2. (TypeOK /\ BusyInv /\ MadeInv) /\ [Next]_vars => (TypeOK /\ BusyInv /\ MadeInv)'
  BY TypeStep
<1>3. QED
  BY <1>1, <1>2, PTL DEF Spec
-----------------------------------------------------------------------------
(***************************************************************************)
(* The map.                                                                *)
(***************************************************************************)
MapInv == OwnInv /\ KeyInv /\ LeftInv /\ StoppedSessionsLeave

\* A step that adds nothing to the map and lets no handler get a session
\* leaves the ownership as it is, when no handler comes to a step that asks
\* for more.
LEMMA MapFrame ==
  ASSUME TypeOK, BusyInv, MapInv,
         \A k \in Keys : session_map'[k] \in {session_map[k], None},
         \A h \in Handlers : (session'[h] = session[h] /\ key'[h] = key[h]) \/ session'[h] = None,
         \A h \in Handlers : pc'[h] \in Making => pc[h] \in Making /\ session'[h] = session[h],
         \A h \in Handlers : pc'[h] = "stopReturn" =>
           session'[h] = session[h] /\ session[h] # None /\
           (pc[h] # "stopReturn" => \A k \in Keys : session_map'[k] # session[h]),
         stopped' \subseteq made,
         \A s \in stopped' \ stopped : \E h \in Handlers : s = session[h] /\ pc[h] = "stopReturn"
  PROVE  MapInv'
<1>0. /\ \A h \in Handlers : pc[h] # "idle" => session[h] # None
      /\ None \notin made
  BY SessionsAssumption DEF BusyInv, TypeOK
<1>1. OwnInv'
  <2> SUFFICES ASSUME NEW h \in Handlers, pc'[h] \in Making
               PROVE  /\ session'[h] \notin stopped'
                      /\ \A k \in Keys : session_map'[k] # session'[h]
                      /\ \A g \in Handlers \ {h} : session'[g] # session'[h]
    BY DEF OwnInv, OwnOf
  <2>1. pc[h] \in Making /\ session'[h] = session[h] /\ session[h] # None
    BY <1>0 DEF Making
  <2>2. /\ session[h] \notin stopped /\ \A k \in Keys : session_map[k] # session[h]
        /\ \A g \in Handlers \ {h} : session[g] # session[h]
    BY <2>1 DEF MapInv, OwnInv, OwnOf
  <2>3. session[h] \notin stopped'
    BY <2>1, <2>2 DEF Making
  <2>4. QED
    BY <2>1, <2>2, <2>3
<1>2. KeyInv'
  BY DEF MapInv, KeyInv
<1>3. LeftInv'
  BY <1>0 DEF MapInv, LeftInv
<1>4. StoppedSessionsLeave'
  <2> SUFFICES ASSUME NEW s \in stopped', NEW k \in Keys, session_map'[k] = s PROVE FALSE
    BY DEF StoppedSessionsLeave, InMap
  <2>1. session_map[k] = s
    BY <1>0
  <2>2. CASE s \in stopped
    BY <2>1, <2>2 DEF MapInv, StoppedSessionsLeave, InMap
  <2>3. CASE s \notin stopped
    BY <2>1, <2>3 DEF MapInv, LeftInv
  <2>4. QED
    BY <2>2, <2>3
<1>5. QED
  BY <1>1, <1>2, <1>3, <1>4 DEF MapInv

\* A session that is found in the map, or that nobody has seen yet, is no
\* other handler's own.
LEMMA MapStep ==
  ASSUME TypeOK, BusyInv, MapInv, [Next]_vars
  PROVE  MapInv'
<1>t. /\ session_map \in [Keys -> Sessions \cup {None}]
      /\ pc \in [Handlers -> {"idle"} \cup PlaySteps \cup StopSteps]
      /\ key \in [Handlers -> Keys \cup {None}]
      /\ session \in [Handlers -> Sessions \cup {None}]
      /\ stopped \subseteq made
      /\ \A h \in Handlers : session[h] # None => session[h] \in made
      /\ \A k \in Keys : session_map[k] # None => session_map[k] \in made
      /\ None \notin made /\ None \notin Sessions /\ None \notin Keys
  BY SessionsAssumption DEF TypeOK
<1>b. /\ \A h \in Handlers : pc[h] # "idle" =>
              session[h] \in made /\ session[h] # None /\ key[h] \in Keys
      /\ \A h \in Handlers : pc[h] = "idle" => session[h] = None
  BY <1>t DEF BusyInv
<1> USE DEF Making
\* Requests that found a session.
<1>1. ASSUME NEW h \in Handlers, NEW k \in Keys, session_map[k] # None,
             session_map' = session_map, made' = made, stopped' = stopped,
             session' = [session EXCEPT ![h] = session_map[k]],
             key' = [key EXCEPT ![h] = k],
             pc' = [pc EXCEPT ![h] = "playReturn"] \/ pc' = [pc EXCEPT ![h] = "stop"]
      PROVE  MapInv'
  <2>1. /\ \A g \in Handlers \ {h} : session'[g] = session[g] /\ key'[g] = key[g] /\ pc'[g] = pc[g]
        /\ session'[h] = session_map[k] /\ key'[h] = k /\ pc'[h] \notin Making \cup {"stopReturn"}
    BY <1>t, <1>1
  <2>2. OwnInv'
    <3> SUFFICES ASSUME NEW g \in Handlers, pc'[g] \in Making
                 PROVE  /\ session'[g] \notin stopped'
                        /\ \A j \in Keys : session_map'[j] # session'[g]
                        /\ \A f \in Handlers \ {g} : session'[f] # session'[g]
      BY DEF OwnInv, OwnOf
    <3>1. g # h /\ pc[g] \in Making /\ session'[g] = session[g]
      BY <2>1
    <3>2. OwnOf(g)
      BY DEF MapInv, OwnInv
    <3>3. QED
      BY <1>1, <2>1, <3>1, <3>2 DEF OwnOf
  <2>3. KeyInv'
    BY <1>1, <2>1 DEF MapInv, KeyInv
  <2>4. LeftInv'
    BY <1>1, <2>1 DEF MapInv, LeftInv
  <2>5. StoppedSessionsLeave'
    BY <1>1 DEF MapInv, StoppedSessionsLeave, InMap
  <2>6. QED
    BY <2>2, <2>3, <2>4, <2>5 DEF MapInv
<1>2. ASSUME NEW h \in Handlers, NEW k \in Keys, GetForPlay(h, k), GetForPlay_Found(h, k)
      PROVE  MapInv'
  BY <1>1, <1>2 DEF GetForPlay, GetForPlay_Found, goto, history
<1>3. ASSUME NEW h \in Handlers, NEW k \in Keys, GetForPlay(h, k), GetForPlay_New(h, k)
      PROVE  MapInv'
  <2>1. PICK s \in Sessions \ made : session' = [session EXCEPT ![h] = s]
    BY <1>3 DEF GetForPlay_New
  <2>2. /\ \A g \in Handlers \ {h} : session'[g] = session[g] /\ key'[g] = key[g] /\ pc'[g] = pc[g]
        /\ session'[h] = s /\ pc'[h] = "connect"
        /\ session_map' = session_map /\ stopped' = stopped
    BY <1>t, <1>3, <2>1 DEF GetForPlay, GetForPlay_New, goto, history
  <2>3. /\ \A j \in Keys : session_map[j] # s
        /\ \A g \in Handlers : session[g] # s
        /\ s \notin stopped
    BY <1>t
  <2>4. OwnInv'
    <3> SUFFICES ASSUME NEW g \in Handlers, pc'[g] \in Making
                 PROVE  /\ session'[g] \notin stopped'
                        /\ \A j \in Keys : session_map'[j] # session'[g]
                        /\ \A f \in Handlers \ {g} : session'[f] # session'[g]
      BY DEF OwnInv, OwnOf
    <3>1. CASE g = h
      BY <2>2, <2>3, <3>1
    <3>2. CASE g # h
      <4>1. OwnOf(g)
        BY DEF MapInv, OwnInv
      <4>2. QED
        BY <2>2, <2>3, <3>2, <4>1 DEF OwnOf
    <3>3. QED
      BY <3>1, <3>2
  <2>5. KeyInv'
    BY <2>2, <2>3 DEF MapInv, KeyInv
  <2>6. LeftInv'
    BY <2>2, <2>3 DEF MapInv, LeftInv
  <2>7. StoppedSessionsLeave'
    BY <2>2 DEF MapInv, StoppedSessionsLeave, InMap
  <2>8. QED
    BY <2>4, <2>5, <2>6, <2>7 DEF MapInv
<1>4. ASSUME NEW h \in Handlers, NEW k \in Keys, GetForStop(h, k)
      PROVE  MapInv'
  <2>1. CASE session_map[k] = None
    BY <1>t, <1>4, <2>1, MapFrame, <1>b DEF GetForStop, history, MapInv, LeftInv
  <2>2. CASE session_map[k] # None
    BY <1>1, <1>4, <2>2 DEF GetForStop, goto, history
  <2>3. QED
    BY <2>1, <2>2
<1>5. ASSUME NEW h \in Handlers,
             connetMS(h) \/ startRealPlaySession(h) \/ startRecordPlaySession(h)
      PROVE  MapInv'
  <2>1. /\ UNCHANGED <<session_map, key, session, made, stopped>>
        /\ pc[h] \in {"connect", "start"}
        /\ \E to \in {"start", "insert", "playReturn"} : pc' = [pc EXCEPT ![h] = to]
    BY <1>5 DEF connetMS, startRealPlaySession, startRecordPlaySession, goto, history
  <2>2. QED
    BY <1>t, <1>b, <2>1, MapFrame
\* The handler's own session comes into the map, under the handler's key.
<1>6. ASSUME NEW h \in Handlers, InsertPlaySession(h) PROVE MapInv'
  <2>1. /\ UNCHANGED <<key, session, made, stopped>>
        /\ pc[h] = "insert" /\ pc' = [pc EXCEPT ![h] = "playReturn"]
        /\ session_map' = IF session_map[key[h]] = None
                          THEN [session_map EXCEPT ![key[h]] = session[h]] ELSE session_map
    BY <1>6 DEF InsertPlaySession, goto, history
  <2>2. /\ session[h] \notin stopped /\ \A k \in Keys : session_map[k] # session[h]
        /\ \A g \in Handlers \ {h} : session[g] # session[h]
        /\ session[h] # None /\ key[h] \in Keys
    BY <1>b, <2>1 DEF MapInv, OwnInv, OwnOf
  <2>3. /\ \A k \in Keys \ {key[h]} : session_map'[k] = session_map[k]
        /\ session_map'[key[h]] \in {session_map[key[h]], session[h]}
    BY <1>t, <2>1, <2>2
  <2>4. \A g \in Handlers \ {h} : pc'[g] = pc[g]
    BY <1>t, <2>1
  <2>5. pc'[h] = "playReturn"
    BY <1>t, <2>1
  <2>6. OwnInv'
    <3> SUFFICES ASSUME NEW g \in Handlers, pc'[g] \in Making
                 PROVE  /\ session'[g] \notin stopped'
                        /\ \A j \in Keys : session_map'[j] # session'[g]
                        /\ \A f \in Handlers \ {g} : session'[f] # session'[g]
      BY DEF OwnInv, OwnOf
    <3>1. g # h /\ pc[g] \in Making
      BY <2>4, <2>5
    <3>2. OwnOf(g)
      BY DEF MapInv, OwnInv
    <3>3. QED
      BY <2>1, <2>2, <2>3, <3>1, <3>2 DEF OwnOf
  <2>7. KeyInv'
    BY <1>b, <2>1, <2>2, <2>3 DEF MapInv, KeyInv
  <2>8. LeftInv'
    BY <1>b, <2>1, <2>2, <2>3, <2>4, <2>5 DEF MapInv, LeftInv
  <2>9. StoppedSessionsLeave'
    BY <2>1, <2>2, <2>3 DEF MapInv, StoppedSessionsLeave, InMap
  <2>10. QED
    BY <2>6, <2>7, <2>8, <2>9 DEF MapInv
<1>7. ASSUME NEW h \in Handlers, PlayReturn(h) PROVE MapInv'
  <2>1. /\ UNCHANGED <<session_map, made, stopped>> /\ pc[h] = "playReturn"
        /\ session' = [session EXCEPT ![h] = None] /\ key' = [key EXCEPT ![h] = None]
        /\ pc' = [pc EXCEPT ![h] = "idle"]
    BY <1>7 DEF PlayReturn, return, goto, history
  <2>2. QED
    BY <1>t, <1>b, <2>1, MapFrame
<1>8. ASSUME NEW h \in Handlers, StopReturn(h) PROVE MapInv'
  <2>1. /\ UNCHANGED <<session_map, made>> /\ pc[h] = "stopReturn"
        /\ stopped' = stopped \cup {session[h]}
        /\ session' = [session EXCEPT ![h] = None] /\ key' = [key EXCEPT ![h] = None]
        /\ pc' = [pc EXCEPT ![h] = "idle"]
    BY <1>8 DEF StopReturn, return, goto
  <2>2. QED
    BY <1>t, <1>b, <2>1, MapFrame
<1>9. ASSUME NEW h \in Handlers,
             stopSession(h) \/ stopSession_clear(h) \/ stopSession_disconnect(h)
      PROVE  MapInv'
  <2>1. /\ UNCHANGED <<session_map, key, session, made, stopped>>
        /\ \E to \in {"clear", "disconnect", "delete"} : pc' = [pc EXCEPT ![h] = to]
    BY <1>9 DEF stopSession, stopSession_clear, stopSession_disconnect, goto, history
  <2>2. QED
    BY <1>t, <1>b, <2>1, MapFrame
\* The entry the session can be in is the one that is deleted.
<1>10. ASSUME NEW h \in Handlers, DelPlaySession(h) PROVE MapInv'
  <2>1. /\ UNCHANGED <<key, session, made, stopped>> /\ pc[h] = "delete"
        /\ session_map' = [session_map EXCEPT ![key[h]] = None]
        /\ pc' = [pc EXCEPT ![h] = "stopReturn"]
    BY <1>10 DEF DelPlaySession, goto, history
  <2>2. /\ \A k \in Keys : session_map'[k] \in {session_map[k], None}
        /\ session_map'[key[h]] = None /\ session[h] # None
    BY <1>t, <1>b, <2>1
  <2>3. \A k \in Keys : session_map'[k] # session[h]
    BY <2>2 DEF MapInv, KeyInv
  <2>4. QED
    BY <1>t, <1>b, <2>1, <2>2, <2>3, MapFrame
<1>11. ASSUME NEW s \in Sessions, sendMS_error(s) \/ ConnectionLost(s) \/ onclose(s)
       PROVE  MapInv'
  <2>1. /\ UNCHANGED <<pc, key, session, made, stopped>>
        /\ \A k \in Keys : session_map'[k] \in {session_map[k], None}
    BY <1>11 DEF sendMS_error, ConnectionLost, onclose, history
  <2>2. QED
    BY <1>t, <1>b, <2>1, MapFrame
<1>12. CASE UNCHANGED vars
  <2>1. /\ UNCHANGED <<session_map, pc, key, session, made, stopped>>
    BY <1>12 DEF vars, history
  <2>2. QED
    BY <1>t, <1>b, <2>1, MapFrame
<1>13. QED
  <2>1. ASSUME NEW h \in Handlers, NEW k \in Keys, GetForPlay(h, k) PROVE MapInv'
    BY <1>2, <1>3, <2>1 DEF GetForPlay
  <2>2. ASSUME NEW h \in Handlers, Handler(h) PROVE MapInv'
    BY <2>2, <1>5, <1>6, <1>7, <1>8, <1>9, <1>10 DEF Handler
  <2>3. QED
    BY <2>1, <2>2, <1>4, <1>11, <1>12 DEF Next

\* Who knows a session, and under which key.
LEMMA MapCorrect == Spec => []MapInv
<1>1. Init => MapInv
  BY DEF Init, MapInv, OwnInv, OwnOf, Making, KeyInv, LeftInv, StoppedSessionsLeave
<1>2. QED
  BY <1>1, MapStep, TypeCorrect, PTL DEF Spec

(***************************************************************************)
(* A session some stop_play has finished with is out of the map for good.  *)
(***************************************************************************)
THEOREM StoppedSessionsCorrect == Spec => []StoppedSessionsLeave
<1>1. MapInv => StoppedSessionsLeave
  BY DEF MapInv
<1>2. QED
  BY <1>1, MapCorrect, PTL
-----------------------------------------------------------------------------
(***************************************************************************)
(* The streams.                                                            *)
(***************************************************************************)
QuietInv == SilentInv /\ StoppedSilent

\* A step that starts no stream and closes no handle of a session that is
\* streaming unasked.
LEMMA SilentFrame ==
  ASSUME TypeOK, QuietInv,
         \A s \in Sessions : stream'[s] => stream[s] /\ (handle'[s] \/ ~handle[s] \/ s \in refused'),
         refused \subseteq refused', stopped' \subseteq Sessions,
         \A h \in Handlers : pc'[h] \in StopSteps \ {"stop"} =>
           /\ session'[h] = session[h] /\ session[h] \in Sessions
           /\ pc[h] \notin StopSteps \ {"stop"} =>
                (stream'[session[h]] => session[h] \in refused'),
         \A s \in stopped' \ stopped : \E h \in Handlers : s = session[h] /\ pc[h] = "stopReturn"
  PROVE  QuietInv'
<1>1. SilentInv'
  BY DEF QuietInv, SilentInv
<1>2. StoppedSilent'
  <2> SUFFICES ASSUME NEW s \in stopped', stream'[s] PROVE s \in refused'
    BY DEF StoppedSilent
  <2>1. s \in Sessions /\ stream[s]
    OBVIOUS
  <2>2. CASE s \in stopped
    BY <2>1, <2>2 DEF QuietInv, StoppedSilent
  <2>3. CASE s \notin stopped
    BY <2>1, <2>3 DEF QuietInv, SilentInv, StopSteps
  <2>4. QED
    BY <2>2, <2>3
<1>3. QED
  BY <1>1, <1>2 DEF QuietInv

\* Every step keeps QuietInv: a stopped session has nothing left to send.
LEMMA SilentStep ==
  ASSUME TypeOK, BusyInv, OwnInv, QuietInv, [Next]_vars
  PROVE  QuietInv'
<1>t. /\ pc \in [Handlers -> {"idle"} \cup PlaySteps \cup StopSteps]
      /\ session \in [Handlers -> Sessions \cup {None}]
      /\ handle \in [Sessions -> BOOLEAN] /\ stream \in [Sessions -> BOOLEAN]
      /\ refused \subseteq made /\ stopped \subseteq made /\ made \subseteq Sessions
      /\ \A h \in Handlers : pc[h] # "idle" => session[h] \in Sessions /\ session[h] \in made
  BY Lives DEF TypeOK
<1> USE DEF StopSteps
<1>1. ASSUME NEW h \in Handlers, NEW k \in Keys, GetForPlay(h, k) \/ GetForStop(h, k)
      PROVE  QuietInv'
  <2>1. /\ UNCHANGED <<handle, stream, stopped, refused>>
        /\ \A g \in Handlers \ {h} : session'[g] = session[g] /\ pc'[g] = pc[g]
        /\ pc'[h] \in {"playReturn", "connect", "stop", "idle"}
    BY <1>t, <1>1 DEF GetForPlay, GetForPlay_Found, GetForPlay_New, GetForStop, goto, deviceVars, history
  <2>2. QED
    BY <1>t, <2>1, SilentFrame
<1>2. ASSUME NEW h \in Handlers, connetMS(h) \/ InsertPlaySession(h) PROVE QuietInv'
  <2>1. /\ UNCHANGED <<handle, stream, stopped, refused, session>>
        /\ \A g \in Handlers \ {h} : pc'[g] = pc[g]
        /\ pc'[h] \in {"start", "playReturn"}
    BY <1>t, <1>2 DEF connetMS, InsertPlaySession, goto, deviceVars, history
  <2>2. QED
    BY <1>t, <2>1, SilentFrame
<1>3. ASSUME NEW h \in Handlers, startRealPlaySession(h) \/ startRecordPlaySession(h)
      PROVE  QuietInv'
  <2>1. /\ pc[h] = "start" /\ pc'[h] \in {"insert", "playReturn"}
        /\ \A g \in Handlers \ {h} : pc'[g] = pc[g]
        /\ UNCHANGED <<session, stopped, refused>>
        /\ \/ UNCHANGED <<handle, stream>>
           \/ /\ handle' = [handle EXCEPT ![session[h]] = TRUE]
              /\ stream' = [stream EXCEPT ![session[h]] = TRUE]
    BY <1>t, <1>3 DEF startRealPlaySession, startRecordPlaySession, Plays, goto, deviceVars, history
  <2>2. CASE UNCHANGED <<handle, stream>>
    BY <1>t, <2>1, <2>2, SilentFrame
  <2>3. CASE /\ handle' = [handle EXCEPT ![session[h]] = TRUE]
             /\ stream' = [stream EXCEPT ![session[h]] = TRUE]
    <3>1. session[h] \notin stopped /\ \A g \in Handlers \ {h} : session[g] # session[h]
      BY <2>1 DEF OwnInv, OwnOf, Making
    <3>2. SilentInv'
      BY <1>t, <2>1, <2>3, <3>1 DEF QuietInv, SilentInv
    <3>3. StoppedSilent'
      BY <1>t, <2>1, <2>3, <3>1 DEF QuietInv, StoppedSilent
    <3>4. QED
      BY <3>2, <3>3 DEF QuietInv
  <2>4. QED
    BY <2>1, <2>2, <2>3
<1>4. ASSUME NEW h \in Handlers, PlayReturn(h) \/ StopReturn(h) PROVE QuietInv'
  <2>1. /\ UNCHANGED <<handle, stream, refused>>
        /\ \A g \in Handlers \ {h} : session'[g] = session[g] /\ pc'[g] = pc[g]
        /\ pc'[h] = "idle"
        /\ \/ stopped' = stopped
           \/ stopped' = stopped \cup {session[h]} /\ pc[h] = "stopReturn"
    BY <1>t, <1>4 DEF PlayReturn, StopReturn, return, goto, deviceVars, history
  <2>2. stopped' \subseteq Sessions
    BY <1>t, <2>1
  <2>3. QED
    BY <1>t, <2>1, <2>2, SilentFrame
\* Either the device stopped the stream or it refused to, or it refused before.
<1>5. ASSUME NEW h \in Handlers, stopSession(h) PROVE QuietInv'
  <2>1. /\ pc[h] = "stop" /\ UNCHANGED <<handle, session, stopped>>
        /\ \A g \in Handlers \ {h} : pc'[g] = pc[g]
        /\ pc'[h] \in {"clear", "delete", "disconnect"}
    BY <1>t, <1>5 DEF stopSession, goto
  <2>2. /\ refused \subseteq refused'
        /\ \A s \in Sessions : stream'[s] => stream[s]
        /\ stream'[session[h]] => session[h] \in refused'
    <3>1. session[h] \in Sessions
      BY <1>t, <2>1
    <3>2. CASE handle[session[h]]
      BY <1>t, <1>5, <3>1, <3>2 DEF stopSession
    <3>3. CASE ~handle[session[h]]
      BY <1>t, <1>5, <3>1, <3>3 DEF stopSession, QuietInv, SilentInv
    <3>4. QED
      BY <3>2, <3>3
  <2>3. QED
    BY <1>t, <2>1, <2>2, SilentFrame
<1>6. ASSUME NEW h \in Handlers, stopSession_clear(h) PROVE QuietInv'
  <2>1. /\ pc[h] = "clear" /\ handle' = [handle EXCEPT ![session[h]] = FALSE]
        /\ UNCHANGED <<session, stream, stopped, refused>>
        /\ pc' = [pc EXCEPT ![h] = "disconnect"]
    BY <1>6 DEF stopSession_clear, goto, history
  <2>2. stream[session[h]] => session[h] \in refused
    BY <2>1 DEF QuietInv, SilentInv
  <2>3. QED
    BY <1>t, <2>1, <2>2, SilentFrame
<1>7. ASSUME NEW h \in Handlers, stopSession_disconnect(h) \/ DelPlaySession(h) PROVE QuietInv'
  <2>1. /\ pc[h] \in {"disconnect", "delete"}
        /\ UNCHANGED <<handle, session, stream, stopped, refused>>
        /\ \A g \in Handlers \ {h} : pc'[g] = pc[g]
    BY <1>t, <1>7 DEF stopSession_disconnect, DelPlaySession, goto, deviceVars, history
  <2>2. QED
    BY <1>t, <2>1, SilentFrame
<1>8. ASSUME \/ \E s \in Sessions : sendMS_error(s) \/ ConnectionLost(s) \/ onclose(s)
             \/ UNCHANGED vars
      PROVE  QuietInv'
  <2>1. UNCHANGED <<pc, handle, session, stream, stopped, refused>>
    BY <1>8 DEF sendMS_error, ConnectionLost, onclose, vars, deviceVars, history
  <2>2. QED
    BY <1>t, <2>1, SilentFrame
<1>9. QED
  BY <1>1, <1>2, <1>3, <1>4, <1>5, <1>6, <1>7, <1>8 DEF Next, Handler

(***************************************************************************)
(* The device delivers nothing to a session some stop_play has finished    *)
(* with, unless it refused to stop.                                        *)
(***************************************************************************)
THEOREM StoppedSilentCorrect == Spec => []StoppedSilent
<1>1. Init => QuietInv
  BY DEF Init, QuietInv, SilentInv, StoppedSilent, StopSteps
<1>2. MapInv => OwnInv
  BY DEF MapInv
<1>3. QuietInv => StoppedSilent
  BY DEF QuietInv
<1>4. QED
  BY <1>1, <1>2, <1>3, MapCorrect, SilentStep, TypeCorrect, PTL DEF Spec
-----------------------------------------------------------------------------
(***************************************************************************)
(* The media connections.                                                  *)
(***************************************************************************)
ClosedInv == MediaInv /\ ConnectionsClosed

\* Steps that drop no reference.
LEMMA ClosedFrame ==
  ASSUME TypeOK, ClosedInv, destroyed' = destroyed, kept \subseteq kept',
         \A s \in Sessions : conn'[s] \in {"open", "lost"} =>
           /\ media'[s] \/ s \in kept'
           /\ conn[s] \in {"open", "lost"} \/ s \notin destroyed
  PROVE  ClosedInv'
BY DEF ClosedInv, MediaInv, ConnectionsClosed, TypeOK

\* ~PlaySession closes the connection or reports an error.
LEMMA ClosedRelease ==
  ASSUME TypeOK, ClosedInv, NEW s \in made \ destroyed, Release(s)
  PROVE  ClosedInv'
<1>1. CASE UNCHANGED <<destroyed, mediaVars>>
  BY <1>1 DEF mediaVars, ClosedInv, MediaInv, ConnectionsClosed
<1>2. CASE destroyed' = destroyed \cup {s} /\ disconnetMS(s)
  <2>1. /\ kept \subseteq kept'
        /\ \A x \in Sessions \ {s} : media'[x] = media[x] /\ conn'[x] = conn[x]
        /\ \/ conn'[s] = conn[s] /\ (media'[s] = media[s]) /\ (media[s] => s \in kept')
           \/ conn'[s] = "closed"
    BY <1>2, DisconnectEffect
  <2>2. conn'[s] \in {"open", "lost"} => s \in kept'
    BY <2>1 DEF ClosedInv, MediaInv, TypeOK
  <2>3. MediaInv'
    BY <2>1, <2>2 DEF ClosedInv, MediaInv
  <2>4. ConnectionsClosed'
    BY <1>2, <2>1, <2>2 DEF ClosedInv, ConnectionsClosed, TypeOK
  <2>5. QED
    BY <2>3, <2>4 DEF ClosedInv
<1>3. QED
  BY <1>1, <1>2, ReleaseEffect

\* Every step keeps ClosedInv: a destroyed session's connection is closed.
LEMMA ClosedStep ==
  ASSUME TypeOK, BusyInv, ClosedInv, [Next]_vars
  PROVE  ClosedInv'
<1>t. /\ media \in [Sessions -> BOOLEAN]
      /\ conn \in [Sessions -> {"none", "open", "lost", "gone", "closed"}]
      /\ made \subseteq Sessions
      /\ \A h \in Handlers : pc[h] # "idle" => session[h] \in made \ destroyed
      /\ \A k \in Keys : session_map[k] # None => session_map[k] \in made \ destroyed
      /\ \A s \in Sessions : conn[s] \in {"open", "lost"} => media[s] \/ s \in kept
  BY Lives DEF TypeOK, ClosedInv, MediaInv
<1>1. CASE UNCHANGED <<destroyed, mediaVars>>
  BY <1>1 DEF mediaVars, ClosedInv, MediaInv, ConnectionsClosed
<1>2. ASSUME NEW h \in Handlers, connetMS(h) PROVE ClosedInv'
  <2>1. /\ session[h] \in Sessions \ destroyed /\ destroyed' = destroyed /\ kept' = kept
        /\ \/ /\ media' = [media EXCEPT ![session[h]] = TRUE]
              /\ conn' = [conn EXCEPT ![session[h]] = "open"]
           \/ UNCHANGED <<media, conn>>
    BY <1>t, <1>2 DEF connetMS
  <2>2. QED
    BY <1>t, <2>1, ClosedFrame
<1>3. ASSUME NEW h \in Handlers, PlayReturn(h) \/ StopReturn(h) PROVE ClosedInv'
  <2>1. session[h] \in made \ destroyed /\ Release(session[h])
    BY <1>t, <1>3 DEF PlayReturn, StopReturn, return
  <2>2. QED
    BY <2>1, ClosedRelease
<1>4. ASSUME NEW h \in Handlers, stopSession_disconnect(h) PROVE ClosedInv'
  <2>1. session[h] \in made \ destroyed /\ disconnetMS(session[h]) /\ destroyed' = destroyed
    BY <1>t, <1>4 DEF stopSession_disconnect
  <2>2. /\ kept \subseteq kept'
        /\ \A x \in Sessions \ {session[h]} : media'[x] = media[x] /\ conn'[x] = conn[x]
        /\ \/ /\ conn'[session[h]] = conn[session[h]] /\ (media'[session[h]] = media[session[h]])
              /\ media[session[h]] => session[h] \in kept'
           \/ conn'[session[h]] = "closed"
    BY <2>1, DisconnectEffect
  <2>3. QED
    BY <1>t, <2>1, <2>2, ClosedFrame
<1>5. ASSUME NEW h \in Handlers, DelPlaySession(h) PROVE ClosedInv'
  <2>1. \/ UNCHANGED <<destroyed, mediaVars>>
        \/ session_map[key[h]] # None /\ Release(session_map[key[h]])
    BY <1>5 DEF DelPlaySession
  <2>2. key[h] \in Keys
    BY <1>5 DEF DelPlaySession, BusyInv
  <2>3. QED
    BY <1>t, <1>1, <2>1, <2>2, ClosedRelease
<1>6. ASSUME NEW s \in Sessions, sendMS_error(s) PROVE ClosedInv'
  <2>1. /\ destroyed' = destroyed /\ conn' = conn /\ kept' = kept \cup {s}
        /\ media' = [media EXCEPT ![s] = FALSE]
    BY <1>6 DEF sendMS_error
  <2>2. QED
    BY <1>t, <2>1, ClosedFrame
<1>7. ASSUME NEW s \in Sessions, ConnectionLost(s) PROVE ClosedInv'
  <2>1. /\ destroyed' = destroyed /\ kept' = kept /\ media' = media
        /\ conn[s] = "open" /\ conn' = [conn EXCEPT ![s] = "lost"]
    BY <1>7 DEF ConnectionLost
  <2>2. QED
    BY <1>t, <2>1, ClosedFrame
<1>8. ASSUME NEW s \in Sessions, onclose(s) PROVE ClosedInv'
  <2>1. /\ kept' = kept /\ destroyed' \subseteq destroyed \cup {s}
        /\ conn'[s] \in {"gone", "closed"}
        /\ \A x \in Sessions \ {s} : conn'[x] = conn[x] /\ media'[x] = media[x]
    BY <1>t, <1>8 DEF onclose
  <2>2. MediaInv'
    BY <1>t, <2>1 DEF MediaInv
  <2>3. ConnectionsClosed'
    BY <1>t, <2>1 DEF ClosedInv, ConnectionsClosed, TypeOK
  <2>4. QED
    BY <2>2, <2>3 DEF ClosedInv
<1>9. QED
  <2>1. ASSUME NEW h \in Handlers, NEW k \in Keys, GetForPlay(h, k) \/ GetForStop(h, k)
        PROVE  ClosedInv'
    BY <1>1, <2>1 DEF GetForPlay, GetForStop
  <2>2. ASSUME NEW h \in Handlers,
               \/ startRealPlaySession(h) \/ startRecordPlaySession(h) \/ InsertPlaySession(h)
               \/ stopSession(h) \/ stopSession_clear(h)
        PROVE  ClosedInv'
    BY <1>1, <2>2 DEF startRealPlaySession, startRecordPlaySession, InsertPlaySession,
       stopSession, stopSession_clear
  <2>3. CASE UNCHANGED vars
    BY <1>1, <2>3 DEF vars, mediaVars
  <2>4. QED
    BY <2>1, <2>2, <2>3, <1>2, <1>3, <1>4, <1>5, <1>6, <1>7, <1>8 DEF Next, Handler

(***************************************************************************)
(* The connection of a destroyed session is closed, unless the library     *)
(* reported an error on it.                                                *)
(***************************************************************************)
THEOREM ConnectionsCorrect == Spec => []ConnectionsClosed
<1>1. Init => ClosedInv
  BY DEF Init, ClosedInv, MediaInv, ConnectionsClosed
<1>2. ClosedInv => ConnectionsClosed
  BY DEF ClosedInv
<1>3. QED
  BY <1>1, <1>2, ClosedStep, TypeCorrect, PTL DEF Spec
-----------------------------------------------------------------------------
(***************************************************************************)
(* The streams nobody can stop.                                            *)
(***************************************************************************)
\* Steps that start no stream, and let an entry go only of a session that is
\* silent, refused or counted as orphaned.
LEMMA OwnerFrame ==
  ASSUME StreamsHaveOwners,
         \A s \in Sessions : stream'[s] => stream[s],
         refused \subseteq refused', orphaned \subseteq orphaned',
         \A h \in Handlers : pc[h] = "insert" =>
           \/ pc'[h] = "insert" /\ session'[h] = session[h]
           \/ \E k \in Keys : session_map'[k] = session[h]
           \/ session[h] \in orphaned',
         \A k \in Keys : session_map'[k] # session_map[k] /\ session_map[k] \in Sessions /\ stream'[session_map[k]]
           => session_map[k] \in refused' \cup orphaned'
  PROVE  StreamsHaveOwners'
<1> SUFFICES ASSUME NEW s \in Sessions, stream'[s]
             PROVE  \/ \E k \in Keys : session_map'[k] = s
                    \/ \E h \in Handlers : pc'[h] = "insert" /\ session'[h] = s
                    \/ s \in refused' \cup orphaned'
  BY DEF StreamsHaveOwners, InMap
<1>1. \/ \E k \in Keys : session_map[k] = s
      \/ \E h \in Handlers : pc[h] = "insert" /\ session[h] = s
      \/ s \in refused \cup orphaned
  BY DEF StreamsHaveOwners, InMap
<1>2. ASSUME NEW k \in Keys, session_map[k] = s
      PROVE  session_map'[k] = s \/ s \in refused' \cup orphaned'
  BY <1>2
<1>3. ASSUME NEW h \in Handlers, pc[h] = "insert", session[h] = s
      PROVE  \/ \E k \in Keys : session_map'[k] = s
             \/ pc'[h] = "insert" /\ session'[h] = s
             \/ s \in orphaned'
  BY <1>3
<1>4. QED
  BY <1>1, <1>2, <1>3

\* Every step keeps StreamsHaveOwners.
LEMMA OwnerStep ==
  ASSUME TypeOK, BusyInv, QuietInv, StreamsHaveOwners, [Next]_vars
  PROVE  StreamsHaveOwners'
<1>t. /\ session_map \in [Keys -> Sessions \cup {None}] /\ None \notin Sessions
      /\ pc \in [Handlers -> {"idle"} \cup PlaySteps \cup StopSteps]
      /\ session \in [Handlers -> Sessions \cup {None}]
      /\ stream \in [Sessions -> BOOLEAN]
      /\ \A h \in Handlers : pc[h] # "idle" => session[h] \in Sessions /\ key[h] \in Keys
  BY SessionsAssumption, Lives DEF TypeOK
<1>1. ASSUME NEW h \in Handlers, NEW k \in Keys, GetForPlay(h, k) \/ GetForStop(h, k)
      PROVE  StreamsHaveOwners'
  <2>1. /\ UNCHANGED <<session_map, stream, refused, orphaned>> /\ pc[h] = "idle"
        /\ \A g \in Handlers \ {h} : session'[g] = session[g] /\ pc'[g] = pc[g]
    BY <1>t, <1>1 DEF GetForPlay, GetForPlay_Found, GetForPlay_New, GetForStop, goto, deviceVars, history
  <2>2. QED
    BY <2>1, OwnerFrame
<1>2. ASSUME NEW h \in Handlers, startRealPlaySession(h) \/ startRecordPlaySession(h)
      PROVE  StreamsHaveOwners'
  <2>1. /\ pc[h] = "start" /\ UNCHANGED <<session_map, session, refused, orphaned>>
        /\ \A g \in Handlers \ {h} : pc'[g] = pc[g]
        /\ \/ stream' = stream
           \/ stream' = [stream EXCEPT ![session[h]] = TRUE] /\ pc'[h] = "insert"
    BY <1>t, <1>2 DEF startRealPlaySession, startRecordPlaySession, Plays, goto, deviceVars, history
  <2>2. CASE stream' = stream
    BY <2>1, <2>2, OwnerFrame
  <2>3. CASE stream' = [stream EXCEPT ![session[h]] = TRUE] /\ pc'[h] = "insert"
    <3>1. \A s \in Sessions \ {session[h]} : stream'[s] = stream[s]
      BY <1>t, <2>3
    <3>2. \A g \in Handlers : pc[g] = "insert" => pc'[g] = "insert"
      BY <2>1
    <3>3. QED
      BY <2>1, <2>3, <3>1, <3>2 DEF StreamsHaveOwners, InMap
  <2>4. QED
    BY <2>1, <2>2, <2>3
\* The new session finds its place, or the key has one already.
<1>3. ASSUME NEW h \in Handlers, InsertPlaySession(h) PROVE StreamsHaveOwners'
  <2>1. /\ UNCHANGED <<session, stream, refused>> /\ key[h] \in Keys
        /\ \A g \in Handlers \ {h} : pc'[g] = pc[g]
    BY <1>t, <1>3 DEF InsertPlaySession, goto, deviceVars
  <2>2. CASE session_map[key[h]] = None
    <3>1. session_map' = [session_map EXCEPT ![key[h]] = session[h]] /\ orphaned' = orphaned
      BY <1>3, <2>2 DEF InsertPlaySession
    <3>2. session_map'[key[h]] = session[h] /\ \A k \in Keys \ {key[h]} : session_map'[k] = session_map[k]
      BY <1>t, <2>1, <3>1
    <3>3. QED
      BY <1>t, <2>1, <2>2, <3>1, <3>2, OwnerFrame
  <2>3. CASE session_map[key[h]] # None
    <3>1. session_map' = session_map /\ orphaned' = orphaned \cup {session[h]}
      BY <1>3, <2>3 DEF InsertPlaySession
    <3>2. QED
      BY <2>1, <3>1, OwnerFrame
  <2>4. QED
    BY <2>2, <2>3
<1>4. ASSUME NEW h \in Handlers, stopSession(h) PROVE StreamsHaveOwners'
  <2>1. /\ pc[h] = "stop" /\ UNCHANGED <<session_map, session, orphaned>>
        /\ \A g \in Handlers \ {h} : pc'[g] = pc[g]
        /\ refused \subseteq refused' /\ stream' \in {stream, [stream EXCEPT ![session[h]] = FALSE]}
    BY <1>t, <1>4 DEF stopSession, goto
  <2>2. \A s \in Sessions : stream'[s] => stream[s]
    BY <1>t, <2>1
  <2>3. QED
    BY <2>1, <2>2, OwnerFrame
\* What stop_play takes out of the map is its own session, which is silent or
\* refused to be, or it is orphaned.
<1>5. ASSUME NEW h \in Handlers, DelPlaySession(h) PROVE StreamsHaveOwners'
  <2>1. /\ pc[h] = "delete" /\ UNCHANGED <<session, stream, refused>> /\ key[h] \in Keys
        /\ pc' = [pc EXCEPT ![h] = "stopReturn"]
        /\ session_map' = [session_map EXCEPT ![key[h]] = None]
        /\ orphaned' = orphaned \cup ({session_map[key[h]]} \ {session[h], None})
    BY <1>t, <1>5 DEF DelPlaySession, goto, deviceVars
  <2>2. stream[session[h]] => session[h] \in refused
    BY <2>1 DEF QuietInv, SilentInv, StopSteps
  <2>3. \A k \in Keys \ {key[h]} : session_map'[k] = session_map[k]
    BY <1>t, <2>1
  <2>4. session_map[key[h]] \in Sessions /\ stream[session_map[key[h]]]
          => session_map[key[h]] \in refused \cup orphaned'
    BY <1>t, <2>1, <2>2
  <2>5. \A g \in Handlers : pc[g] = "insert" => pc'[g] = "insert"
    BY <1>t, <2>1
  <2>6. QED
    BY <2>1, <2>3, <2>4, <2>5, OwnerFrame
<1>6. ASSUME NEW s \in Sessions, onclose(s) PROVE StreamsHaveOwners'
  <2>1. UNCHANGED <<pc, session, stream, refused>> /\ orphaned \subseteq orphaned'
    BY <1>6 DEF onclose, deviceVars
  <2>2. ASSUME NEW k \in Keys, session_map'[k] # session_map[k] PROVE session_map[k] \in orphaned'
    BY <1>t, <1>6, <2>2 DEF onclose
  <2>3. QED
    BY <2>1, <2>2, OwnerFrame
\* The other steps move no entry, start no stream and insert nothing.
<1>7. ASSUME UNCHANGED <<session_map, stream, refused, orphaned>>,
             \A h \in Handlers : pc[h] = "insert" => pc'[h] = "insert" /\ session'[h] = session[h]
      PROVE  StreamsHaveOwners'
  BY <1>7, OwnerFrame
<1>8. ASSUME NEW h \in Handlers,
             \/ connetMS(h) \/ PlayReturn(h) \/ stopSession_clear(h)
             \/ stopSession_disconnect(h) \/ StopReturn(h)
      PROVE  StreamsHaveOwners'
  <2>1. /\ UNCHANGED <<session_map, stream, refused, orphaned>> /\ pc[h] # "insert"
        /\ \A g \in Handlers \ {h} : pc'[g] = pc[g] /\ session'[g] = session[g]
    BY <1>t, <1>8 DEF connetMS, PlayReturn, stopSession_clear, stopSession_disconnect, StopReturn,
       return, goto, deviceVars, history
  <2>2. QED
    BY <1>7, <2>1
<1>9. ASSUME NEW s \in Sessions, sendMS_error(s) \/ ConnectionLost(s) PROVE StreamsHaveOwners'
  BY <1>7, <1>9 DEF sendMS_error, ConnectionLost, deviceVars, history
<1>10. CASE UNCHANGED vars
  BY <1>7, <1>10 DEF vars
<1>11. QED
  BY <1>1, <1>2, <1>3, <1>4, <1>5, <1>6, <1>8, <1>9, <1>10 DEF Next, Handler

\* A destroyed session is in nobody's hands.
LEMMA Dangling ==
  ASSUME TypeOK, BusyInv, StreamsHaveOwners, NEW s \in destroyed, stream[s]
  PROVE  s \in refused \cup orphaned
<1>1. s \in Sessions /\ ~InMap(s) /\ \A h \in Handlers : pc[h] = "insert" => session[h] # s
  BY Lives, SessionsAssumption DEF TypeOK, InMap
<1>2. QED
  BY <1>1 DEF StreamsHaveOwners

\* QuietInv and StreamsHaveOwners hold always.
LEMMA OwnerCorrect == Spec => [](QuietInv /\ StreamsHaveOwners)
<1>1. Init => QuietInv /\ StreamsHaveOwners
  BY DEF Init, QuietInv, SilentInv, StoppedSilent, StopSteps, StreamsHaveOwners
<1>2. MapInv => OwnInv
  BY DEF MapInv
<1>3. QED
  BY <1>1, <1>2, MapCorrect, SilentStep, OwnerStep, TypeCorrect, PTL DEF Spec

(***************************************************************************)
(* A running stream's session is in the map, or about to be put there, or  *)
(* it is one the device refused to stop, the loser of two plays, or one    *)
(* that onclose or a stop_play of the key took out of the map without      *)
(* having stopped it.                                                      *)
(***************************************************************************)
THEOREM StreamsCorrect == Spec => []StreamsHaveOwners
BY OwnerCorrect, PTL

(***************************************************************************)
(* The raw pointer in the SDK's callback outlives the session in these     *)
(* cases only: the refused and the orphaned sessions.                      *)
(***************************************************************************)
THEOREM DanglingCallbacks ==
  Spec => [](\A s \in destroyed : stream[s] => s \in refused \cup orphaned)
<1>1. TypeOK /\ BusyInv /\ StreamsHaveOwners
        => \A s \in destroyed : stream[s] => s \in refused \cup orphaned
  BY Dangling
<1>2. QED
  BY <1>1, StreamsCorrect, TypeCorrect, PTL
=============================================================================
