-------------------------- MODULE PlaybackControl --------------------------
(***************************************************************************)
(* Pause, resume and speed of one recorded stream.  The handlers run on    *)
(* threads of sdk_thread and share the PlaySession without a lock; the     *)
(* recorder is told through CLIENT_PausePlayBack, CLIENT_FastPlayBack,     *)
(* CLIENT_SlowPlayBack and CLIENT_NormalPlayBack, and may refuse each.     *)
(* A stop may come at any time.                                            *)
(*                                                                         *)
(* Speeds are counted in eighths of the normal one (PlaySession.h: "1/8    *)
(* 1/4 1/2 1.0 2 4 8"), so that all of them are numbers of Nat.            *)
(***************************************************************************)
EXTENDS Integers, FiniteSets

CONSTANTS Pool,      \* threads of sdk_thread
          Asks,      \* bound: what a control request may ask
          Garbage,   \* bound: what the uninitialised local "speed" may hold
          Fastest    \* bound: the recorder refuses to go faster

Normal == 8

\* "stop" is CHANNEL_STOP_PLAY.  A speed that is no JSON double ("speed":2)
\* is NoDouble.
NoDouble == -1
Controls == [kind : {"pause", "resume", "stop"}] \cup [kind : {"speed"}, speed : Nat \cup {NoDouble}]

ASSUME ControlAssumption ==
  /\ Asks \subseteq Controls
  /\ Garbage \subseteq Nat /\ Garbage # {}
  /\ Fastest \in Nat /\ Fastest >= Normal

VARIABLES listed,     \* SessionMange has the session
          handle,     \* m_lRecordPlayHandle # 0
          m_bPause, m_nSpeed,
          playing,    \* recorder: the playback the handle names exists
          devPaused,  \* recorder: it is paused
          devSpeed,   \* recorder: its speed
          step, ask,  \* threads: where each is, and in which request
          speed,      \* ... the local variable speed
          tries,      \* ... iterations of setSpeed's loop that are left
          alone,      \* history: nothing has met it that could undo what it does
          plain       \* history: every change of the speed since the last
                      \* lone NormalPlayBack was a lone one by a factor of 2

sessionVars == <<listed, handle, m_bPause, m_nSpeed>>
recorderVars == <<playing, devPaused, devSpeed>>
localVars == <<ask, speed, tries>>
historyVars == <<alone, plain>>
controlVars == <<sessionVars, recorderVars, step, localVars, historyVars>>

ControlSteps == {"idle", "assign", "pauseCall", "undo", "compare", "countFast", "countSlow",
                 "normal", "fast", "slow", "remember", "stopCall", "clear", "delete",
                 "ok", "failed"}

ControlTypeOK ==
  /\ listed \in BOOLEAN /\ handle \in BOOLEAN /\ m_bPause \in BOOLEAN
  /\ playing \in BOOLEAN /\ devPaused \in BOOLEAN /\ plain \in BOOLEAN
  /\ m_nSpeed \in Nat /\ devSpeed \in 1 .. Fastest
  /\ step \in [Pool -> ControlSteps]
  /\ ask \in [Pool -> Controls]
  /\ speed \in [Pool -> Nat] /\ tries \in [Pool -> Nat]
  /\ alone \in [Pool -> BOOLEAN]

NoAsk == [kind |-> "stop"]

\* After startRecordPlaySession.  The constructor does not set m_bPause.
ControlInit ==
  /\ listed = TRUE /\ handle = TRUE /\ playing = TRUE
  /\ m_bPause \in BOOLEAN /\ devPaused = FALSE
  /\ m_nSpeed = Normal /\ devSpeed = Normal
  /\ step = [t \in Pool |-> "idle"] /\ ask = [t \in Pool |-> NoAsk]
  /\ speed = [t \in Pool |-> 0] /\ tries = [t \in Pool |-> 0]
  /\ alone = [t \in Pool |-> TRUE] /\ plain = TRUE
-----------------------------------------------------------------------------
Move(t, from, to) == step[t] = from /\ step' = [step EXCEPT ![t] = to]

Sort(a) == IF a.kind = "speed" THEN "speed" ELSE IF a.kind = "stop" THEN "stop" ELSE "pause"
Finished == {"idle", "ok", "failed"}

\* Any other change of the speed is against one; of two pauses neither is
\* against the other (but see pausePlayBack_undo).
Against(a, b) == Sort(a) = Sort(b) /\ (Sort(a) = "pause" => a.kind # b.kind)

\* Threads other than t in a request that is against a.
Rivals(t, a) == {u \in Pool \ {t} : step[u] # "idle" /\ Against(ask[u], a)}
Met(t, a) == \E u \in Rivals(t, a) : step[u] \notin Finished

\* Where the request goes when GetPlaySession found the session.
EntryStep(a) == CASE Sort(a) = "pause" -> "assign" [] Sort(a) = "speed" -> "compare" [] OTHER -> "stopCall"

\* pars_record_speed leaves speed alone when it is not a double.
pars_record_speed(t, a) ==
  IF a.kind = "speed" /\ a.speed = NoDouble
  THEN \E g \in Garbage : speed' = [speed EXCEPT ![t] = g]
  ELSE speed' = [speed EXCEPT ![t] = IF a.kind = "speed" THEN a.speed ELSE 0]

(***************************************************************************)
(* device_record_pause, _resume, _speed and channel_stop_play: parse, then *)
(* GetPlaySession.  Without a session they return -1.                      *)
(***************************************************************************)
control(t, a) ==
  /\ Move(t, "idle", IF listed THEN EntryStep(a) ELSE "failed")
  /\ ask' = [ask EXCEPT ![t] = a]
  /\ pars_record_speed(t, a)
  /\ alone' = [u \in Pool |-> IF u = t THEN ~Met(t, a) ELSE alone[u] /\ u \notin Rivals(t, a)]
  /\ plain' = (plain /\ ~(a.kind = "speed" /\ Met(t, a)))
  /\ UNCHANGED <<sessionVars, recorderVars, tries>>

\* The handler logs the outcome and returns.
control_return(t) ==
  /\ step[t] \in {"ok", "failed"}
  /\ step' = [step EXCEPT ![t] = "idle"]
  /\ ask' = [ask EXCEPT ![t] = NoAsk]
  /\ speed' = [speed EXCEPT ![t] = 0] /\ tries' = [tries EXCEPT ![t] = 0]
  /\ alone' = [alone EXCEPT ![t] = TRUE]
  /\ UNCHANGED <<sessionVars, recorderVars, plain>>
-----------------------------------------------------------------------------
(***************************************************************************)
(* pausePlayBack: the member is assigned, read again for the call, and     *)
(* inverted when the recorder refuses.                                     *)
(***************************************************************************)
pausePlayBack(t) ==
  /\ Move(t, "assign", "pauseCall")
  /\ m_bPause' = (ask[t].kind = "pause")
  /\ UNCHANGED <<listed, handle, m_nSpeed, recorderVars, localVars, historyVars>>

\* A recorder may take a request on a playback it knows, and refuse any.
Taken == handle /\ playing

CLIENT_PausePlayBack(t) ==
  /\ \/ Taken /\ Move(t, "pauseCall", "ok") /\ devPaused' = m_bPause
     \/ Move(t, "pauseCall", "undo") /\ UNCHANGED devPaused
  /\ UNCHANGED <<sessionVars, playing, devSpeed, localVars, historyVars>>

\* The inverse of the member as it is by now, whoever assigned it: whatever
\* pause or resume is under way is disturbed.
pausePlayBack_undo(t) ==
  /\ Move(t, "undo", "failed")
  /\ m_bPause' = ~m_bPause
  /\ alone' = [u \in Pool |-> alone[u] /\ Sort(ask[u]) # "pause"]
  /\ UNCHANGED <<listed, handle, m_nSpeed, recorderVars, localVars, plain>>
-----------------------------------------------------------------------------
(***************************************************************************)
(* setSpeed(float).  The loop goes on while the recorder refuses and ends  *)
(* with the first step it takes; a refused iteration overwrites speed.     *)
(***************************************************************************)

setSpeed_compare(t) ==
  LET to == IF speed[t] = Normal THEN "normal"
            ELSE IF speed[t] > m_nSpeed THEN "countFast" ELSE "countSlow"
      double == speed[t] = 2 * m_nSpeed \/ m_nSpeed = 2 * speed[t]
  IN  /\ Move(t, "compare", to)
      /\ plain' = (plain /\ ask[t].speed # NoDouble /\ (to = "normal" \/ double))
      /\ UNCHANGED <<sessionVars, recorderVars, localVars, alone>>

\* int n = sqrt(a) / sqrt(b).  Division by 0 gives an infinity, which the
\* conversion on x86 turns into INT_MIN: no iteration.
Iterations(a, b) == IF b = 0 THEN 0 ELSE Cardinality({n \in 1 .. a : n * n * b <= a})

\* The loop's condition: without an iteration left DHRET is what the last one
\* was, and TRUE when there was none.
setSpeed_count(t) ==
  /\ \/ /\ step[t] = "countFast"
        /\ tries' = [tries EXCEPT ![t] = Iterations(speed[t], m_nSpeed)]
        /\ step' = [step EXCEPT ![t] = IF tries'[t] = 0 THEN "remember" ELSE "fast"]
     \/ /\ step[t] = "countSlow"
        /\ tries' = [tries EXCEPT ![t] = Iterations(m_nSpeed, speed[t])]
        /\ step' = [step EXCEPT ![t] = IF tries'[t] = 0 THEN "remember" ELSE "slow"]
  /\ UNCHANGED <<sessionVars, recorderVars, ask, speed, historyVars>>

CLIENT_NormalPlayBack(t) ==
  /\ \/ Taken /\ Move(t, "normal", "remember") /\ devSpeed' = Normal
     \/ Move(t, "normal", "failed") /\ UNCHANGED devSpeed
  /\ UNCHANGED <<sessionVars, playing, devPaused, localVars, historyVars>>

\* Mutant: the last refusal is taken for a success.
setSpeed_refused_Ignored(t, dir, next) ==
  /\ step[t] = dir
  /\ speed' = IF tries[t] > 1 THEN [speed EXCEPT ![t] = next] ELSE speed
  /\ tries' = [tries EXCEPT ![t] = @ - 1]
  /\ step' = [step EXCEPT ![t] = IF tries[t] > 1 THEN dir ELSE "remember"]
  /\ UNCHANGED <<sessionVars, recorderVars, ask, historyVars>>

\* Mutant: "i <= n".
setSpeed_refused_OneMore(t, dir, next) ==
  /\ step[t] = dir
  /\ speed' = [speed EXCEPT ![t] = next]
  /\ tries' = [tries EXCEPT ![t] = @ - 1]
  /\ step' = [step EXCEPT ![t] = IF tries[t] >= 0 THEN dir ELSE "failed"]
  /\ UNCHANGED <<sessionVars, recorderVars, ask, historyVars>>

\* An iteration the recorder refused: speed becomes next.
setSpeed_refused(t, dir, next) ==
  /\ step[t] = dir
  /\ speed' = [speed EXCEPT ![t] = next]
  /\ tries' = [tries EXCEPT ![t] = @ - 1]
  /\ step' = [step EXCEPT ![t] = IF tries[t] > 1 THEN dir ELSE "failed"]
  /\ UNCHANGED <<sessionVars, recorderVars, ask, historyVars>>

\* The recorder doubles or halves what it plays at, whatever that is, down to
\* one eighth (a bound, as Fastest is).
CLIENT_FastPlayBack(t) ==
  /\ Taken /\ 2 * devSpeed <= Fastest
  /\ Move(t, "fast", "remember")
  /\ devSpeed' = 2 * devSpeed
  /\ UNCHANGED <<sessionVars, playing, devPaused, localVars, historyVars>>

CLIENT_SlowPlayBack(t) ==
  /\ Taken /\ devSpeed > 1
  /\ Move(t, "slow", "remember")
  /\ devSpeed' = devSpeed \div 2
  /\ UNCHANGED <<sessionVars, playing, devPaused, localVars, historyVars>>

\* "1 / 2 * m_nSpeed" is an integer division: 0.
setSpeed_loop(t) ==
  \/ CLIENT_FastPlayBack(t) \/ setSpeed_refused(t, "fast", 2 * m_nSpeed)
  \/ CLIENT_SlowPlayBack(t) \/ setSpeed_refused(t, "slow", (1 \div 2) * m_nSpeed)

setSpeed_remember(t) ==
  /\ Move(t, "remember", "ok")
  /\ m_nSpeed' = speed[t]
  /\ plain' = (plain \/ (ask[t].speed = Normal /\ alone[t]))
  /\ UNCHANGED <<listed, handle, m_bPause, recorderVars, localVars, alone>>
-----------------------------------------------------------------------------
(***************************************************************************)
(* stop_play of the session: its answer is that of CLIENT_StopPlayBack.    *)
(***************************************************************************)
CLIENT_StopPlayBack(t) ==
  /\ Move(t, "stopCall", IF handle THEN "clear" ELSE "delete")
  /\ \/ handle /\ playing' = FALSE
     \/ UNCHANGED playing
  /\ UNCHANGED <<sessionVars, devPaused, devSpeed, localVars, historyVars>>

stopSession_record(t) ==
  /\ Move(t, "clear", "delete")
  /\ handle' = FALSE
  /\ UNCHANGED <<listed, m_bPause, m_nSpeed, recorderVars, localVars, historyVars>>

DelPlaySession(t) ==
  /\ Move(t, "delete", "ok") \/ Move(t, "delete", "failed")
  /\ listed' = FALSE
  /\ UNCHANGED <<handle, m_bPause, m_nSpeed, recorderVars, localVars, historyVars>>

Control(t) ==
  \/ pausePlayBack(t) \/ CLIENT_PausePlayBack(t) \/ pausePlayBack_undo(t)
  \/ setSpeed_compare(t) \/ setSpeed_count(t) \/ CLIENT_NormalPlayBack(t)
  \/ setSpeed_loop(t) \/ setSpeed_remember(t)
  \/ CLIENT_StopPlayBack(t) \/ stopSession_record(t) \/ DelPlaySession(t)
  \/ control_return(t)
-----------------------------------------------------------------------------
\* The recorder does what a asks, and so does the session: its stream thread
\* waits while m_bPause.
Does(a) ==
  /\ Sort(a) = "pause" => {devPaused, m_bPause} = {a.kind = "pause"}
  /\ Sort(a) = "speed" => devSpeed = a.speed

(***************************************************************************)
(* A pause or resume that succeeded has left recorder and session as it    *)
(* was asked for, also among others that ask for the same; what can undo   *)
(* it is the opposite request, or the refusal of another one, which        *)
(* inverts m_bPause whoever assigned it last.                              *)
(*   A speed request that succeeded and met no other one has left the      *)
(* recorder at that speed as long as things are "plain": it is told        *)
(* "faster" or "slower", once, which is right only while m_nSpeed is its   *)
(* speed, and the code keeps that up only while speeds change one factor   *)
(* of 2 at a time.  (A jump succeeds and is wrong: PlaySession.cpp:503.)   *)
(*   The outcome is what the handler logs; the platform is told nothing.   *)
(***************************************************************************)
AnsweredAsAsked ==
  \A t \in Pool :
    step[t] = "ok" /\ alone[t] /\ (ask[t].kind = "speed" => plain) => Does(ask[t])
=============================================================================
