------------------------ MODULE PoolRequestsProofs ------------------------
(***************************************************************************)
(* Proofs about the requests that share a session or a gateway_msg, for    *)
(* any number of pool threads, requests, speeds and saved platforms: what  *)
(* a step of a control request preserves (PlaybackControl), what a build   *)
(* of a msgId preserves (MessageIds), and with both of them the theorems   *)
(* of the threads' specification (PoolRequests).                           *)
(***************************************************************************)
EXTENDS PoolRequests, FiniteSetTheorems, SequenceTheorems, TLAPS

(***************************************************************************)
(* The requests about one playback, on any number of threads.              *)
(***************************************************************************)
PauseSteps == {"assign", "pauseCall", "undo"}
Counting == {"countFast", "countSlow"}
Looping == {"fast", "slow"}
SpeedSteps == {"compare", "normal", "remember"} \cup Counting \cup Looping
StopSteps == {"stopCall", "clear", "delete"}

\* Where a thread is tells the sort of its request.
StepInv ==
  \A t \in Pool :
    /\ step[t] \in PauseSteps => Sort(ask[t]) = "pause"
    /\ step[t] \in SpeedSteps => Sort(ask[t]) = "speed"
    /\ step[t] \in StopSteps => Sort(ask[t]) = "stop"

\* While a request is alone nobody else is at work against it.
AloneOf(t) ==
  alone[t] /\ step[t] # "idle" => \A u \in Pool \ {t} :
    /\ Sort(ask[t]) = "pause" /\ step[u] \in PauseSteps => ask[u].kind = ask[t].kind
    /\ Sort(ask[t]) = "speed" => step[u] \notin SpeedSteps
AloneInv == \A t \in Pool : AloneOf(t)

\* No two handlers change the speed at once.
OneSpeed == \A t, u \in Pool : step[t] \in SpeedSteps /\ step[u] \in SpeedSteps => t = u

\* A lone pause or resume finds m_bPause as it assigned it, and leaves it so.
PauseOf(t) ==
  alone[t] /\ Sort(ask[t]) = "pause" =>
    /\ step[t] \in {"pauseCall", "ok"} => (m_bPause <=> ask[t].kind = "pause")
    /\ step[t] = "ok" => (devPaused <=> ask[t].kind = "pause")
PauseInv == \A t \in Pool : PauseOf(t)

\* What leads a request for the normal speed back to a known state.
NormalOf(t) ==
  /\ step[t] = "compare" /\ ask[t].speed # NoDouble => speed[t] = ask[t].speed
  /\ step[t] \in Counting \cup Looping => ask[t].speed # Normal
  /\ step[t] = "normal" => speed[t] = Normal
  /\ step[t] = "remember" /\ ask[t].speed = Normal =>
       speed[t] = Normal /\ (alone[t] => devSpeed = Normal)
NormalInv == \A t \in Pool : NormalOf(t)

\* A refusal leaves an iteration to refuse or ends the loop.
LoopInv == \A t \in Pool : step[t] \in Looping => tries[t] > 0

\* While all changes are plain a speed request asks for the factor 2 ...
PlainOf(t) ==
  /\ step[t] \in {"normal", "remember"} \cup Counting \cup Looping => ask[t].speed = speed[t]
  /\ step[t] \in {"countFast", "fast"} => speed[t] = 2 * m_nSpeed
  /\ step[t] \in {"countSlow", "slow"} => m_nSpeed = 2 * speed[t]
  /\ step[t] \in Looping => tries[t] = 1
  /\ step[t] = "remember" => devSpeed = speed[t]
  /\ step[t] = "ok" /\ Sort(ask[t]) = "speed" /\ alone[t] => devSpeed = ask[t].speed

\* ... and m_nSpeed is the recorder's speed, but for the moment in between.
Remembered == (\A t \in Pool : step[t] # "remember") => m_nSpeed = devSpeed

PlainInv == plain => OneSpeed /\ Remembered /\ \A t \in Pool : PlainOf(t)

\* The inductive invariant of PlaybackControl.
ControlInv == StepInv /\ AloneInv /\ PauseInv /\ NormalInv /\ LoopInv /\ PlainInv
-----------------------------------------------------------------------------
(***************************************************************************)
(* setSpeed's number of iterations.                                        *)
(***************************************************************************)
LEMMA IterationsType ==
  ASSUME NEW a \in Nat, NEW b \in Nat
  PROVE  Iterations(a, b) \in Nat
<1> DEFINE Squares == {n \in 1 .. a : n * n * b <= a}
<1>1. IsFiniteSet(1 .. a)
  BY FS_Interval
<1>2. IsFiniteSet(Squares)
  BY <1>1, FS_Subset
<1>3. Cardinality(Squares) \in Nat
  BY <1>2, FS_CardinalityType
<1>4. QED
  BY <1>3 DEF Iterations

\* From the double of a speed to the speed is one call.
LEMMA OneIteration ==
  ASSUME NEW b \in Nat, b > 0
  PROVE  Iterations(2 * b, b) = 1
<1> DEFINE Squares == {n \in 1 .. 2 * b : n * n * b <= 2 * b}
<1>1. 1 \in Squares
  <2>1. 1 \in 1 .. 2 * b /\ 1 * 1 * b = b /\ b <= 2 * b
    OBVIOUS
  <2>2. QED
    BY <2>1
<1>2. ASSUME NEW n \in Squares PROVE n = 1
  <2>1. SUFFICES ASSUME n >= 2 PROVE FALSE
    OBVIOUS
  <2>2. n \in Nat /\ n * n >= 4
    BY <2>1
  <2>3. n * n * b >= 4 * b
    <3> DEFINE m == n * n
    <3>1. m \in Nat /\ m >= 4
      BY <2>2
    <3> HIDE DEF m
    <3>2. m * b >= 4 * b
      BY <3>1
    <3>3. QED
      BY <3>2 DEF m
  <2>4. QED
    BY <2>3
<1>3. Squares = {1}
  BY <1>1, <1>2
<1>4. Cardinality(Squares) = 1
  BY <1>3, FS_Singleton
<1>5. QED
  BY <1>4 DEF Iterations
-----------------------------------------------------------------------------
\* What a control request makes of itself.
LEMMA AskType ==
  ASSUME NEW a \in Controls
  PROVE  /\ Sort(a) \in {"pause", "speed", "stop"}
         /\ Sort(a) = "speed" <=> a.kind = "speed"
         /\ a.kind = "speed" => a.speed \in Nat \cup {NoDouble}
         /\ Sort(a) = "pause" => EntryStep(a) = "assign"
         /\ Sort(a) = "speed" => EntryStep(a) = "compare"
         /\ Sort(a) = "stop" => EntryStep(a) = "stopCall"
<1>1. a.kind \in {"pause", "resume", "stop", "speed"}
  BY DEF Controls
<1>2. a.kind = "speed" => a.speed \in Nat \cup {NoDouble}
  BY DEF Controls
<1>3. Sort(a) \in {"pause", "speed", "stop"} /\ (Sort(a) = "speed" <=> a.kind = "speed")
  BY <1>1 DEF Sort
<1>4. /\ Sort(a) = "pause" => EntryStep(a) = "assign"
      /\ Sort(a) = "speed" => EntryStep(a) = "compare"
      /\ Sort(a) = "stop" => EntryStep(a) = "stopCall"
  BY <1>3 DEF EntryStep
<1>5. QED
  BY <1>2, <1>3, <1>4

\* The request of a thread that has none.
LEMMA NoAskType == NoAsk \in Controls /\ Sort(NoAsk) = "stop"
BY DEF NoAsk, Controls, Sort

\* The initial states have the types and the invariant.
LEMMA ControlInitially == ControlInit => ControlTypeOK /\ ControlInv
<1>1. SUFFICES ASSUME ControlInit PROVE ControlTypeOK /\ ControlInv
  OBVIOUS
<1> USE <1>1, NoAskType, ControlAssumption
<1>2. ControlTypeOK
  <2>1. m_nSpeed \in Nat /\ devSpeed \in 1 .. Fastest
    BY DEF ControlInit, Normal
  <2>2. step \in [Pool -> ControlSteps] /\ ask \in [Pool -> Controls]
    BY DEF ControlInit, ControlSteps
  <2>3. speed \in [Pool -> Nat] /\ tries \in [Pool -> Nat] /\ alone \in [Pool -> BOOLEAN]
    BY DEF ControlInit
  <2>4. QED
    BY <2>1, <2>2, <2>3 DEF ControlInit, ControlTypeOK
<1>3. \A t \in Pool : step[t] = "idle"
  BY DEF ControlInit
<1>4. StepInv /\ AloneInv /\ PauseInv /\ NormalInv /\ LoopInv
  BY <1>3 DEF StepInv, LoopInv, AloneInv, AloneOf, PauseInv, PauseOf, NormalInv, NormalOf, PauseSteps,
     SpeedSteps, StopSteps, Counting, Looping
<1>5. PlainInv
  BY <1>3 DEF ControlInit, PlainInv, OneSpeed, Remembered, PlainOf, SpeedSteps, Counting, Looping
<1>6. QED
  BY <1>2, <1>4, <1>5 DEF ControlInv
-----------------------------------------------------------------------------
(***************************************************************************)
(* Types.                                                                  *)
(***************************************************************************)
LEMMA MoveType ==
  ASSUME step \in [Pool -> ControlSteps], NEW t \in Pool, NEW from, NEW to \in ControlSteps,
         Move(t, from, to)
  PROVE  step' \in [Pool -> ControlSteps]
BY DEF Move

\* Taking a request keeps the types.
LEMMA EntryType ==
  ASSUME ControlTypeOK, NEW t \in Pool, NEW a \in Asks, control(t, a)
  PROVE  ControlTypeOK'
<1>1. a \in Controls /\ EntryStep(a) \in ControlSteps
  BY ControlAssumption, AskType DEF ControlSteps
<1>2. step' \in [Pool -> ControlSteps]
  BY <1>1, MoveType DEF control, ControlTypeOK, ControlSteps, Move
<1>3. speed' \in [Pool -> Nat]
  <2>1. a.kind = "speed" /\ a.speed # NoDouble => a.speed \in Nat
    BY <1>1, AskType
  <2>2. CASE a.kind = "speed" /\ a.speed = NoDouble
    BY <2>2, ControlAssumption DEF control, pars_record_speed, ControlTypeOK
  <2>3. CASE ~(a.kind = "speed" /\ a.speed = NoDouble)
    BY <2>1, <2>3 DEF control, pars_record_speed, ControlTypeOK
  <2>4. QED
    BY <2>2, <2>3
<1>4. ask' \in [Pool -> Controls]
  BY <1>1 DEF control, ControlTypeOK
<1>5. alone' \in [Pool -> BOOLEAN]
  <2> DEFINE still(u) == IF u = t THEN ~Met(t, a) ELSE alone[u] /\ u \notin Rivals(t, a)
  <2>1. alone' = [u \in Pool |-> still(u)]
    BY DEF control
  <2>2. Met(t, a) \in BOOLEAN
    BY DEF Met
  <2>3. \A u \in Pool : still(u) \in BOOLEAN
    BY <2>2 DEF ControlTypeOK
  <2> HIDE DEF still
  <2>4. QED
    BY <2>1, <2>3
<1>6. plain' \in BOOLEAN
  BY DEF control, ControlTypeOK
<1>7. QED
  BY <1>2, <1>3, <1>4, <1>5, <1>6 DEF control, ControlTypeOK, sessionVars, recorderVars

\* A refused call of the SDK keeps the types.
LEMMA RefusedType ==
  ASSUME ControlTypeOK, NEW t \in Pool, NEW dir \in Looping, NEW next \in Nat,
         setSpeed_refused(t, dir, next), step[t] = dir => tries[t] > 0
  PROVE  ControlTypeOK'
<1>1. tries[t] > 0 /\ tries[t] - 1 \in Nat
  BY DEF setSpeed_refused, ControlTypeOK
<1>2. step' \in [Pool -> ControlSteps]
  BY DEF setSpeed_refused, ControlTypeOK, ControlSteps, Looping
<1>3. speed' \in [Pool -> Nat] /\ tries' \in [Pool -> Nat]
  BY <1>1 DEF setSpeed_refused, ControlTypeOK
<1>4. QED
  BY <1>2, <1>3 DEF setSpeed_refused, ControlTypeOK, sessionVars, recorderVars, historyVars

\* Every step of a control request keeps the types.
LEMMA ControlType ==
  ASSUME ControlTypeOK, LoopInv, NEW t \in Pool, Control(t)
  PROVE  ControlTypeOK'
<1> USE DEF sessionVars, recorderVars, localVars, historyVars
<1> DEFINE StepType == step' \in [Pool -> ControlSteps]
<1>1. CASE pausePlayBack(t) \/ CLIENT_PausePlayBack(t) \/ pausePlayBack_undo(t)
  <2>1. StepType
    BY <1>1 DEF pausePlayBack, CLIENT_PausePlayBack, pausePlayBack_undo, Move, ControlTypeOK, ControlSteps
  <2>2. m_bPause' \in BOOLEAN /\ devPaused' \in BOOLEAN
    BY <1>1 DEF pausePlayBack, CLIENT_PausePlayBack, pausePlayBack_undo, ControlTypeOK
  <2>3. QED
    BY <1>1, <2>1, <2>2 DEF pausePlayBack, CLIENT_PausePlayBack, pausePlayBack_undo, ControlTypeOK
<1>2. CASE setSpeed_compare(t)
  <2>1. StepType
    BY <1>2 DEF setSpeed_compare, Move, ControlTypeOK, ControlSteps
  <2>2. plain' \in BOOLEAN
    BY <1>2 DEF setSpeed_compare, ControlTypeOK
  <2>3. QED
    BY <1>2, <2>1, <2>2 DEF setSpeed_compare, ControlTypeOK
<1>3. CASE setSpeed_count(t)
  <2>1. m_nSpeed \in Nat /\ speed[t] \in Nat
    BY DEF ControlTypeOK
  <2>2. Iterations(speed[t], m_nSpeed) \in Nat /\ Iterations(m_nSpeed, speed[t]) \in Nat
    BY <2>1, IterationsType
  <2>3. tries' \in [Pool -> Nat]
    BY <1>3, <2>2 DEF setSpeed_count, ControlTypeOK
  <2>4. StepType
    BY <1>3 DEF setSpeed_count, ControlTypeOK, ControlSteps
  <2>5. QED
    BY <1>3, <2>3, <2>4 DEF setSpeed_count, ControlTypeOK
<1>4. CASE CLIENT_NormalPlayBack(t)
  <2>1. StepType
    BY <1>4 DEF CLIENT_NormalPlayBack, Move, ControlTypeOK, ControlSteps
  <2>2. devSpeed' \in 1 .. Fastest
    BY <1>4, ControlAssumption DEF CLIENT_NormalPlayBack, ControlTypeOK, Normal
  <2>3. QED
    BY <1>4, <2>1, <2>2 DEF CLIENT_NormalPlayBack, ControlTypeOK
<1>5. CASE CLIENT_FastPlayBack(t) \/ CLIENT_SlowPlayBack(t)
  <2>1. StepType
    BY <1>5 DEF CLIENT_FastPlayBack, CLIENT_SlowPlayBack, Move, ControlTypeOK, ControlSteps
  <2>2. devSpeed' \in 1 .. Fastest
    BY <1>5, ControlAssumption DEF CLIENT_FastPlayBack, CLIENT_SlowPlayBack, ControlTypeOK
  <2>3. QED
    BY <1>5, <2>1, <2>2 DEF CLIENT_FastPlayBack, CLIENT_SlowPlayBack, ControlTypeOK
<1>6. CASE setSpeed_refused(t, "fast", 2 * m_nSpeed) \/ setSpeed_refused(t, "slow", (1 \div 2) * m_nSpeed)
  <2>1. 2 * m_nSpeed \in Nat /\ (1 \div 2) * m_nSpeed \in Nat
    <3>1. 1 \div 2 = 0
      OBVIOUS
    <3>2. QED
      BY <3>1 DEF ControlTypeOK
  <2>2. \A dir \in Looping : step[t] = dir => tries[t] > 0
    BY DEF LoopInv
  <2>3. "fast" \in Looping /\ "slow" \in Looping
    BY DEF Looping
  <2>4. QED
    BY <1>6, <2>1, <2>2, <2>3, RefusedType
<1>7. CASE setSpeed_remember(t)
  <2>1. StepType
    BY <1>7 DEF setSpeed_remember, Move, ControlTypeOK, ControlSteps
  <2>2. m_nSpeed' \in Nat /\ plain' \in BOOLEAN
    BY <1>7 DEF setSpeed_remember, ControlTypeOK
  <2>3. QED
    BY <1>7, <2>1, <2>2 DEF setSpeed_remember, ControlTypeOK
<1>8. CASE CLIENT_StopPlayBack(t) \/ stopSession_record(t) \/ DelPlaySession(t)
  <2>1. StepType
    BY <1>8 DEF CLIENT_StopPlayBack, stopSession_record, DelPlaySession, Move, ControlTypeOK, ControlSteps
  <2>2. QED
    BY <1>8, <2>1 DEF CLIENT_StopPlayBack, stopSession_record, DelPlaySession, ControlTypeOK
<1>9. CASE control_return(t)
  <2>1. StepType
    BY <1>9 DEF control_return, ControlTypeOK, ControlSteps
  <2>2. ask' \in [Pool -> Controls] /\ speed' \in [Pool -> Nat] /\ tries' \in [Pool -> Nat]
        /\ alone' \in [Pool -> BOOLEAN]
    BY <1>9, NoAskType DEF control_return, ControlTypeOK
  <2>3. QED
    BY <1>9, <2>1, <2>2 DEF control_return, ControlTypeOK
<1>10. QED
  BY <1>1, <1>2, <1>3, <1>4, <1>5, <1>6, <1>7, <1>8, <1>9 DEF Control, setSpeed_loop
-----------------------------------------------------------------------------
(***************************************************************************)
(* Who is where: a thread keeps the sort of its request until it returns,  *)
(* and the others stay where they are.                                     *)
(***************************************************************************)
Advance(t) ==
  /\ step[t] # "idle"
  /\ step'[t] \in PauseSteps => step[t] \in PauseSteps
  /\ step'[t] \in SpeedSteps => step[t] \in SpeedSteps
  /\ step'[t] \in StopSteps => step[t] \in StopSteps
  /\ step'[t] # "idle" => ask'[t] = ask[t] /\ (alone'[t] => alone[t])
  /\ \A u \in Pool \ {t} : step'[u] = step[u] /\ ask'[u] = ask[u] /\ (alone'[u] => alone[u])

\* Every step of a handler goes on along its own request.
LEMMA ControlAdvances ==
  ASSUME ControlTypeOK, NEW t \in Pool, Control(t)
  PROVE  Advance(t)
<1> USE DEF Advance, PauseSteps, SpeedSteps, StopSteps, Counting, Looping, Move, localVars, historyVars, ControlTypeOK
<1>1. CASE pausePlayBack(t) \/ CLIENT_PausePlayBack(t) \/ pausePlayBack_undo(t)
  BY <1>1 DEF pausePlayBack, CLIENT_PausePlayBack, pausePlayBack_undo
<1>2. CASE setSpeed_compare(t)
  BY <1>2 DEF setSpeed_compare
<1>3. CASE setSpeed_count(t)
  BY <1>3 DEF setSpeed_count
<1>4. CASE CLIENT_NormalPlayBack(t) \/ setSpeed_remember(t)
  BY <1>4 DEF CLIENT_NormalPlayBack, setSpeed_remember
<1>5. CASE CLIENT_FastPlayBack(t) \/ CLIENT_SlowPlayBack(t)
  BY <1>5 DEF CLIENT_FastPlayBack, CLIENT_SlowPlayBack
<1>6. CASE setSpeed_refused(t, "fast", 2 * m_nSpeed) \/ setSpeed_refused(t, "slow", (1 \div 2) * m_nSpeed)
  BY <1>6 DEF setSpeed_refused
<1>7. CASE CLIENT_StopPlayBack(t) \/ stopSession_record(t) \/ DelPlaySession(t)
  BY <1>7 DEF CLIENT_StopPlayBack, stopSession_record, DelPlaySession
<1>8. CASE control_return(t)
  BY <1>8 DEF control_return
<1>9. QED
  BY <1>1, <1>2, <1>3, <1>4, <1>5, <1>6, <1>7, <1>8 DEF Control, setSpeed_loop

\* Going on keeps what StepInv and AloneInv say.
LEMMA AdvanceKeeps ==
  ASSUME StepInv, AloneInv, NEW t \in Pool, Advance(t)
  PROVE  StepInv' /\ AloneInv'
<1>1. StepInv'
  BY DEF StepInv, Advance, PauseSteps, SpeedSteps, StopSteps, Counting, Looping
<1>2. ASSUME NEW v \in Pool PROVE AloneOf(v)'
  <2>1. SUFFICES ASSUME alone'[v], step'[v] # "idle", NEW u \in Pool \ {v}
                 PROVE  /\ Sort(ask'[v]) = "pause" /\ step'[u] \in PauseSteps => ask'[u].kind = ask'[v].kind
                        /\ Sort(ask'[v]) = "speed" => step'[u] \notin SpeedSteps
    BY DEF AloneOf, PauseSteps, SpeedSteps, Counting, Looping
  <2>2. alone[v] /\ step[v] # "idle" /\ ask'[v] = ask[v]
    BY <2>1 DEF Advance
  <2>3. /\ Sort(ask[v]) = "pause" /\ step[u] \in PauseSteps => ask[u].kind = ask[v].kind
        /\ Sort(ask[v]) = "speed" => step[u] \notin SpeedSteps
    BY <2>1, <2>2 DEF AloneInv, AloneOf
  <2>4. /\ step'[u] \in PauseSteps => step[u] \in PauseSteps
        /\ step'[u] \in SpeedSteps => step[u] \in SpeedSteps
        /\ step'[u] # "idle" => ask'[u] = ask[u]
    BY DEF Advance
  <2>5. step'[u] \in PauseSteps => step'[u] # "idle"
    BY DEF PauseSteps
  <2>6. QED
    BY <2>2, <2>3, <2>4, <2>5
<1>3. QED
  BY <1>1, <1>2 DEF AloneInv
-----------------------------------------------------------------------------
(***************************************************************************)
(* The threads that do not move: what the mover changes is of its own sort,*)
(* and then theirs are not, or it changes it as they do, or they are not   *)
(* alone.                                                                  *)
(***************************************************************************)
PauseEffect(t) ==
  \/ UNCHANGED <<m_bPause, devPaused>>
  \/ step[t] \in PauseSteps /\ devPaused' = devPaused /\ (m_bPause' <=> ask[t].kind = "pause")
  \/ step[t] \in PauseSteps /\ m_bPause' = m_bPause /\ devPaused' = m_bPause
  \/ \A u \in Pool : alone'[u] => Sort(ask[u]) # "pause"

\* A step leaves what the invariant says of the other pauses.
LEMMA OthersPause ==
  ASSUME StepInv, AloneInv, PauseInv, NEW t \in Pool, Advance(t), PauseEffect(t),
         NEW u \in Pool \ {t}
  PROVE  PauseOf(u)'
<1>1. step'[u] = step[u] /\ ask'[u] = ask[u] /\ (alone'[u] => alone[u])
  BY DEF Advance
<1>2. CASE UNCHANGED <<m_bPause, devPaused>>
  BY <1>1, <1>2 DEF PauseInv, PauseOf
<1>3. CASE \A v \in Pool : alone'[v] => Sort(ask[v]) # "pause"
  BY <1>1, <1>3 DEF PauseOf
<1>4. ASSUME step[t] \in PauseSteps, alone'[u], Sort(ask[u]) = "pause", step[u] \in {"pauseCall", "ok"}
      PROVE  /\ ask[t].kind = ask[u].kind
             /\ m_bPause <=> ask[u].kind = "pause"
             /\ step[u] = "ok" => (devPaused <=> ask[u].kind = "pause")
  <2>1. alone[u] /\ step[u] # "idle"
    BY <1>1, <1>4
  <2>2. ask[t].kind = ask[u].kind
    BY <1>4, <2>1 DEF AloneInv, AloneOf
  <2>3. QED
    BY <1>4, <2>1, <2>2 DEF PauseInv, PauseOf
<1>5. CASE step[t] \in PauseSteps /\ devPaused' = devPaused /\ (m_bPause' <=> ask[t].kind = "pause")
  <2>1. SUFFICES ASSUME alone'[u], Sort(ask[u]) = "pause", step[u] \in {"pauseCall", "ok"}
                 PROVE  /\ m_bPause' <=> ask[u].kind = "pause"
                        /\ step[u] = "ok" => (devPaused' <=> ask[u].kind = "pause")
    BY <1>1 DEF PauseOf
  <2>2. QED
    BY <1>4, <1>5, <2>1
<1>6. CASE step[t] \in PauseSteps /\ m_bPause' = m_bPause /\ devPaused' = m_bPause
  <2>1. SUFFICES ASSUME alone'[u], Sort(ask[u]) = "pause", step[u] \in {"pauseCall", "ok"}
                 PROVE  /\ m_bPause' <=> ask[u].kind = "pause"
                        /\ step[u] = "ok" => (devPaused' <=> ask[u].kind = "pause")
    BY <1>1 DEF PauseOf
  <2>2. QED
    BY <1>4, <1>6, <2>1
<1>7. QED
  BY <1>2, <1>3, <1>5, <1>6 DEF PauseEffect

\* Plain again only by a lone request, so nobody else is changing the speed.
PlainStep(t) ==
  /\ UNCHANGED <<m_nSpeed, devSpeed>> \/ step[t] \in SpeedSteps
  /\ plain' => plain \/ (alone[t] /\ step[t] \in SpeedSteps)
  /\ \A u \in Pool \ {t} : speed'[u] = speed[u] /\ tries'[u] = tries[u]

\* A step leaves what the invariant says of the other handlers.
LEMMA OthersSpeed ==
  ASSUME StepInv, AloneInv, NormalInv, LoopInv, PlainInv,
         NEW t \in Pool, Advance(t), PlainStep(t), NEW u \in Pool \ {t}
  PROVE  /\ NormalOf(u)'
         /\ step'[u] \in Looping => tries'[u] > 0
         /\ plain' => PlainOf(u)' /\ ~(step'[t] \in SpeedSteps /\ step'[u] \in SpeedSteps)
<1>1. /\ step'[u] = step[u] /\ ask'[u] = ask[u] /\ (alone'[u] => alone[u])
      /\ speed'[u] = speed[u] /\ tries'[u] = tries[u]
  BY DEF Advance, PlainStep
<1>2. step[t] \in SpeedSteps /\ alone[u] /\ step[u] # "idle" => Sort(ask[u]) # "speed"
  BY DEF AloneInv, AloneOf
<1>3. step[u] \in SpeedSteps => Sort(ask[u]) = "speed"
  BY DEF StepInv
<1>4. NormalOf(u)'
  <2>1. step[u] = "remember" /\ alone[u] => devSpeed' = devSpeed
    BY <1>2, <1>3 DEF PlainStep, SpeedSteps
  <2>2. QED
    BY <1>1, <2>1 DEF NormalInv, NormalOf
<1>5. step'[u] \in Looping => tries'[u] > 0
  BY <1>1 DEF LoopInv
<1>6. plain' /\ step[t] \in SpeedSteps => step[u] \notin SpeedSteps
  <2>1. CASE plain
    BY <2>1 DEF PlainInv, OneSpeed
  <2>2. CASE ~plain /\ plain'
    <3>1. alone[t] /\ step[t] \in SpeedSteps /\ Sort(ask[t]) = "speed"
      BY <2>2 DEF PlainStep, StepInv
    <3>2. QED
      BY <3>1 DEF AloneInv, AloneOf, SpeedSteps, Counting, Looping
  <2>3. QED
    BY <2>1, <2>2
<1>7. plain' => PlainOf(u)'
  <2>1. SUFFICES ASSUME plain' PROVE PlainOf(u)'
    OBVIOUS
  <2>2. CASE step[t] \in SpeedSteps
    <3>1. step[u] \notin SpeedSteps
      BY <1>6, <2>1, <2>2
    <3>2. QED
      BY <1>1, <1>2, <2>2, <3>1 DEF PlainOf, SpeedSteps, Counting, Looping
  <2>3. CASE step[t] \notin SpeedSteps
    <3>1. plain /\ UNCHANGED <<m_nSpeed, devSpeed>>
      BY <2>1, <2>3 DEF PlainStep
    <3>2. QED
      BY <1>1, <3>1 DEF PlainInv, PlainOf
  <2>4. QED
    BY <2>2, <2>3
<1>8. step'[t] \in SpeedSteps => step[t] \in SpeedSteps
  BY DEF Advance
<1>9. QED
  BY <1>1, <1>4, <1>5, <1>6, <1>7, <1>8

\* What is left to show of a step: what it means for the mover.
LEMMA MoverSuffices ==
  ASSUME ControlInv, NEW t \in Pool, Advance(t), PlainStep(t),
         PauseEffect(t), PauseOf(t)', NormalOf(t)', step'[t] \in Looping => tries'[t] > 0,
         plain' => PlainOf(t)' /\ Remembered'
  PROVE  ControlInv'
<1> USE DEF ControlInv
<1>1. StepInv' /\ AloneInv'
  BY AdvanceKeeps
<1>2. \A u \in Pool : PauseOf(u)'
  BY OthersPause
<1>3. \A u \in Pool : NormalOf(u)'
  BY OthersSpeed
<1>4. LoopInv'
  BY OthersSpeed DEF LoopInv
<1>5. plain' => \A u \in Pool : PlainOf(u)'
  BY OthersSpeed
<1>6. plain' => OneSpeed'
  <2>1. SUFFICES ASSUME plain', NEW u \in Pool, NEW v \in Pool, u # v,
                        step'[u] \in SpeedSteps, step'[v] \in SpeedSteps
                 PROVE  FALSE
    BY DEF OneSpeed
  <2>2. u # t /\ v # t
    BY <2>1, OthersSpeed
  <2>3. step[u] \in SpeedSteps /\ step[v] \in SpeedSteps
    BY <2>1, <2>2 DEF Advance
  <2>4. CASE plain
    BY <2>1, <2>3, <2>4 DEF PlainInv, OneSpeed
  <2>5. CASE ~plain
    <3>1. alone[t] /\ step[t] \in SpeedSteps /\ Sort(ask[t]) = "speed"
      BY <2>1, <2>5 DEF PlainStep, StepInv
    <3>2. step[u] \notin SpeedSteps
      BY <2>2, <3>1 DEF AloneInv, AloneOf, SpeedSteps, Counting, Looping
    <3>3. QED
      BY <2>3, <3>2
  <2>6. QED
    BY <2>4, <2>5
<1>7. QED
  BY <1>1, <1>2, <1>3, <1>4, <1>5, <1>6 DEF PauseInv, NormalInv, PlainInv
-----------------------------------------------------------------------------
(***************************************************************************)
(* Each action of Control.                                                 *)
(***************************************************************************)
LEMMA PauseStep ==
  ASSUME ControlTypeOK, ControlInv, NEW t \in Pool, Control(t),
         pausePlayBack(t) \/ CLIENT_PausePlayBack(t) \/ pausePlayBack_undo(t)
  PROVE  ControlInv'
<1>1. step[t] \in PauseSteps /\ step'[t] \in {"pauseCall", "undo", "ok", "failed"}
  BY DEF pausePlayBack, CLIENT_PausePlayBack, pausePlayBack_undo, Move, PauseSteps, ControlTypeOK
<1>2. Sort(ask[t]) = "pause" /\ ask'[t] = ask[t] /\ (alone'[t] => alone[t])
  BY <1>1 DEF ControlInv, StepInv, pausePlayBack, CLIENT_PausePlayBack, pausePlayBack_undo,
     localVars, historyVars, ControlTypeOK
<1>3. UNCHANGED <<m_nSpeed, devSpeed, plain, speed, tries>>
  BY DEF pausePlayBack, CLIENT_PausePlayBack, pausePlayBack_undo, sessionVars, recorderVars,
     localVars, historyVars
<1>4. PauseOf(t)'
  <2>1. CASE pausePlayBack(t)
    <3>1. step'[t] = "pauseCall" /\ (m_bPause' <=> ask[t].kind = "pause")
      BY <2>1 DEF pausePlayBack, Move, ControlTypeOK
    <3>2. QED
      BY <1>2, <3>1 DEF PauseOf
  <2>2. CASE CLIENT_PausePlayBack(t)
    <3>1. /\ step[t] = "pauseCall" /\ (m_bPause' <=> m_bPause)
          /\ step'[t] = "undo" \/ (step'[t] = "ok" /\ (devPaused' <=> m_bPause))
      BY <2>2 DEF CLIENT_PausePlayBack, Move, ControlTypeOK, sessionVars
    <3>2. QED
      BY <1>2, <3>1 DEF PauseOf, PauseInv, ControlInv
  <2>3. CASE pausePlayBack_undo(t)
    <3>1. step'[t] = "failed"
      BY <2>3 DEF pausePlayBack_undo, Move, ControlTypeOK
    <3>2. QED
      BY <3>1 DEF PauseOf
  <2>4. QED
    BY <2>1, <2>2, <2>3
<1>5. NormalOf(t)' /\ PlainOf(t)' /\ step'[t] \notin Looping
  BY <1>1, <1>2 DEF NormalOf, PlainOf, Counting, Looping
<1>6. Advance(t)
  BY ControlAdvances
<1>7. PlainStep(t) /\ PauseEffect(t)
  <2>1. PlainStep(t)
    BY <1>3 DEF PlainStep
  <2>2. CASE pausePlayBack(t)
    BY <1>1, <2>1, <2>2 DEF PauseEffect, pausePlayBack, recorderVars
  <2>3. CASE CLIENT_PausePlayBack(t)
    BY <1>1, <2>1, <2>3 DEF PauseEffect, CLIENT_PausePlayBack, sessionVars
  <2>4. CASE pausePlayBack_undo(t)
    BY <2>1, <2>4 DEF PauseEffect, pausePlayBack_undo
  <2>5. QED
    BY <2>1, <2>2, <2>3, <2>4
<1>8. plain' => Remembered'
  <2>1. \A u \in Pool : step[u] = "remember" <=> step'[u] = "remember"
    BY <1>1, <1>6 DEF Advance, PauseSteps
  <2>2. QED
    BY <1>3, <2>1 DEF Remembered, ControlInv, PlainInv
<1>9. QED
  BY <1>1, <1>4, <1>5, <1>6, <1>7, <1>8, MoverSuffices

\* The steps of a stop keep the invariant.
LEMMA StopStep ==
  ASSUME ControlTypeOK, ControlInv, NEW t \in Pool, Control(t),
         \/ CLIENT_StopPlayBack(t) \/ stopSession_record(t) \/ DelPlaySession(t)
         \/ control_return(t)
  PROVE  ControlInv'
<1>1. /\ step[t] \in StopSteps \cup {"ok", "failed"}
      /\ step'[t] \in StopSteps \cup {"ok", "failed", "idle"}
      /\ UNCHANGED <<m_bPause, devPaused, m_nSpeed, devSpeed, plain>>
      /\ \A u \in Pool \ {t} : speed'[u] = speed[u] /\ tries'[u] = tries[u]
  BY DEF CLIENT_StopPlayBack, stopSession_record, DelPlaySession, control_return, Move, StopSteps,
     sessionVars, recorderVars, localVars, historyVars, ControlTypeOK
<1>2. step'[t] = "ok" => Sort(ask'[t]) = "stop"
  <2>1. step[t] = "delete" => Sort(ask[t]) = "stop"
    BY DEF ControlInv, StepInv, StopSteps
  <2>2. step'[t] = "ok" => step[t] = "delete" /\ ask' = ask
    BY DEF CLIENT_StopPlayBack, stopSession_record, DelPlaySession, control_return, Move,
       localVars, ControlTypeOK
  <2>3. QED
    BY <2>1, <2>2
<1>3. PauseOf(t)' /\ NormalOf(t)' /\ PlainOf(t)' /\ step'[t] \notin Looping
  BY <1>1, <1>2 DEF PauseOf, NormalOf, PlainOf, StopSteps, Counting, Looping
<1>4. Advance(t)
  BY ControlAdvances
<1>5. PlainStep(t)
  BY <1>1 DEF PlainStep
<1>6. plain' => Remembered'
  <2>1. \A u \in Pool : step[u] = "remember" <=> step'[u] = "remember"
    BY <1>1, <1>4 DEF Advance, StopSteps
  <2>2. QED
    BY <1>1, <2>1 DEF Remembered, ControlInv, PlainInv
<1>7. PauseEffect(t)
  BY <1>1 DEF PauseEffect
<1>8. QED
  BY <1>1, <1>3, <1>4, <1>5, <1>6, <1>7, MoverSuffices

\* The only thread in setSpeed, and not yet at its end: m_nSpeed is true.
LEMMA OnlyOne ==
  ASSUME ControlTypeOK, ControlInv, plain, NEW t \in Pool,
         step[t] \in SpeedSteps \ {"remember"}
  PROVE  m_nSpeed = devSpeed /\ m_nSpeed \in Nat /\ m_nSpeed > 0
<1>1. \A u \in Pool : step[u] # "remember"
  BY DEF ControlInv, PlainInv, OneSpeed, SpeedSteps
<1>2. QED
  BY <1>1, ControlAssumption DEF ControlInv, PlainInv, Remembered, ControlTypeOK

\* The comparison with the remembered speed keeps the invariant.
LEMMA CompareStep ==
  ASSUME ControlTypeOK, ControlInv, NEW t \in Pool, Control(t), setSpeed_compare(t)
  PROVE  ControlInv'
<1> USE DEF setSpeed_compare, sessionVars, recorderVars, localVars
<1>1. step[t] = "compare" /\ step'[t] \in {"normal"} \cup Counting
  BY DEF Move, Counting, ControlTypeOK
<1>2. Sort(ask[t]) = "speed" /\ speed[t] \in Nat /\ m_nSpeed \in Nat
  BY <1>1 DEF ControlInv, StepInv, SpeedSteps, ControlTypeOK
<1>3. /\ step'[t] = "normal" => speed[t] = Normal
      /\ step'[t] = "countFast" => speed[t] # Normal /\ speed[t] > m_nSpeed
      /\ step'[t] = "countSlow" => speed[t] # Normal /\ speed[t] <= m_nSpeed
  BY <1>2 DEF Move, ControlTypeOK
<1>4. ask[t].speed # NoDouble => speed[t] = ask[t].speed
  BY <1>1 DEF ControlInv, NormalInv, NormalOf
<1>5. NormalOf(t)' /\ PauseOf(t)' /\ step'[t] \notin Looping
  BY <1>1, <1>2, <1>3, <1>4 DEF NormalOf, PauseOf, Counting, Looping, Normal, NoDouble
<1>6. ASSUME plain' PROVE PlainOf(t)' /\ Remembered'
  <2>1. /\ plain /\ ask[t].speed = speed[t]
        /\ step'[t] = "normal" \/ speed[t] = 2 * m_nSpeed \/ m_nSpeed = 2 * speed[t]
    BY <1>4, <1>6 DEF Move, ControlTypeOK
  <2>2. m_nSpeed = devSpeed /\ m_nSpeed > 0
    BY <1>1, <2>1, OnlyOne DEF SpeedSteps
  <2>3. /\ step'[t] = "countFast" => speed[t] = 2 * m_nSpeed
        /\ step'[t] = "countSlow" => m_nSpeed = 2 * speed[t]
    BY <1>2, <1>3, <2>1, <2>2
  <2>4. PlainOf(t)'
    BY <1>1, <2>1, <2>3 DEF PlainOf, Counting, Looping
  <2>5. QED
    BY <2>2, <2>4 DEF Remembered
<1>7. Advance(t) /\ PlainStep(t) /\ PauseEffect(t)
  BY <1>1, ControlAdvances DEF PlainStep, PauseEffect, SpeedSteps
<1>8. QED
  BY <1>5, <1>6, <1>7, MoverSuffices

\* The count of the calls to make keeps the invariant.
LEMMA CountStep ==
  ASSUME ControlTypeOK, ControlInv, NEW t \in Pool, Control(t), setSpeed_count(t)
  PROVE  ControlInv'
<1> USE DEF sessionVars, recorderVars, historyVars
<1>1. step[t] \in Counting /\ step'[t] \in {"remember"} \cup Looping
  BY DEF setSpeed_count, Counting, Looping, ControlTypeOK
<1>2. Sort(ask[t]) = "speed" /\ speed[t] \in Nat /\ m_nSpeed \in Nat
  BY <1>1 DEF ControlInv, StepInv, SpeedSteps, ControlTypeOK
<1>3. ask[t].speed # Normal
  BY <1>1 DEF ControlInv, NormalInv, NormalOf
<1>4. /\ step[t] = "countFast" => tries'[t] = Iterations(speed[t], m_nSpeed) /\ step'[t] # "slow"
      /\ step[t] = "countSlow" => tries'[t] = Iterations(m_nSpeed, speed[t]) /\ step'[t] # "fast"
      /\ step'[t] = "remember" <=> tries'[t] = 0
  BY DEF setSpeed_count, ControlTypeOK
<1>5. UNCHANGED <<m_bPause, devPaused, m_nSpeed, devSpeed, plain, ask, speed, alone>>
      /\ \A u \in Pool \ {t} : tries'[u] = tries[u]
  BY DEF setSpeed_count, ControlTypeOK
<1>6. tries'[t] \in Nat
  BY <1>1, <1>2, <1>4, IterationsType DEF Counting
<1>7. NormalOf(t)' /\ PauseOf(t)' /\ (step'[t] \in Looping => tries'[t] > 0)
  BY <1>1, <1>2, <1>3, <1>4, <1>5, <1>6 DEF NormalOf, PauseOf, Counting, Looping
<1>8. ASSUME plain' PROVE PlainOf(t)' /\ Remembered'
  <2>1. plain /\ PlainOf(t)
    BY <1>5, <1>8 DEF ControlInv, PlainInv
  <2>2. m_nSpeed = devSpeed /\ m_nSpeed > 0
    BY <1>1, <2>1, OnlyOne DEF SpeedSteps, Counting
  <2>3. tries'[t] = 1
    <3>1. CASE step[t] = "countFast"
      <4>1. speed[t] = 2 * m_nSpeed
        BY <2>1, <3>1 DEF PlainOf
      <4>2. QED
        BY <1>2, <1>4, <2>2, <3>1, <4>1, OneIteration
    <3>2. CASE step[t] = "countSlow"
      <4>1. m_nSpeed = 2 * speed[t] /\ speed[t] > 0
        BY <1>2, <2>1, <2>2, <3>2 DEF PlainOf
      <4>2. QED
        BY <1>2, <1>4, <3>2, <4>1, OneIteration
    <3>3. QED
      BY <1>1, <3>1, <3>2 DEF Counting
  <2>4. step'[t] \in Looping
    BY <1>1, <1>4, <2>3
  <2>5. PlainOf(t)'
    BY <1>1, <1>4, <1>5, <2>1, <2>3, <2>4 DEF PlainOf, Counting, Looping
  <2>6. QED
    BY <1>5, <2>2, <2>5 DEF Remembered
<1>9. Advance(t) /\ PlainStep(t) /\ PauseEffect(t)
  BY <1>1, <1>5, ControlAdvances DEF PlainStep, PauseEffect, SpeedSteps
<1>10. QED
  BY <1>5, <1>7, <1>8, <1>9, MoverSuffices

\* The three calls the recorder takes, and a refused CLIENT_NormalPlayBack.
LEMMA SpeedCallStep ==
  ASSUME ControlTypeOK, ControlInv, NEW t \in Pool, Control(t),
         CLIENT_NormalPlayBack(t) \/ CLIENT_FastPlayBack(t) \/ CLIENT_SlowPlayBack(t)
  PROVE  ControlInv'
<1> USE DEF CLIENT_NormalPlayBack, CLIENT_FastPlayBack, CLIENT_SlowPlayBack, sessionVars,
            localVars, historyVars
<1>1. step[t] \in {"normal"} \cup Looping /\ step'[t] \in {"remember", "failed"}
  BY DEF Move, Looping, ControlTypeOK
<1>2. UNCHANGED <<m_bPause, devPaused, m_nSpeed, plain, ask, speed, tries, alone>>
  OBVIOUS
<1>3. Sort(ask[t]) = "speed" /\ speed[t] \in Nat /\ m_nSpeed \in Nat
  BY <1>1 DEF ControlInv, StepInv, SpeedSteps, ControlTypeOK
<1>4. step'[t] = "remember" =>
        /\ step[t] = "normal" => devSpeed' = Normal
        /\ step[t] = "fast" => devSpeed' = 2 * devSpeed
        /\ step[t] = "slow" => devSpeed' = devSpeed \div 2
  BY DEF Move, ControlTypeOK
<1>5. NormalOf(t)' /\ PauseOf(t)' /\ step'[t] \notin Looping
  BY <1>1, <1>2, <1>3, <1>4 DEF ControlInv, NormalInv, NormalOf, PauseOf, Counting, Looping
<1>6. ASSUME plain' PROVE PlainOf(t)' /\ Remembered'
  <2>1. plain /\ PlainOf(t)
    BY <1>2, <1>6 DEF ControlInv, PlainInv
  <2>2. m_nSpeed = devSpeed
    BY <1>1, <2>1, OnlyOne DEF SpeedSteps, Looping
  <2>3. step'[t] = "remember" => devSpeed' = speed[t]
    <3>1. step[t] = "normal" => speed[t] = Normal
      BY DEF ControlInv, NormalInv, NormalOf
    <3>2. step[t] = "fast" => 2 * devSpeed = speed[t]
      BY <2>1, <2>2 DEF PlainOf
    <3>3. step[t] = "slow" => devSpeed \div 2 = speed[t]
      BY <1>3, <2>1, <2>2 DEF PlainOf
    <3>4. QED
      BY <1>1, <1>4, <3>1, <3>2, <3>3 DEF Looping
  <2>4. PlainOf(t)'
    BY <1>1, <1>2, <2>1, <2>3 DEF PlainOf, Counting, Looping
  <2>5. step'[t] # "remember" => devSpeed' = devSpeed
    BY DEF Move, ControlTypeOK
  <2>6. Remembered'
    BY <1>2, <2>2, <2>5 DEF Remembered
  <2>7. QED
    BY <2>4, <2>6
<1>7. Advance(t) /\ PlainStep(t) /\ PauseEffect(t)
  BY <1>1, <1>2, ControlAdvances DEF PlainStep, PauseEffect, SpeedSteps
<1>8. QED
  BY <1>2, <1>5, <1>6, <1>7, MoverSuffices

\* A call the SDK refuses keeps the invariant.
LEMMA RefusedStep ==
  ASSUME ControlTypeOK, ControlInv, NEW t \in Pool, Control(t), NEW dir \in Looping, NEW next \in Nat,
         setSpeed_refused(t, dir, next)
  PROVE  ControlInv'
<1> USE DEF setSpeed_refused, sessionVars, recorderVars, historyVars
<1>1. step[t] = dir /\ step'[t] \in {dir, "failed"} /\ (step'[t] = dir => tries[t] > 1)
  <2>1. step'[t] = IF tries[t] > 1 THEN dir ELSE "failed"
    BY DEF ControlTypeOK
  <2>2. dir # "failed"
    BY DEF Looping
  <2>3. QED
    BY <2>1, <2>2
<1>2. /\ UNCHANGED <<m_bPause, devPaused, m_nSpeed, devSpeed, plain, ask, alone>>
      /\ tries[t] \in Nat /\ tries'[t] = tries[t] - 1
      /\ \A u \in Pool \ {t} : speed'[u] = speed[u] /\ tries'[u] = tries[u]
  BY DEF ControlTypeOK
<1>3. Sort(ask[t]) = "speed" /\ ask[t].speed # Normal
  BY <1>1 DEF ControlInv, StepInv, NormalInv, NormalOf, SpeedSteps
<1>4. NormalOf(t)' /\ PauseOf(t)' /\ (step'[t] \in Looping => tries'[t] > 0)
  BY <1>1, <1>2, <1>3 DEF NormalOf, PauseOf, Counting, Looping
<1>5. ASSUME plain' PROVE PlainOf(t)' /\ Remembered'
  <2>1. plain /\ PlainOf(t)
    BY <1>2, <1>5 DEF ControlInv, PlainInv
  <2>2. step'[t] = "failed"
    BY <1>1, <1>2, <2>1 DEF PlainOf
  <2>3. m_nSpeed = devSpeed
    BY <1>1, <2>1, OnlyOne DEF SpeedSteps, Looping
  <2>4. QED
    BY <1>2, <2>2, <2>3 DEF PlainOf, Remembered, Counting, Looping
<1>6. Advance(t) /\ PlainStep(t) /\ PauseEffect(t)
  BY <1>1, <1>2, ControlAdvances DEF PlainStep, PauseEffect, SpeedSteps
<1>7. QED
  BY <1>2, <1>4, <1>5, <1>6, MoverSuffices

\* Remembering the new speed keeps the invariant.
LEMMA RememberStep ==
  ASSUME ControlTypeOK, ControlInv, NEW t \in Pool, Control(t), setSpeed_remember(t)
  PROVE  ControlInv'
<1> USE DEF setSpeed_remember, recorderVars, localVars
<1>1. step[t] = "remember" /\ step'[t] = "ok"
  BY DEF Move, ControlTypeOK
<1>2. /\ UNCHANGED <<m_bPause, devPaused, devSpeed, ask, speed, tries, alone>>
      /\ m_nSpeed' = speed[t] /\ speed[t] \in Nat
  BY DEF ControlTypeOK
<1>3. Sort(ask[t]) = "speed"
  BY <1>1 DEF ControlInv, StepInv, SpeedSteps
<1>4. NormalOf(t)' /\ PauseOf(t)' /\ step'[t] \notin Looping
  BY <1>1, <1>2, <1>3 DEF NormalOf, PauseOf, Counting, Looping
<1>5. ask[t].speed = Normal => speed[t] = Normal /\ (alone[t] => devSpeed = Normal)
  BY <1>1 DEF ControlInv, NormalInv, NormalOf
<1>6. ASSUME plain' PROVE PlainOf(t)' /\ Remembered'
  <2>1. CASE plain
    <3>1. PlainOf(t)
      BY <2>1 DEF ControlInv, PlainInv
    <3>2. ask[t].speed = speed[t] /\ devSpeed = speed[t]
      BY <1>1, <3>1 DEF PlainOf
    <3>3. QED
      BY <1>1, <1>2, <3>2 DEF PlainOf, Remembered, Counting, Looping
  <2>2. CASE ~plain
    <3>1. ask[t].speed = Normal /\ alone[t]
      BY <1>6, <2>2
    <3>2. QED
      BY <1>1, <1>2, <1>5, <3>1 DEF PlainOf, Remembered, Counting, Looping
  <2>3. QED
    BY <2>1, <2>2
<1>7. Advance(t) /\ PlainStep(t) /\ PauseEffect(t)
  BY <1>1, <1>2, ControlAdvances DEF PlainStep, PauseEffect, SpeedSteps
<1>8. QED
  BY <1>2, <1>4, <1>6, <1>7, MoverSuffices

\* Every step of a control request keeps the invariant.
LEMMA ControlStep ==
  ASSUME ControlTypeOK, ControlInv, NEW t \in Pool, Control(t)
  PROVE  ControlInv'
<1>1. 2 * m_nSpeed \in Nat /\ (1 \div 2) * m_nSpeed \in Nat
  <2>1. 1 \div 2 = 0
    OBVIOUS
  <2>2. QED
    BY <2>1 DEF ControlTypeOK
<1>2. "fast" \in Looping /\ "slow" \in Looping
  BY DEF Looping
<1>3. QED
  BY <1>1, <1>2, PauseStep, StopStep, CompareStep, CountStep, SpeedCallStep, RefusedStep,
     RememberStep DEF Control, setSpeed_loop

(***************************************************************************)
(* A request begins: those it is against are not alone any more.           *)
(***************************************************************************)
LEMMA EntryStepKeeps ==
  ASSUME ControlTypeOK, ControlInv, NEW t \in Pool, NEW a \in Asks, control(t, a)
  PROVE  ControlInv'
<1> USE DEF sessionVars, recorderVars
<1>1. a \in Controls
  BY ControlAssumption
<1>2. /\ step[t] = "idle" /\ ask'[t] = a
      /\ \A u \in Pool \ {t} : step'[u] = step[u] /\ ask'[u] = ask[u] /\ speed'[u] = speed[u]
                               /\ tries'[u] = tries[u]
      /\ UNCHANGED <<m_bPause, devPaused, m_nSpeed, devSpeed, tries>>
  BY DEF control, Move, pars_record_speed, ControlTypeOK
<1>3. /\ step'[t] \in {"assign", "compare", "stopCall", "failed"}
      /\ step'[t] = "assign" => Sort(a) = "pause"
      /\ step'[t] = "compare" => Sort(a) = "speed"
      /\ step'[t] = "stopCall" => Sort(a) = "stop"
  <2>1. step'[t] = IF listed THEN EntryStep(a) ELSE "failed"
    BY DEF control, Move, ControlTypeOK
  <2>2. QED
    BY <1>1, <2>1, AskType
<1>4. StepInv'
  BY <1>2, <1>3 DEF ControlInv, StepInv, PauseSteps, SpeedSteps, StopSteps, Counting, Looping
<1>5. \A u \in Pool \ {t} : alone'[u] => alone[u] /\ u \notin Rivals(t, a)
  BY DEF control, ControlTypeOK
<1>6. \A u \in Pool \ {t} :
        Sort(a) = Sort(ask[u]) /\ step[u] # "idle" /\ u \notin Rivals(t, a)
          => Sort(a) = "pause" /\ ask[u].kind = a.kind
  BY DEF Rivals, Against
<1>7. \A u \in Pool \ {t} :
        Sort(a) = Sort(ask[u]) /\ step[u] \notin Finished /\ ~Met(t, a)
          => Sort(a) = "pause" /\ ask[u].kind = a.kind
  BY <1>6 DEF Met, Finished
<1>8. ASSUME NEW u \in Pool \ {t}
      PROVE  /\ step[u] \in PauseSteps => Sort(ask[u]) = "pause" /\ step[u] \notin Finished
             /\ step[u] \in SpeedSteps => Sort(ask[u]) = "speed" /\ step[u] \notin Finished
  BY DEF ControlInv, StepInv, PauseSteps, SpeedSteps, Counting, Looping, Finished
<1>9. AloneInv'
  <2>1. SUFFICES ASSUME NEW v \in Pool, alone'[v], step'[v] # "idle", NEW u \in Pool \ {v}
                 PROVE  /\ Sort(ask'[v]) = "pause" /\ step'[u] \in PauseSteps => ask'[u].kind = ask'[v].kind
                        /\ Sort(ask'[v]) = "speed" => step'[u] \notin SpeedSteps
    BY DEF AloneInv, AloneOf
  <2>2. CASE v = t
    <3>1. ~Met(t, a)
      BY <2>1, <2>2 DEF control, ControlTypeOK
    <3>2. QED
      BY <1>2, <1>7, <1>8, <2>2, <3>1
  <2>3. CASE v # t
    <3>1. alone[v] /\ v \notin Rivals(t, a) /\ step[v] # "idle" /\ ask'[v] = ask[v]
      BY <1>2, <1>5, <2>1, <2>3
    <3>2. Sort(a) = Sort(ask[v]) => Sort(a) = "pause" /\ ask[v].kind = a.kind
      BY <1>6, <2>3, <3>1
    <3>3. CASE u = t
      BY <1>2, <1>3, <3>1, <3>2, <3>3 DEF PauseSteps, SpeedSteps, Counting, Looping
    <3>4. CASE u # t
      BY <1>2, <2>1, <3>1, <3>4 DEF ControlInv, AloneInv, AloneOf
    <3>5. QED
      BY <3>3, <3>4
  <2>4. QED
    BY <2>2, <2>3
<1>10. PauseInv'
  <2>1. PauseOf(t)'
    BY <1>3 DEF PauseOf
  <2>2. ASSUME NEW u \in Pool \ {t} PROVE PauseOf(u)'
    BY <1>2, <1>5 DEF ControlInv, PauseInv, PauseOf
  <2>3. QED
    BY <2>1, <2>2 DEF PauseInv
<1>11. NormalInv' /\ LoopInv'
  <2>1. ask'[t].speed # NoDouble /\ step'[t] = "compare" => speed'[t] = ask'[t].speed
    <3>1. step'[t] = "compare" => a.kind = "speed"
      BY <1>1, <1>3, AskType
    <3>2. QED
      BY <1>2, <3>1 DEF control, pars_record_speed, ControlTypeOK
  <2>2. NormalOf(t)' /\ step'[t] \notin Looping
    BY <1>3, <2>1 DEF NormalOf, Counting, Looping
  <2>3. ASSUME NEW u \in Pool \ {t} PROVE NormalOf(u)'
    BY <1>2, <1>5 DEF ControlInv, NormalInv, NormalOf
  <2>4. QED
    BY <1>2, <2>2, <2>3 DEF ControlInv, NormalInv, LoopInv
<1>12. ASSUME plain' PROVE OneSpeed' /\ Remembered' /\ \A u \in Pool : PlainOf(u)'
  <2>1. plain /\ ~(a.kind = "speed" /\ Met(t, a))
    BY <1>12 DEF control
  <2>2. step'[t] \in SpeedSteps => ~Met(t, a) /\ Sort(a) = "speed"
    BY <1>1, <1>3, <2>1, AskType DEF SpeedSteps, Counting, Looping
  <2>3. OneSpeed'
    <3>1. \A u \in Pool \ {t} : step'[t] \in SpeedSteps => step'[u] \notin SpeedSteps
      BY <1>2, <1>7, <1>8, <2>2
    <3>2. \A u, v \in Pool \ {t} : step'[u] \in SpeedSteps /\ step'[v] \in SpeedSteps => u = v
      BY <1>2, <2>1 DEF ControlInv, PlainInv, OneSpeed
    <3>3. QED
      BY <3>1, <3>2 DEF OneSpeed
  <2>4. Remembered'
    <3>1. \A u \in Pool : step[u] = "remember" <=> step'[u] = "remember"
      BY <1>2, <1>3
    <3>2. QED
      BY <1>2, <2>1, <3>1 DEF ControlInv, PlainInv, Remembered
  <2>5. PlainOf(t)'
    BY <1>3 DEF PlainOf, Counting, Looping
  <2>6. ASSUME NEW u \in Pool \ {t} PROVE PlainOf(u)'
    <3>1. PlainOf(u)
      BY <2>1 DEF ControlInv, PlainInv
    <3>2. QED
      BY <1>2, <1>5, <3>1 DEF PlainOf
  <2>7. QED
    BY <2>3, <2>4, <2>5, <2>6
<1>13. QED
  BY <1>4, <1>9, <1>10, <1>11, <1>12 DEF ControlInv, PlainInv

\* The steps of everything else leave the session alone.
LEMMA ControlFrame ==
  ASSUME ControlTypeOK, ControlInv, UNCHANGED controlVars
  PROVE  ControlTypeOK' /\ ControlInv'
<1> USE DEF controlVars, sessionVars, recorderVars, localVars, historyVars, ControlInv
<1>1. ControlTypeOK'
  BY DEF ControlTypeOK
<1>2. StepInv' /\ LoopInv'
  BY DEF StepInv, LoopInv
<1>3. AloneInv'
  BY DEF AloneInv, AloneOf
<1>4. PauseInv'
  BY DEF PauseInv, PauseOf
<1>5. NormalInv'
  BY DEF NormalInv, NormalOf
<1>6. PlainInv'
  BY DEF PlainInv, OneSpeed, Remembered, PlainOf
<1>7. QED
  BY <1>1, <1>2, <1>3, <1>4, <1>5, <1>6

\* The invariant gives AnsweredAsAsked.
LEMMA InvAnswers == ControlTypeOK /\ ControlInv => AnsweredAsAsked
<1>1. SUFFICES ASSUME ControlTypeOK, ControlInv, NEW t \in Pool, step[t] = "ok", alone[t],
                      ask[t].kind = "speed" => plain
               PROVE  Does(ask[t])
  BY DEF AnsweredAsAsked
<1>2. Sort(ask[t]) = "speed" <=> ask[t].kind = "speed"
  BY <1>1, AskType DEF ControlTypeOK
<1>3. Sort(ask[t]) = "pause" => {devPaused, m_bPause} = {ask[t].kind = "pause"}
  <2>1. SUFFICES ASSUME Sort(ask[t]) = "pause" PROVE {devPaused, m_bPause} = {ask[t].kind = "pause"}
    OBVIOUS
  <2>2. (devPaused <=> ask[t].kind = "pause") /\ (m_bPause <=> ask[t].kind = "pause")
    BY <1>1, <2>1 DEF ControlInv, PauseInv, PauseOf
  <2>3. devPaused = (ask[t].kind = "pause") /\ m_bPause = (ask[t].kind = "pause")
    BY <1>1, <2>2 DEF ControlTypeOK
  <2>4. QED
    BY <2>3
<1>4. Sort(ask[t]) = "speed" => devSpeed = ask[t].speed
  BY <1>1, <1>2 DEF ControlInv, PlainInv, PlainOf
<1>5. QED
  BY <1>3, <1>4 DEF Does
-----------------------------------------------------------------------------
(***************************************************************************)
(* The msgIds, built by any number of threads.                             *)
(***************************************************************************)
\* A string that is not empty belongs to a build that has appended to it.
TextInv == msg_id_b # <<>> => \E t \in Builders : build[t] \in {"take", "reset"}

\* A build that no other one has met is the only one.
LoneInv == \A t, u \in Builders : build[t] # "none" /\ build[u] # "none" /\ undisturbed[t] => t = u

\* No number of an undisturbed msgId comes again, not even from a thread that
\* has read msg_id and has not written it yet.
SpentInv ==
  \A j \in DOMAIN ids : ids[j].undisturbed =>
    /\ ids[j].id \in Seq(Nat) /\ Len(ids[j].id) = 1
    /\ ids[j].id[1] <= msg_id
    /\ \A t \in Builders : build[t] = "store" => ids[j].id[1] <= loaded[t]

\* The number an undisturbed build is about to append, or has, is a new one.
Fresh == \A j \in DOMAIN ids : ids[j].undisturbed => ids[j].id[1] < msg_id

\* An undisturbed builder's id is newer than all taken ones.
FreshInv ==
  \A t \in Builders : undisturbed[t] =>
    /\ build[t] = "store" => loaded[t] = msg_id
    /\ build[t] \in {"store", "append"} => msg_id_b = <<>>
    /\ build[t] = "append" => Fresh
    /\ build[t] = "take" => msg_id_b = <<msg_id>> /\ Fresh

\* The inductive invariant of MessageIds.
IdsInv == TextInv /\ LoneInv /\ SpentInv /\ FreshInv /\ UndisturbedIdsGrow
-----------------------------------------------------------------------------
\* The initial states have the types and the invariant.
LEMMA IdsInitially == IdsInit => IdsTypeOK /\ IdsInv
<1>1. SUFFICES ASSUME IdsInit PROVE IdsTypeOK /\ IdsInv
  OBVIOUS
<1>2. IdsTypeOK
  BY <1>1, IdsAssumption DEF IdsInit, IdsTypeOK, Text, BuildSteps
<1>3. IdsInv
  BY <1>1 DEF IdsInit, IdsInv, TextInv, LoneInv, SpentInv, FreshInv, UndisturbedIdsGrow
<1>4. QED
  BY <1>2, <1>3

\* Building an id keeps the types.
LEMMA IdsTypeStep ==
  ASSUME IdsTypeOK, NEW t \in Builders, msg_id_load(t) \/ Build(t)
  PROVE  IdsTypeOK'
<1>1. CASE msg_id_load(t)
  BY <1>1 DEF IdsTypeOK, msg_id_load, Proceed, BuildSteps, Building
<1>2. CASE msg_id_store(t)
  BY <1>2 DEF IdsTypeOK, msg_id_store, Proceed, BuildSteps
<1>3. CASE msg_id_append(t)
  <2>1. msg_id_b' \in Text
    <3>1. msg_id_b # Garbled => msg_id_b \in Seq(Nat) /\ Append(msg_id_b, msg_id) \in Seq(Nat)
      BY AppendProperties DEF IdsTypeOK, Text
    <3>2. QED
      BY <1>3, <3>1 DEF msg_id_append, Text
  <2>2. QED
    BY <1>3, <2>1 DEF IdsTypeOK, msg_id_append, Proceed, BuildSteps
<1>4. CASE msg_id_take(t)
  <2>1. PICK copy \in {msg_id_b, Garbled} :
          ids' = Append(ids, [id |-> copy, undisturbed |-> undisturbed[t]])
    BY <1>4 DEF msg_id_take
  <2>2. ids' \in Seq([id : Text, undisturbed : BOOLEAN])
    BY <2>1 DEF IdsTypeOK, Text
  <2>3. QED
    BY <1>4, <2>2 DEF IdsTypeOK, msg_id_take, Proceed, BuildSteps
<1>5. CASE msg_id_reset(t)
  BY <1>5 DEF IdsTypeOK, msg_id_reset, Proceed, BuildSteps, Text
<1>6. QED
  BY <1>1, <1>2, <1>3, <1>4, <1>5 DEF Build
-----------------------------------------------------------------------------
(***************************************************************************)
(* One lemma per step of a build.                                          *)
(***************************************************************************)
LEMMA LoadStep ==
  ASSUME IdsTypeOK, IdsInv, NEW t \in Builders, msg_id_load(t)
  PROVE  IdsInv'
<1> USE DEF IdsTypeOK, IdsInv, msg_id_load, Proceed, Building
<1>1. \A u \in Builders \ {t} : build'[u] = build[u] /\ loaded'[u] = loaded[u]
  OBVIOUS
<1>2. \A u \in Builders \ {t} : undisturbed'[u] => undisturbed[u] /\ build[u] = "none"
  OBVIOUS
<1>3. undisturbed'[t] => \A u \in Builders : build[u] = "none"
  OBVIOUS
<1>4. TextInv' /\ LoneInv'
  BY <1>1, <1>2, <1>3 DEF TextInv, LoneInv
<1>5. SpentInv'
  BY <1>1 DEF SpentInv
<1>6. FreshInv'
  BY <1>1, <1>2, <1>3 DEF FreshInv, TextInv
<1>7. QED
  BY <1>4, <1>5, <1>6 DEF UndisturbedIdsGrow

\* Storing the counter keeps the invariant: the number read is still the newest.
LEMMA StoreStep ==
  ASSUME IdsTypeOK, IdsInv, NEW t \in Builders, msg_id_store(t)
  PROVE  IdsInv'
<1> USE DEF IdsTypeOK, IdsInv, msg_id_store, Proceed
<1>1. \A u \in Builders \ {t} : build'[u] = build[u]
  OBVIOUS
<1>2. TextInv' /\ LoneInv'
  BY <1>1 DEF TextInv, LoneInv
<1>3. SpentInv'
  BY <1>1 DEF SpentInv
<1>4. build[t] = "store" /\ build'[t] = "append"
  OBVIOUS
<1>5. undisturbed[t] => Fresh'
  <2>1. SUFFICES ASSUME NEW j \in DOMAIN ids, ids[j].undisturbed PROVE ids[j].id[1] < msg_id'
    BY DEF Fresh
  <2>2. ids[j].id \in Seq(Nat) /\ Len(ids[j].id) = 1 /\ ids[j].id[1] <= loaded[t]
    BY <1>4, <2>1 DEF SpentInv
  <2>3. ids[j].id[1] \in Nat /\ loaded[t] \in Nat
    BY <2>2
  <2>4. QED
    BY <2>2, <2>3
<1>6. undisturbed[t] => msg_id_b' = <<>>
  BY <1>4 DEF FreshInv
<1>7. \A u \in Builders \ {t} : undisturbed[u] => build'[u] = "none"
  BY <1>1, <1>4 DEF LoneInv
<1>8. FreshInv'
  <2>1. SUFFICES ASSUME NEW u \in Builders, undisturbed[u]
                 PROVE  /\ build'[u] # "store" /\ build'[u] # "take"
                        /\ build'[u] = "append" => msg_id_b' = <<>> /\ Fresh'
    BY DEF FreshInv
  <2>2. CASE u = t
    BY <1>4, <1>5, <1>6, <2>1, <2>2
  <2>3. CASE u # t
    BY <1>7, <2>1, <2>3
  <2>4. QED
    BY <2>2, <2>3
<1>9. QED
  BY <1>2, <1>3, <1>8 DEF UndisturbedIdsGrow

\* Appending it to the static string keeps the invariant.
LEMMA AppendStep ==
  ASSUME IdsTypeOK, IdsInv, NEW t \in Builders, msg_id_append(t)
  PROVE  IdsInv'
<1> USE DEF IdsTypeOK, IdsInv, msg_id_append, Proceed
<1>1. \A u \in Builders \ {t} : build'[u] = build[u]
  OBVIOUS
<1>2. build[t] = "append" /\ build'[t] = "take"
  OBVIOUS
<1>3. TextInv' /\ LoneInv'
  BY <1>1, <1>2 DEF TextInv, LoneInv
<1>4. SpentInv'
  BY <1>1, <1>2 DEF SpentInv
<1>5. undisturbed[t] => msg_id_b' = <<msg_id>>
  <2>1. SUFFICES ASSUME undisturbed[t] PROVE msg_id_b' = <<msg_id>>
    OBVIOUS
  <2>2. msg_id_b = <<>> /\ ~Contended(t)
    BY <1>2, <2>1 DEF FreshInv, LoneInv, Contended, Building
  <2>3. msg_id_b # Garbled
    <3>1. <<>> \in Seq(Nat)
      OBVIOUS
    <3>2. <<>> # Garbled
      BY <3>1, IdsAssumption
    <3>3. QED
      BY <2>2, <3>2
  <2>4. msg_id_b' = Append(<<>>, msg_id)
    BY <2>2, <2>3
  <2>5. QED
    BY <2>4
<1>6. Fresh' <=> Fresh
  BY DEF Fresh
<1>7. \A u \in Builders \ {t} : undisturbed[u] => build[u] = "none"
  BY <1>2 DEF LoneInv
<1>8. FreshInv'
  BY <1>1, <1>2, <1>5, <1>6, <1>7 DEF FreshInv
<1>9. QED
  BY <1>3, <1>4, <1>8 DEF UndisturbedIdsGrow

\* Returning the string keeps the invariant.
LEMMA TakeStep ==
  ASSUME IdsTypeOK, IdsInv, NEW t \in Builders, msg_id_take(t)
  PROVE  IdsInv'
<1> USE DEF IdsTypeOK, IdsInv, msg_id_take, Proceed
<1>1. \A u \in Builders \ {t} : build'[u] = build[u]
  OBVIOUS
<1>2. build[t] = "take" /\ build'[t] = "reset"
  OBVIOUS
<1>3. TextInv' /\ LoneInv'
  BY <1>1, <1>2 DEF TextInv, LoneInv
<1> DEFINE n == Len(ids) + 1
<1>4. PICK copy \in {msg_id_b, Garbled} :
        /\ ids' = Append(ids, [id |-> copy, undisturbed |-> undisturbed[t]])
        /\ copy = msg_id_b \/ Contended(t)
  OBVIOUS
<1>4a. /\ DOMAIN ids' = DOMAIN ids \cup {n} /\ DOMAIN ids = 1 .. Len(ids)
       /\ \A j \in DOMAIN ids : ids'[j] = ids[j]
       /\ ids'[n].id = copy /\ ids'[n].undisturbed = undisturbed[t]
  BY <1>4
<1>5. undisturbed[t] => msg_id_b = <<msg_id>> /\ Fresh
  BY <1>2 DEF FreshInv
<1>6. undisturbed[t] => \A u \in Builders \ {t} : build[u] = "none"
  BY <1>2 DEF LoneInv
<1>6b. undisturbed[t] => copy = msg_id_b
  BY <1>4, <1>6 DEF Contended, Building
<1>6a. undisturbed[t] => /\ ids'[n].id = <<msg_id>> /\ ids'[n].id \in Seq(Nat)
                         /\ Len(ids'[n].id) = 1 /\ ids'[n].id[1] = msg_id
  <2>1. <<msg_id>> \in Seq(Nat) /\ Len(<<msg_id>>) = 1 /\ <<msg_id>>[1] = msg_id
    OBVIOUS
  <2>2. QED
    BY <1>4a, <1>5, <1>6b, <2>1
<1>7. SpentInv'
  <2>1. \A j \in DOMAIN ids : ids'[j].undisturbed =>
          /\ ids'[j].id \in Seq(Nat) /\ Len(ids'[j].id) = 1 /\ ids'[j].id[1] <= msg_id
          /\ \A u \in Builders : build[u] = "store" => ids'[j].id[1] <= loaded[u]
    BY <1>4a DEF SpentInv
  <2>2. undisturbed[t] => ids'[n].id[1] <= msg_id /\ \A u \in Builders : build[u] # "store"
    <3>1. undisturbed[t] => \A u \in Builders : build[u] # "store"
      BY <1>2, <1>6
    <3>2. undisturbed[t] => ids'[n].id[1] <= msg_id
      BY <1>6a
    <3>3. QED
      BY <3>1, <3>2
  <2>3. \A u \in Builders : build'[u] = "store" => build[u] = "store"
    BY <1>1, <1>2
  <2>4. QED
    BY <1>4a, <1>6a, <2>1, <2>2, <2>3 DEF SpentInv
<1>8. FreshInv'
  <2>1. \A u \in Builders \ {t} : undisturbed[u] => build[u] = "none"
    BY <1>2 DEF LoneInv
  <2>2. QED
    BY <1>1, <1>2, <2>1 DEF FreshInv
<1>9. UndisturbedIdsGrow'
  <2>1. SUFFICES ASSUME NEW j \in DOMAIN ids', ids'[j].undisturbed
                 PROVE  /\ ids'[j].id \in Seq(Nat) /\ Len(ids'[j].id) = 1
                        /\ \A i \in 1 .. j - 1 : ids'[i].undisturbed => ids'[i].id[1] < ids'[j].id[1]
    BY DEF UndisturbedIdsGrow
  <2>2. CASE j = n
    <3>1. 1 .. j - 1 = DOMAIN ids
      BY <1>4a, <2>2
    <3>2. \A i \in DOMAIN ids : ids'[i].undisturbed => ids'[i].id[1] < msg_id
      BY <1>4a, <1>5, <2>1, <2>2 DEF Fresh
    <3>3. QED
      BY <1>4a, <1>6a, <2>1, <2>2, <3>1, <3>2
  <2>3. CASE j \in DOMAIN ids
    <3>1. \A i \in 1 .. j - 1 : i \in DOMAIN ids
      BY <1>4a, <2>3
    <3>2. QED
      BY <1>4a, <2>1, <2>3, <3>1 DEF UndisturbedIdsGrow
  <2>4. QED
    BY <1>4a, <2>1, <2>2, <2>3
<1>10. QED
  BY <1>3, <1>7, <1>8, <1>9

\* Clearing the string keeps the invariant.
LEMMA ResetStep ==
  ASSUME IdsTypeOK, IdsInv, NEW t \in Builders, msg_id_reset(t)
  PROVE  IdsInv'
<1> USE DEF IdsTypeOK, IdsInv, msg_id_reset, Proceed
<1>1. \A u \in Builders \ {t} : build'[u] = build[u] /\ loaded'[u] = loaded[u]
  OBVIOUS
<1>2. build[t] = "reset" /\ build'[t] = "none"
  OBVIOUS
<1>3. TextInv' /\ LoneInv'
  BY <1>1, <1>2 DEF TextInv, LoneInv
<1>4. SpentInv'
  BY <1>1, <1>2 DEF SpentInv
<1>5. \A u \in Builders \ {t} : undisturbed[u] => build[u] = "none"
  BY <1>2 DEF LoneInv
<1>6. FreshInv'
  BY <1>1, <1>2, <1>5 DEF FreshInv
<1>7. QED
  BY <1>3, <1>4, <1>6 DEF UndisturbedIdsGrow

\* Every step of a builder keeps the invariant.
LEMMA IdsStep ==
  ASSUME IdsTypeOK, IdsInv, NEW t \in Builders, msg_id_load(t) \/ Build(t)
  PROVE  IdsInv'
BY LoadStep, StoreStep, AppendStep, TakeStep, ResetStep DEF Build

\* The steps of everything else leave the strings alone.
LEMMA IdsFrame ==
  ASSUME IdsTypeOK, IdsInv, UNCHANGED idVars
  PROVE  IdsTypeOK' /\ IdsInv'
<1> USE DEF idVars
<1>1. IdsTypeOK'
  BY DEF IdsTypeOK
<1>2. TextInv' /\ LoneInv'
  BY DEF IdsInv, TextInv, LoneInv
<1>3. SpentInv' /\ UndisturbedIdsGrow'
  BY DEF IdsInv, SpentInv, UndisturbedIdsGrow
<1>4. FreshInv'
  BY DEF IdsInv, FreshInv, Fresh
<1>5. QED
  BY <1>1, <1>2, <1>3, <1>4 DEF IdsInv
-----------------------------------------------------------------------------
(***************************************************************************)
(* The threads that do both.                                               *)
(***************************************************************************)
LEMMA Threads == Pool \subseteq Builders /\ Main \in Builders /\ Main \notin Pool
BY PoolAssumption

\* Every step of the composition keeps its types.
LEMMA TypeStep ==
  ASSUME TypeOK, LoopInv, [Next]_vars
  PROVE  TypeOK'
<1> USE PoolAssumption DEF TypeOK, counters
<1>1. ASSUME NEW t \in Pool, device_record(t) PROVE TypeOK'
  <2>1. PICK a \in Asks : control(t, a)
    BY <1>1 DEF device_record
  <2>2. ControlTypeOK'
    BY <2>1, EntryType
  <2>3. IdsTypeOK'
    BY <1>1 DEF device_record, idVars, IdsTypeOK
  <2>4. \A u \in Pool : step'[u] = "idle" \/ build'[u] = "none"
    BY <1>1, <2>1 DEF device_record, arrives, idVars, control, Move, ControlTypeOK
  <2>5. QED
    BY <1>1, <2>2, <2>3, <2>4 DEF device_record, arrives
<1>2. ASSUME NEW t \in Pool, device_add(t) PROVE TypeOK'
  <2>1. ControlTypeOK' /\ step' = step
    BY <1>2 DEF device_add, controlVars, sessionVars, recorderVars, localVars, historyVars, ControlTypeOK
  <2>2. IdsTypeOK'
    BY <1>2, IdsTypeStep, Threads DEF device_add
  <2>3. \A u \in Pool \ {t} : build'[u] = build[u]
    BY <1>2, Threads DEF device_add, msg_id_load, Proceed, IdsTypeOK
  <2>4. QED
    BY <1>2, <2>1, <2>2, <2>3 DEF device_add, arrives
<1>3. ASSUME start_server_report PROVE TypeOK'
  <2>1. ControlTypeOK' /\ step' = step
    BY <1>3 DEF start_server_report, controlVars, sessionVars, recorderVars, localVars, historyVars,
       ControlTypeOK
  <2>2. IdsTypeOK'
    BY <1>3, IdsTypeStep, Threads DEF start_server_report
  <2>3. \A u \in Pool : build'[u] = build[u]
    BY <1>3, Threads DEF start_server_report, msg_id_load, Proceed, IdsTypeOK
  <2>4. QED
    BY <1>3, <2>1, <2>2, <2>3 DEF start_server_report
<1>4. ASSUME NEW t \in Pool, Control(t), UNCHANGED <<idVars, counters>> PROVE TypeOK'
  <2>1. ControlTypeOK'
    BY <1>4, ControlType
  <2>2. IdsTypeOK' /\ build' = build
    BY <1>4 DEF idVars, IdsTypeOK
  <2>3. step[t] # "idle" /\ \A u \in Pool \ {t} : step'[u] = step[u]
    BY <1>4, ControlAdvances DEF Advance
  <2>4. QED
    BY <1>4, <2>1, <2>2, <2>3
<1>5. ASSUME NEW t \in Builders, Build(t), UNCHANGED <<controlVars, counters>> PROVE TypeOK'
  <2>1. ControlTypeOK' /\ step' = step
    BY <1>5 DEF controlVars, sessionVars, recorderVars, localVars, historyVars, ControlTypeOK
  <2>2. IdsTypeOK'
    BY <1>5, IdsTypeStep
  <2>3. build[t] # "none" /\ \A u \in Builders \ {t} : build'[u] = build[u]
    BY <1>5 DEF Build, msg_id_store, msg_id_append, msg_id_take, msg_id_reset, Proceed, IdsTypeOK
  <2>4. QED
    BY <1>5, <2>1, <2>2, <2>3, Threads
<1>6. CASE UNCHANGED vars
  BY <1>6 DEF vars, controlVars, sessionVars, recorderVars, localVars, historyVars, idVars,
     ControlTypeOK, IdsTypeOK
<1>7. QED
  BY <1>1, <1>2, <1>3, <1>4, <1>5, <1>6 DEF Next

\* What the two halves of the state keep.
RequestInv == ControlInv /\ IdsInv

\* Every step of the composition keeps both invariants.
LEMMA RequestStep ==
  ASSUME TypeOK, RequestInv, [Next]_vars
  PROVE  RequestInv'
<1> USE DEF TypeOK, RequestInv
<1>1. ASSUME NEW t \in Pool, device_record(t) PROVE RequestInv'
  BY <1>1, EntryStepKeeps, IdsFrame DEF device_record
<1>2. ASSUME NEW t \in Pool, device_add(t) PROVE RequestInv'
  BY <1>2, ControlFrame, IdsStep, Threads DEF device_add
<1>3. ASSUME start_server_report PROVE RequestInv'
  BY <1>3, ControlFrame, IdsStep, Threads DEF start_server_report
<1>4. ASSUME NEW t \in Pool, Control(t), UNCHANGED <<idVars, counters>> PROVE RequestInv'
  BY <1>4, ControlStep, IdsFrame
<1>5. ASSUME NEW t \in Builders, Build(t), UNCHANGED <<controlVars, counters>> PROVE RequestInv'
  BY <1>5, ControlFrame, IdsStep
<1>6. CASE UNCHANGED vars
  BY <1>6, ControlFrame, IdsFrame DEF vars
<1>7. QED
  BY <1>1, <1>2, <1>3, <1>4, <1>5, <1>6 DEF Next

\* The initial states have types and invariants.
LEMMA Initially == Init => TypeOK /\ RequestInv
<1>1. SUFFICES ASSUME Init PROVE TypeOK /\ RequestInv
  OBVIOUS
<1>2. ControlTypeOK /\ ControlInv /\ IdsTypeOK /\ IdsInv
  BY <1>1, ControlInitially, IdsInitially DEF Init
<1>3. requests \in 0 .. MaxReqs /\ reported \in 0 .. Saved
  BY <1>1, PoolAssumption DEF Init
<1>4. \A t \in Pool : step[t] = "idle"
  BY <1>1 DEF Init, ControlInit
<1>5. QED
  BY <1>2, <1>3, <1>4 DEF TypeOK, RequestInv

\* Types and invariants hold always.
LEMMA Inductive == Spec => [](TypeOK /\ RequestInv)
<1>1. TypeOK /\ RequestInv /\ [Next]_vars => (TypeOK /\ RequestInv)'
  <2>1. RequestInv => LoopInv
    BY DEF RequestInv, ControlInv
  <2>2. QED
    BY <2>1, TypeStep, RequestStep
<1>2. QED
  BY <1>1, Initially, PTL DEF Spec
-----------------------------------------------------------------------------
(***************************************************************************)
(* The variables of the session, the recorder, the requests and the        *)
(* strings keep their types.                                               *)
(***************************************************************************)
THEOREM TypeCorrect == Spec => []TypeOK
BY Inductive, PTL

(***************************************************************************)
(* In every history of requests, refusals and stops on any number of       *)
(* threads: a pause or resume that succeeded, and that neither its opposite*)
(* nor another one's refusal met, has left recorder and session as it was  *)
(* asked for; so has a speed request that met no other one, unless since   *)
(* the last lone return to the normal speed the speed was changed by       *)
(* another factor than 2, by two handlers at once or by a value that is no *)
(* double ("plain").                                                       *)
(***************************************************************************)
THEOREM AnswersCorrect == Spec => []AnsweredAsAsked
<1>1. TypeOK /\ RequestInv => AnsweredAsAsked
  BY InvAnswers DEF TypeOK, RequestInv
<1>2. QED
  BY <1>1, Inductive, PTL

(***************************************************************************)
(* A message whose build no other one met has one number for its msgId, a  *)
(* larger one than all such messages before it.                            *)
(***************************************************************************)
THEOREM IdsCorrect == Spec => []UndisturbedIdsGrow
<1>1. TypeOK /\ RequestInv => UndisturbedIdsGrow
  BY DEF RequestInv, IdsInv
<1>2. QED
  BY <1>1, Inductive, PTL
-----------------------------------------------------------------------------
\* A file that is dropped has no second in the range; one that is kept shows its seconds in the range.
LEMMA ClippedSeconds ==
  ASSUME NEW file \in Intervals, NEW range \in Intervals
  PROVE  /\ Drops(file, range) => Seconds(file) \cap Seconds(range) = {}
         /\ ~Drops(file, range) => Seconds(Clip(file, range)) = Seconds(file) \cap Seconds(range)
<1>1. /\ file.startTime \in Nat /\ file.endTime \in Nat
      /\ range.startTime \in Nat /\ range.endTime \in Nat
  BY DEF Intervals, Times
<1>2. Drops(file, range) <=> file.startTime > range.endTime
  BY <1>1 DEF Drops, CompareTime
<1>3. Drops(file, range) => Seconds(file) \cap Seconds(range) = {}
  BY <1>1, <1>2 DEF Seconds
<1>4. /\ Clip(file, range).startTime =
           IF file.startTime < range.startTime THEN range.startTime ELSE file.startTime
      /\ Clip(file, range).endTime =
           IF file.endTime < range.endTime THEN file.endTime ELSE range.endTime
  BY <1>1 DEF Clip, CompareTime
<1>5. Seconds(Clip(file, range)) = Seconds(file) \cap Seconds(range)
  BY <1>1, <1>4 DEF Seconds
<1>6. QED
  BY <1>3, <1>5

(***************************************************************************)
(* Whatever files the recorder finds and whatever range is asked for, the  *)
(* answer has exactly the recorded seconds of the range.                   *)
(***************************************************************************)
THEOREM RecordsAreExact ==
  ASSUME NEW found \in SUBSET Intervals, NEW range \in Intervals
  PROVE  RecordsExact(found, range)
<1> DEFINE kept == {f \in found : ~Drops(f, range)}
<1>1. AllSeconds(query_records(found, range)) = UNION {Seconds(Clip(f, range)) : f \in kept}
  BY DEF AllSeconds, query_records
<1>2. ASSUME NEW f \in found
      PROVE  /\ Drops(f, range) => Seconds(f) \cap Seconds(range) = {}
             /\ ~Drops(f, range) => Seconds(Clip(f, range)) = Seconds(f) \cap Seconds(range)
  BY ClippedSeconds
<1>3. ASSUME NEW s
      PROVE  (\E f \in kept : s \in Seconds(Clip(f, range)))
               <=> (\E f \in found : s \in Seconds(f)) /\ s \in Seconds(range)
  BY <1>2
<1>4. QED
  BY <1>1, <1>3 DEF RecordsExact, AllSeconds

(***************************************************************************)
(* Hence the clipping is right for every query of the instance.            *)
(***************************************************************************)
THEOREM RecordsCorrect == Spec => []RecordsClipped
<1>1. RecordsClipped
  <2>1. LastSecond \in Nat
    BY PoolAssumption
  <2>2. [startTime : 0 .. LastSecond, endTime : 0 .. LastSecond] \subseteq Intervals
    BY <2>1 DEF Intervals, Times
  <2>3. QED
    BY <2>2, RecordsAreExact DEF RecordsClipped
<1>2. QED
  BY <1>1, PTL
=============================================================================
