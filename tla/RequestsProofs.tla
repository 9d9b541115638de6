--------------------------- MODULE RequestsProofs ---------------------------
(***************************************************************************)
(* Proofs about the request handlers for any number of threads, requests,  *)
(* devices and recorders: the type invariant, that the gateway logs in to  *)
(* a recorder once, that an answer has its data from the recorder of the   *)
(* device it is about, that a camera list nobody disturbed is complete and *)
(* within its buffers, and that each step is a step of RequestDesk.        *)
(***************************************************************************)
EXTENDS Requests, TLAPS

\* A thread that is not idle has a request that was taken, and no other
\* thread has the same one.
JobInv ==
  /\ \A w \in Workers : pc[w] # "idle" => job[w] \in Reqs /\ asked[job[w]] # None
  /\ \A v, w \in Workers : v # w /\ pc[v] # "idle" /\ pc[w] # "idle" => job[v] # job[w]
  /\ \A r \in Reqs : asked[r] = None => answers[r] = <<>> /\ r \notin found

\* What a thread's step says about its request.
StepOf(w) ==
  /\ pc[w] = "lookup" => answers[job[w]] = <<>> /\ job[w] \notin found
  /\ pc[w] \in {"login", "sdkLogin"} => job[w] \in found
  /\ pc[w] \in {"size", "fetch", "fill"} => Kind(w) = "sync"
  /\ pc[w] = "fill" => Results[w].handle # Uninit
  /\ pc[w] = "remember" => Kind(w) \in PtzCmds \ {"goto"} /\ cmd[w] \in Motions
  /\ pc[w] = "status" => Kind(w) = "add"
StepInv == \A w \in Workers : StepOf(w)

\* Who talks to a recorder holds the lock, and the recorder has no login yet.
LockInv ==
  \A w \in Workers : pc[w] = "sdkLogin" => loginLock = w /\ Equipment_map[CacheKey(Dev(w))] = 0

\* Every login is in the cache under its recorder.
CacheInv ==
  /\ \A k \in Keys : Equipment_map[k] # 0 =>
       Equipment_map[k] \in DOMAIN sessions /\ sessions[Equipment_map[k]] = k
  /\ \A i \in DOMAIN sessions : Equipment_map[sessions[i]] = i

\* What Login left of a device that was found is its recorder's login, or 0.
HandleOf(w) ==
  pc[w] \in {"call", "size", "fetch", "fill"} /\ job[w] \in found =>
    /\ Results[w].handle # Uninit
    /\ Results[w].handle # 0 => /\ Results[w].handle \in DOMAIN sessions
                                /\ sessions[Results[w].handle] = KeyOf[Dev(w)]
HandleInv == \A w \in Workers : HandleOf(w)

\* What a step of thread w may touch: w's own place and request; logins stay.
OnlyJobOf(w) ==
  /\ pc[w] # "idle"
  /\ (\E step \in Steps \ {"idle"} : goto(w, step)) \/ Leave(w)
  /\ asked' = asked
  /\ found \subseteq found' /\ found' \subseteq found \cup {job[w]}
  /\ \A r \in Reqs : r # job[w] => answers'[r] = answers[r]
  /\ \A v \in Workers \ {w} : Results'[v] = Results[v] /\ cmd'[v] = cmd[v]
  /\ \A i \in DOMAIN sessions : i \in DOMAIN sessions' /\ sessions'[i] = sessions[i]
-----------------------------------------------------------------------------
(***************************************************************************)
(* Facts about one request, one message, one move of a thread.             *)
(***************************************************************************)
LEMMA JobType ==
  ASSUME TypeOK, JobInv, NEW w \in Workers, pc[w] # "idle"
  PROVE  /\ job[w] \in Reqs /\ asked[job[w]] \in Asks
         /\ Kind(w) \in Kinds /\ Dev(w) \in Devs
         /\ KeyOf[Dev(w)] \in Keys /\ Chans[KeyOf[Dev(w)]] \in Nat
<1>1. job[w] \in Reqs /\ asked[job[w]] # None
  BY DEF JobInv
<1>2. asked[job[w]] \in Asks
  BY <1>1 DEF TypeOK
<1>3. asked[job[w]] \in [kind : Kinds, dev : Devs]
  BY <1>2, RequestsAssumption
<1>4. asked[job[w]].kind \in Kinds /\ asked[job[w]].dev \in Devs
  BY <1>3
<1>5. QED
  BY <1>1, <1>2, <1>4, RequestsAssumption DEF Kind, Dev

\* Answers without a camera list have their type.
LEMMA MessageType ==
  ASSUME NEW what \in {"reply", "accept", "status"}, NEW code \in {0, 1}, NEW from \in Nat
  PROVE  Message(what, code, from) \in Answers
  BY DEF Message, Answers

\* Answers with a camera list have their type.
LEMMA CameraListType ==
  ASSUME TypeOK, NEW w \in Workers, NEW total \in Nat, NEW num \in Nat,
         NEW from \in Nat, NEW over \in BOOLEAN
  PROVE  CameraList(total, num, from, w, over) \in Answers
  BY DEF TypeOK, CameraList, Answers

\* Sending keeps the type of the answers.
LEMMA SendType ==
  ASSUME TypeOK, NEW w \in Workers, NEW msg \in Answers, send_business_queueEx(w, msg)
  PROVE  answers' \in [Reqs -> Seq(Answers)]
<1>1. ASSUME NEW r \in Reqs PROVE Append(answers[r], msg) \in Seq(Answers)
  BY DEF TypeOK
<1>2. QED
  BY <1>1 DEF TypeOK, send_business_queueEx

\* Leaving a handler keeps the types of the workers' places.
LEMMA LeaveType ==
  ASSUME TypeOK, NEW w \in Workers, Leave(w)
  PROVE  /\ pc' \in [Workers -> Steps]
         /\ job' \in [Workers -> Reqs \cup {None}]
         /\ Results' \in [Workers -> [handle : Nat \cup {Uninit}, chan : Nat \cup {Uninit}]]
  BY DEF TypeOK, Leave, Steps, Unset

\* A step within a handler keeps them.
LEMMA GotoType ==
  ASSUME TypeOK, NEW w \in Workers, NEW step \in Steps, goto(w, step)
  PROVE  pc' \in [Workers -> Steps] /\ job' = job
  BY DEF TypeOK, goto

\* The handles of a worker's device are handles.
LEMMA SessionsType ==
  ASSUME TypeOK, NEW w \in Workers
  PROVE  Sessions(w) \subseteq Nat \ {0}
<1>1. Results[w].handle \in Nat \cup {Uninit} /\ Len(sessions) \in Nat
  BY DEF TypeOK
<1>2. QED
  BY <1>1 DEF Sessions, UsedHandles

\* What a successful login hands over.
LEMMA AcceptType ==
  ASSUME TypeOK, NEW w \in Workers, NEW n \in Nat, Accept(w, n)
  PROVE  answers' \in [Reqs -> Seq(Answers)]
<1>1. CASE Kind(w) = "add"
  <2>1. DeviceAdd(1, 0, n) \in Answers
    BY MessageType DEF DeviceAdd
  <2>2. QED
    BY <1>1, <2>1, SendType DEF Accept
<1>2. CASE Kind(w) # "add"
  BY <1>2 DEF Accept, TypeOK
<1>3. QED
  BY <1>1, <1>2
-----------------------------------------------------------------------------
(***************************************************************************)
(* The type invariant.                                                     *)
(***************************************************************************)
LEMMA TypeStep == TypeOK /\ JobInv /\ StepInv /\ [Next]_vars => TypeOK'
<1> SUFFICES ASSUME TypeOK, JobInv, StepInv, [Next]_vars PROVE TypeOK'
  OBVIOUS
<1>1. ASSUME NEW w \in Workers, NEW r \in Reqs, NEW ask \in Asks, handle_msg(w, r, ask)
      PROVE  TypeOK'
  <2>1. EntryStep(ask.kind) \in Steps
    BY DEF EntryStep, Steps
  <2>2. QED
    BY <1>1, <2>1 DEF TypeOK, handle_msg, sdkVars, syncVars, ptzVars
<1>2. ASSUME NEW w \in Workers, get_platform(w) PROVE TypeOK'
  <2>1. pc[w] # "idle"
    BY <1>2 DEF get_platform, At
  <2>2. found' \subseteq Reqs
    BY <1>2, <2>1, JobType DEF get_platform, TypeOK
  <2>3. pc' \in [Workers -> Steps] /\ job' = job
    BY <1>2, GotoType DEF get_platform, Steps
  <2>4. QED
    BY <1>2, <2>2, <2>3 DEF TypeOK, get_platform, sdkVars, syncVars, ptzVars
<1>3. ASSUME NEW w \in Workers, Login_lookup(w) PROVE TypeOK'
  <2> DEFINE n == Equipment_map[CacheKey(Dev(w))]
  <2>1. pc[w] # "idle" /\ AfterLogin(w) \in Steps
    BY <1>3 DEF Login_lookup, At, AfterLogin, Steps
  <2>2. n \in Nat
    BY <2>1, JobType DEF TypeOK, CacheKey
  <2>3. CASE n # 0
    <3>1. /\ Results' = [Results EXCEPT ![w] = [handle |-> n, chan |-> Chans[KeyOf[Dev(w)]]]]
          /\ Accept(w, n) /\ goto(w, AfterLogin(w)) /\ loginLock' = loginLock
      BY <1>3, <2>3 DEF Login_lookup
    <3>2. answers' \in [Reqs -> Seq(Answers)]
      BY <2>2, <3>1, AcceptType
    <3>3. pc' \in [Workers -> Steps] /\ job' = job
      BY <2>1, <3>1, GotoType
    <3>4. Results' \in [Workers -> [handle : Nat \cup {Uninit}, chan : Nat \cup {Uninit}]]
      BY <2>1, <2>2, <3>1, JobType DEF TypeOK
    <3>5. QED
      BY <1>3, <3>1, <3>2, <3>3, <3>4 DEF TypeOK, Login_lookup, syncVars, ptzVars
  <2>4. CASE n = 0
    <3>1. /\ loginLock' = w /\ goto(w, "sdkLogin")
          /\ Results' = Results /\ answers' = answers
      BY <1>3, <2>4 DEF Login_lookup
    <3>2. pc' \in [Workers -> Steps] /\ job' = job
      BY <3>1, GotoType DEF Steps
    <3>3. QED
      BY <1>3, <3>1, <3>2 DEF TypeOK, Login_lookup, syncVars, ptzVars
  <2>5. QED
    BY <2>3, <2>4
<1>4. ASSUME NEW w \in Workers, Login_success(w) PROVE TypeOK'
  <2> DEFINE n == Len(sessions) + 1
  <2>1. pc[w] # "idle" /\ AfterLogin(w) \in Steps /\ n \in Nat
    BY <1>4 DEF Login_success, At, AfterLogin, Steps, TypeOK
  <2>2. KeyOf[Dev(w)] \in Keys /\ Chans[KeyOf[Dev(w)]] \in Nat
    BY <2>1, JobType
  <2>3. answers' \in [Reqs -> Seq(Answers)]
    BY <1>4, <2>1, AcceptType DEF Login_success
  <2>4. pc' \in [Workers -> Steps] /\ job' = job
    BY <1>4, <2>1, GotoType DEF Login_success
  <2>5. Results' \in [Workers -> [handle : Nat \cup {Uninit}, chan : Nat \cup {Uninit}]]
    BY <1>4, <2>1, <2>2 DEF Login_success, TypeOK
  <2>6. sessions' \in Seq(Keys) /\ Equipment_map' \in [Keys -> Nat]
    BY <1>4, <2>1, <2>2 DEF Login_success, TypeOK, CacheKey
  <2>7. QED
    BY <1>4, <2>3, <2>4, <2>5, <2>6 DEF TypeOK, Login_success, syncVars, ptzVars
<1>5. ASSUME NEW w \in Workers, Login_failure(w) PROVE TypeOK'
  <2>1. CASE Kind(w) = "add"
    <3>1. send_business_queueEx(w, DeviceAdd(1, 1, 0)) /\ Leave(w)
      BY <1>5, <2>1 DEF Login_failure
    <3>2. DeviceAdd(1, 1, 0) \in Answers
      BY MessageType DEF DeviceAdd
    <3>3. answers' \in [Reqs -> Seq(Answers)]
      BY <3>1, <3>2, SendType
    <3>4. QED
      BY <1>5, <3>1, <3>3, LeaveType DEF TypeOK, Login_failure, syncVars, ptzVars
  <2>2. CASE Kind(w) # "add"
    <3>1. /\ SetHandle(w, 0)
          /\ goto(w, "call") /\ answers' = answers
      BY <1>5, <2>2 DEF Login_failure
    <3>2. pc' \in [Workers -> Steps] /\ job' = job
      BY <3>1, GotoType DEF Steps
    <3>3. QED
      BY <1>5, <3>1, <3>2 DEF TypeOK, SetHandle, Login_failure, syncVars, ptzVars
  <2>3. QED
    BY <2>1, <2>2
<1>6. ASSUME NEW w \in Workers, Login_throws(w) PROVE TypeOK'
  <2>1. Leave(w)
    BY <1>6 DEF Login_throws
  <2>2. QED
    BY <1>6, <2>1, LeaveType DEF TypeOK, Login_throws, syncVars, ptzVars
<1>7. ASSUME NEW w \in Workers, device_add_report(w) PROVE TypeOK'
  <2>1. DeviceAdd(2, 0, 0) \in Answers
    BY MessageType DEF DeviceAdd
  <2>2. answers' \in [Reqs -> Seq(Answers)]
    BY <1>7, <2>1, SendType DEF device_add_report
  <2>3. pc' \in [Workers -> Steps] /\ job' = job
    BY <1>7, GotoType DEF device_add_report, Steps
  <2>4. QED
    BY <1>7, <2>2, <2>3 DEF TypeOK, device_add_report, sdkVars, syncVars, ptzVars
<1>8. ASSUME NEW w \in Workers, add_platform(w) PROVE TypeOK'
  <2>1. Dev(w) \in Devs /\ Leave(w)
    BY <1>8, JobType DEF add_platform, At
  <2>2. QED
    BY <1>8, <2>1, LeaveType DEF TypeOK, add_platform, sdkVars, syncVars, ptzVars
<1>9. ASSUME NEW w \in Workers, response(w) \/ device_add_noIp(w) PROVE TypeOK'
  <2>1. Response(0, 0) \in Answers
    BY MessageType DEF Response
  <2>2. answers' \in [Reqs -> Seq(Answers)]
    BY <1>9, <2>1, SendType DEF response, device_add_noIp, TypeOK
  <2>3. Leave(w)
    BY <1>9 DEF response, device_add_noIp
  <2>4. QED
    BY <1>9, <2>2, <2>3, LeaveType
       DEF TypeOK, response, device_add_noIp, sdkVars, syncVars, ptzVars
<1>10. ASSUME NEW w \in Workers, channel_ptz_preset(w) \/ channel_record_info(w) PROVE TypeOK'
  <2>1. PICK o \in {<<0, n>> : n \in Sessions(w)} \cup {<<1, 0>>, <<0, 0>>} :
          send_business_queueEx(w, Response(o[1], o[2]))
    BY <1>10 DEF channel_ptz_preset, channel_record_info, query_ptz_preset, query_record_file
  <2>2. o[1] \in {0, 1} /\ o[2] \in Nat
    BY <2>1, SessionsType
  <2>3. Response(o[1], o[2]) \in Answers
    BY <2>2, MessageType DEF Response
  <2>4. answers' \in [Reqs -> Seq(Answers)]
    BY <2>1, <2>3, SendType
  <2>5. Leave(w)
    BY <1>10 DEF channel_ptz_preset, channel_record_info
  <2>6. QED
    BY <1>10, <2>4, <2>5, LeaveType
       DEF TypeOK, channel_ptz_preset, channel_record_info, sdkVars, syncVars, ptzVars
<1>11. ASSUME NEW w \in Workers, get_camera_list_begin(w) PROVE TypeOK'
  <2>1. UsedChan(w) \subseteq Int
    <3>1. Results[w].chan \in Nat \cup {Uninit}
      BY DEF TypeOK
    <3>2. Garbage \subseteq Int
      BY RequestsAssumption
    <3>3. ASSUME NEW c \in UsedChan(w) PROVE c \in Int
      <4>1. CASE Results[w].chan = Uninit
        BY <3>2, <4>1 DEF UsedChan
      <4>2. CASE Results[w].chan # Uninit
        <5>1. c = Results[w].chan
          BY <4>2 DEF UsedChan
        <5>2. QED
          BY <3>1, <4>2, <5>1
      <4>3. QED
        BY <4>1, <4>2
    <3>4. QED
      BY <3>3
  <2>2. pc' \in [Workers -> Steps] /\ job' = job
    BY <1>11, GotoType DEF get_camera_list_begin, Steps
  <2>3. m_nChanNum' \in Int /\ alone' \in [Workers -> BOOLEAN]
    BY <1>11, <2>1 DEF get_camera_list_begin
  <2>4. QED
    BY <1>11, <2>2, <2>3 DEF TypeOK, get_camera_list_begin, sdkVars, ptzVars
<1>12. ASSUME NEW w \in Workers, get_camera_list_size(w) PROVE TypeOK'
  <2>0. m_nChanNum \in Int
    BY DEF TypeOK
  <2>1. CASE m_nChanNum < 0
    <3>0. m_nChanNum # 0 /\ ~(m_nChanNum > 0)
      BY <2>0, <2>1
    <3>1. Leave(w) /\ answers' = answers /\ list' = list
      BY <1>12, <3>0 DEF get_camera_list_size
    <3>2. QED
      BY <1>12, <3>1, LeaveType DEF TypeOK, get_camera_list_size, sdkVars, ptzVars
  <2>2. CASE m_nChanNum = 0
    <3>0. ~(m_nChanNum < 0) /\ ~(m_nChanNum > 0)
      BY <2>2
    <3>1. CameraList(0, 0, 0, w, FALSE) \in Answers
      BY CameraListType
    <3>2. send_business_queueEx(w, CameraList(0, 0, 0, w, FALSE)) /\ Leave(w) /\ list' = list
      BY <1>12, <3>0 DEF get_camera_list_size
    <3>3. answers' \in [Reqs -> Seq(Answers)]
      BY <3>1, <3>2, SendType
    <3>4. QED
      BY <1>12, <3>2, <3>3, LeaveType DEF TypeOK, get_camera_list_size, sdkVars, ptzVars
  <2>3. CASE m_nChanNum > 0
    <3>0. m_nChanNum # 0 /\ ~(m_nChanNum < 0) /\ m_nChanNum \in Nat
      BY <2>0, <2>3
    <3>1. /\ list' = [list EXCEPT ![w] = m_nChanNum] /\ goto(w, "fetch")
          /\ answers' = answers /\ Results' = Results
      BY <1>12, <3>0 DEF get_camera_list_size
    <3>2. pc' \in [Workers -> Steps] /\ job' = job
      BY <3>1, GotoType DEF Steps
    <3>3. QED
      BY <1>12, <3>0, <3>1, <3>2 DEF TypeOK, get_camera_list_size, sdkVars, ptzVars
  <2>4. QED
    BY <2>0, <2>1, <2>2, <2>3
<1>13. ASSUME NEW w \in Workers, get_camera_list_fetch(w) PROVE TypeOK'
  <2>1. CASE \E n \in Sessions(w) : /\ SetHandle(w, n)
                                    /\ goto(w, "fill")
                                    /\ answers' = answers /\ list' = list
    <3>1. PICK n \in Sessions(w) : SetHandle(w, n)
      BY <2>1
    <3>2. n \in Nat
      BY <3>1, SessionsType
    <3>3. pc' \in [Workers -> Steps] /\ job' = job
      BY <2>1, GotoType DEF Steps
    <3>4. QED
      BY <1>13, <2>1, <3>1, <3>2, <3>3 DEF TypeOK, SetHandle, get_camera_list_fetch, sdkVars, ptzVars
  <2>2. CASE /\ send_business_queueEx(w, CameraList(list[w], 0, 0, w, FALSE))
             /\ list' = [list EXCEPT ![w] = 0]
             /\ Leave(w)
    <3>1. CameraList(list[w], 0, 0, w, FALSE) \in Answers
      BY CameraListType DEF TypeOK
    <3>2. answers' \in [Reqs -> Seq(Answers)]
      BY <2>2, <3>1, SendType
    <3>3. QED
      BY <1>13, <2>2, <3>2, LeaveType DEF TypeOK, get_camera_list_fetch, sdkVars, ptzVars
  <2>3. QED
    BY <1>13, <2>1, <2>2 DEF get_camera_list_fetch
<1>14. ASSUME NEW w \in Workers, get_camera_list_fill(w) PROVE TypeOK'
  <2> DEFINE over == m_nChanNum > list[w]
             num == IF m_nChanNum < 0 THEN 0 ELSE IF over THEN list[w] ELSE m_nChanNum
  <2>1. list[w] \in Nat /\ num \in Nat /\ over \in BOOLEAN
    BY DEF TypeOK
  <2>2. Results[w].handle \in Nat
    BY <1>14 DEF get_camera_list_fill, At, StepInv, StepOf, TypeOK
  <2>3. CameraList(list[w], num, Results[w].handle, w, over) \in Answers
    BY <2>1, <2>2, CameraListType
  <2>4. send_business_queueEx(w, CameraList(list[w], num, Results[w].handle, w, over))
    BY <1>14 DEF get_camera_list_fill
  <2>5. answers' \in [Reqs -> Seq(Answers)]
    BY <2>3, <2>4, SendType
  <2>6. Leave(w) /\ list' = [list EXCEPT ![w] = 0]
    BY <1>14 DEF get_camera_list_fill
  <2>7. QED
    BY <1>14, <2>5, <2>6, LeaveType DEF TypeOK, get_camera_list_fill, sdkVars, ptzVars
<1>15. ASSUME NEW w \in Workers, ptz_control_preset(w) PROVE TypeOK'
  <2>1. \A n \in Sessions(w) : Response(0, n) \in Answers
    BY SessionsType, MessageType DEF Response
  <2>2. Response(1, 0) \in Answers
    BY MessageType DEF Response
  <2>3. answers' \in [Reqs -> Seq(Answers)]
    BY <1>15, <2>1, <2>2, SendType DEF ptz_control_preset
  <2>4. Leave(w)
    BY <1>15 DEF ptz_control_preset
  <2>5. QED
    BY <1>15, <2>3, <2>4, LeaveType DEF TypeOK, ptz_control_preset, sdkVars, syncVars, ptzVars
<1>16. ASSUME NEW w \in Workers, NEW n \in Sessions(w), CLIENT_DHPTZControlEx2(w, n)
       PROVE  TypeOK'
  <2>1. PtzCommand(w) \in Motions
    BY <1>16 DEF CLIENT_DHPTZControlEx2, PtzCommand, PtzCmds, Motions, Stops, TypeOK
  <2>2. moving' \in [Keys -> SUBSET Motions]
    BY <1>16, <2>1 DEF CLIENT_DHPTZControlEx2, TypeOK
  <2>3. cmd' \in [Workers -> Motions \cup {None}]
    BY <1>16, <2>1 DEF CLIENT_DHPTZControlEx2, TypeOK
  <2>4. pc' \in [Workers -> Steps] /\ job' = job
    BY <1>16, GotoType DEF CLIENT_DHPTZControlEx2, Steps
  <2>5. QED
    BY <1>16, <2>2, <2>3, <2>4 DEF TypeOK, CLIENT_DHPTZControlEx2, sdkVars, syncVars
<1>17. ASSUME NEW w \in Workers, ptz_control_fails(w) PROVE TypeOK'
  <2>1. PtzCommand(w) \in Motions
    BY <1>17 DEF ptz_control_fails, PtzCommand, PtzCmds, Motions, Stops, TypeOK
  <2>2. pc' \in [Workers -> Steps] /\ job' = job
    BY <1>17, GotoType DEF ptz_control_fails, Steps
  <2>3. QED
    BY <1>17, <2>1, <2>2 DEF TypeOK, ptz_control_fails, sdkVars, syncVars
<1>18. ASSUME NEW w \in Workers, ptz_control_remember(w) PROVE TypeOK'
  <2>1. Response(0, 0) \in Answers
    BY MessageType DEF Response
  <2>2. send_business_queueEx(w, Response(0, 0)) /\ Leave(w)
    BY <1>18 DEF ptz_control_remember
  <2>3. answers' \in [Reqs -> Seq(Answers)]
    BY <2>1, <2>2, SendType
  <2>4. cmd[w] \in Motions
    BY <1>18 DEF ptz_control_remember, At, StepInv, StepOf
  <2>5. QED
    BY <1>18, <2>2, <2>3, <2>4, LeaveType DEF TypeOK, ptz_control_remember, sdkVars, syncVars
<1>19. CASE UNCHANGED vars
  BY <1>19 DEF TypeOK, vars, sdkVars, syncVars, ptzVars
<1>20. QED
  BY <1>1, <1>2, <1>3, <1>4, <1>5, <1>6, <1>7, <1>8, <1>9, <1>10, <1>11, <1>12, <1>13, <1>14,
     <1>15, <1>16, <1>17, <1>18, <1>19 DEF Next, Handler
-----------------------------------------------------------------------------
(***************************************************************************)
(* A step of one thread leaves the others, and their requests, alone.      *)
(***************************************************************************)
LEMMA HandlerTouchesItsJob ==
  ASSUME TypeOK, NEW w \in Workers, Handler(w)
  PROVE  OnlyJobOf(w)
<1>1. CASE get_platform(w)
  BY <1>1 DEF OnlyJobOf, get_platform, At, goto, Steps, sdkVars, ptzVars
<1>2. CASE Login_lookup(w)
  <2>1. AfterLogin(w) \in Steps \ {"idle"} /\ "sdkLogin" \in Steps \ {"idle"}
    BY DEF AfterLogin, Steps
  <2>2. \E step \in Steps \ {"idle"} : goto(w, step)
    BY <1>2, <2>1 DEF Login_lookup
  <2>3. \A r \in Reqs : r # job[w] => answers'[r] = answers[r]
    BY <1>2 DEF Login_lookup, Accept, send_business_queueEx, TypeOK
  <2>4. \A v \in Workers \ {w} : Results'[v] = Results[v]
    BY <1>2 DEF Login_lookup, TypeOK
  <2>5. QED
    BY <1>2, <2>2, <2>3, <2>4 DEF OnlyJobOf, Login_lookup, At, ptzVars
<1>3. CASE Login_success(w)
  <2>1. AfterLogin(w) \in Steps \ {"idle"}
    BY DEF AfterLogin, Steps
  <2>2. \E step \in Steps \ {"idle"} : goto(w, step)
    BY <1>3, <2>1 DEF Login_success
  <2>3. \A r \in Reqs : r # job[w] => answers'[r] = answers[r]
    BY <1>3 DEF Login_success, Accept, send_business_queueEx, TypeOK
  <2>4. \A v \in Workers \ {w} : Results'[v] = Results[v]
    BY <1>3 DEF Login_success, TypeOK
  <2>5. \A i \in DOMAIN sessions : i \in DOMAIN sessions' /\ sessions'[i] = sessions[i]
    <3>1. sessions' = Append(sessions, KeyOf[Dev(w)]) /\ sessions \in Seq(Keys)
      BY <1>3 DEF Login_success, TypeOK
    <3>2. QED
      BY <3>1
  <2>6. QED
    BY <1>3, <2>2, <2>3, <2>4, <2>5 DEF OnlyJobOf, Login_success, At, ptzVars
<1>4. CASE Login_failure(w)
  <2>1. \A r \in Reqs : r # job[w] => answers'[r] = answers[r]
    BY <1>4 DEF Login_failure, send_business_queueEx, TypeOK
  <2>2. \A v \in Workers \ {w} : Results'[v] = Results[v]
    BY <1>4 DEF Login_failure, SetHandle, Leave, TypeOK
  <2>3. Leave(w) \/ goto(w, "call")
    BY <1>4 DEF Login_failure
  <2>4. QED
    BY <1>4, <2>1, <2>2, <2>3 DEF OnlyJobOf, Login_failure, At, Steps, ptzVars
<1>5. CASE Login_throws(w) \/ add_platform(w) \/ device_add_noIp(w)
  BY <1>5 DEF OnlyJobOf, Login_throws, add_platform, device_add_noIp, At, Leave, TypeOK,
              sdkVars, ptzVars
<1>6. CASE device_add_report(w)
  BY <1>6 DEF OnlyJobOf, device_add_report, At, Steps, send_business_queueEx, TypeOK,
              sdkVars, ptzVars
<1>7. CASE \/ response(w) \/ channel_ptz_preset(w) \/ channel_record_info(w)
           \/ ptz_control_preset(w)
  <2>1. \A r \in Reqs : r # job[w] => answers'[r] = answers[r]
    BY <1>7 DEF response, channel_ptz_preset, channel_record_info, ptz_control_preset,
                send_business_queueEx, TypeOK
  <2>2. Leave(w)
    BY <1>7 DEF response, channel_ptz_preset, channel_record_info, ptz_control_preset
  <2>3. QED
    BY <1>7, <2>1, <2>2
       DEF OnlyJobOf, response, channel_ptz_preset, channel_record_info, ptz_control_preset,
           At, Leave, TypeOK, sdkVars, ptzVars
<1>8. CASE get_camera_list_begin(w)
  BY <1>8 DEF OnlyJobOf, get_camera_list_begin, At, Steps, sdkVars, ptzVars
<1>9. CASE get_camera_list_size(w)
  <2>1. \A r \in Reqs : r # job[w] => answers'[r] = answers[r]
    BY <1>9 DEF get_camera_list_size, send_business_queueEx, TypeOK
  <2>2. Leave(w) \/ (goto(w, "fetch") /\ Results' = Results)
    BY <1>9 DEF get_camera_list_size
  <2>3. \A v \in Workers \ {w} : Results'[v] = Results[v]
    BY <2>2 DEF Leave, TypeOK
  <2>4. QED
    BY <1>9, <2>1, <2>2, <2>3 DEF OnlyJobOf, get_camera_list_size, At, Steps, sdkVars, ptzVars
<1>10. CASE get_camera_list_fetch(w)
  <2>1. \A r \in Reqs : r # job[w] => answers'[r] = answers[r]
    BY <1>10 DEF get_camera_list_fetch, send_business_queueEx, TypeOK
  <2>2. Leave(w) \/ (goto(w, "fill") /\ \E n \in Sessions(w) : SetHandle(w, n))
    BY <1>10 DEF get_camera_list_fetch
  <2>3. \A v \in Workers \ {w} : Results'[v] = Results[v]
    BY <2>2 DEF Leave, SetHandle, TypeOK
  <2>4. QED
    BY <1>10, <2>1, <2>2, <2>3 DEF OnlyJobOf, get_camera_list_fetch, At, Steps, sdkVars, ptzVars
<1>11. CASE get_camera_list_fill(w)
  BY <1>11 DEF OnlyJobOf, get_camera_list_fill, At, Leave, send_business_queueEx, TypeOK,
               sdkVars, ptzVars
<1>12. CASE (\E n \in Sessions(w) : CLIENT_DHPTZControlEx2(w, n)) \/ ptz_control_fails(w)
  BY <1>12 DEF OnlyJobOf, CLIENT_DHPTZControlEx2, ptz_control_fails, At, Steps, TypeOK, sdkVars
<1>13. CASE ptz_control_remember(w)
  BY <1>13 DEF OnlyJobOf, ptz_control_remember, At, Leave, send_business_queueEx, TypeOK, sdkVars
<1>14. QED
  BY <1>1, <1>2, <1>3, <1>4, <1>5, <1>6, <1>7, <1>8, <1>9, <1>10, <1>11, <1>12, <1>13 DEF Handler

\* A step of one worker leaves every request with at most one worker.
LEMMA JobsStayApart ==
  ASSUME TypeOK, JobInv, NEW w \in Workers, OnlyJobOf(w)
  PROVE  JobInv'
<1>1. job[w] \in Reqs /\ asked[job[w]] # None
  BY DEF JobInv, OnlyJobOf
<1>2. \A v \in Workers : pc'[v] # "idle" => pc[v] # "idle" /\ job'[v] = job[v]
  BY DEF OnlyJobOf, goto, Leave, TypeOK
<1>3. \A r \in Reqs : asked'[r] = None => answers'[r] = answers[r] /\ (r \in found' => r \in found)
  BY <1>1 DEF OnlyJobOf
<1>4. QED
  BY <1>2, <1>3 DEF JobInv, OnlyJobOf

\* A step of one worker leaves what the invariant says of the others.
LEMMA OthersStay ==
  ASSUME TypeOK, JobInv, StepInv, HandleInv, NEW w \in Workers, OnlyJobOf(w),
         NEW v \in Workers, v # w
  PROVE  StepOf(v)' /\ HandleOf(v)'
<1>1. pc'[v] = pc[v] /\ job'[v] = job[v] /\ Results'[v] = Results[v] /\ cmd'[v] = cmd[v]
  BY DEF OnlyJobOf, goto, Leave, TypeOK
<1>2. CASE pc[v] = "idle"
  BY <1>1, <1>2 DEF StepOf, HandleOf
<1>3. CASE pc[v] # "idle"
  <2>1. job[v] \in Reqs /\ job[v] # job[w]
    BY <1>3 DEF JobInv, OnlyJobOf
  <2>2. /\ answers'[job[v]] = answers[job[v]]
        /\ asked' = asked
        /\ job[v] \in found' <=> job[v] \in found
    BY <2>1 DEF OnlyJobOf
  <2>3. StepOf(v)'
    BY <1>1, <2>2 DEF StepInv, StepOf, Kind
  <2>4. HandleOf(v)'
    BY <1>1, <2>2 DEF HandleInv, HandleOf, Dev, OnlyJobOf
  <2>5. QED
    BY <2>3, <2>4
<1>4. QED
  BY <1>2, <1>3

\* A worker that leaves its handler has nothing left to show.
LEMMA LeaverIsDone ==
  ASSUME TypeOK, NEW w \in Workers, Leave(w)
  PROVE  StepOf(w)' /\ HandleOf(w)' /\ pc'[w] = "idle"
<1>1. pc'[w] = "idle"
  BY DEF Leave, TypeOK
<1>2. QED
  BY <1>1 DEF StepOf, HandleOf
-----------------------------------------------------------------------------
(***************************************************************************)
(* The thread that takes the step is where its request says.               *)
(***************************************************************************)
LEMMA PositionOfHandler ==
  ASSUME TypeOK, JobInv, StepInv, HandleInv, CacheInv, NEW w \in Workers, Handler(w)
  PROVE  StepOf(w)' /\ HandleOf(w)'
<1>0. pc[w] # "idle" /\ job[w] \in Reqs /\ StepOf(w) /\ HandleOf(w) /\ asked' = asked
  BY HandlerTouchesItsJob DEF OnlyJobOf, JobInv, StepInv, HandleInv
<1>1. CASE get_platform(w)
  <2>1. CASE Dev(w) \in platforms
    <3>1. pc'[w] = "login" /\ job' = job /\ found' = found \cup {job[w]}
      BY <1>1, <2>1 DEF get_platform, goto, TypeOK
    <3>2. QED
      BY <3>1 DEF StepOf, HandleOf
  <2>2. CASE Dev(w) \notin platforms
    <3>1. pc'[w] = "call" /\ job' = job /\ found' = found /\ job[w] \notin found
      BY <1>0, <1>1, <2>2 DEF get_platform, goto, TypeOK, StepOf, At
    <3>2. QED
      BY <3>1 DEF StepOf, HandleOf
  <2>3. QED
    BY <2>1, <2>2
<1>2. CASE Login_lookup(w)
  <2> DEFINE n == Equipment_map[CacheKey(Dev(w))]
  <2>1. KeyOf[Dev(w)] \in Keys /\ found' = found /\ sessions' = sessions /\ job[w] \in found
    BY <1>0, <1>2, JobType DEF Login_lookup, StepOf, At
  <2>2. CASE n # 0
    <3>1. /\ Results'[w] = [handle |-> n, chan |-> Chans[KeyOf[Dev(w)]]]
          /\ pc'[w] = AfterLogin(w) /\ job' = job
      BY <1>2, <2>2 DEF Login_lookup, goto, TypeOK
    <3>2. n \in DOMAIN sessions /\ sessions[n] = KeyOf[Dev(w)]
      BY <2>1, <2>2 DEF CacheInv, CacheKey
    <3>3. n # Uninit
      <4>1. n \in Int
        BY <2>1 DEF TypeOK, CacheKey
      <4>2. QED
        BY <4>1, RequestsAssumption
    <3>4. Results'[w].handle = n /\ Dev(w)' = Dev(w) /\ Kind(w)' = Kind(w)
      BY <1>0, <3>1 DEF Dev, Kind
    <3>5. StepOf(w)'
      BY <3>1, <3>4 DEF StepOf, AfterLogin
    <3>6. HandleOf(w)'
      BY <2>1, <3>2, <3>3, <3>4 DEF HandleOf
    <3>7. QED
      BY <3>5, <3>6
  <2>3. CASE n = 0
    <3>1. pc'[w] = "sdkLogin" /\ job' = job
      BY <1>2, <2>3 DEF Login_lookup, goto, TypeOK
    <3>2. QED
      BY <2>1, <3>1 DEF StepOf, HandleOf
  <2>4. QED
    BY <2>2, <2>3
<1>3. CASE Login_success(w)
  <2> DEFINE n == Len(sessions) + 1
  <2>1. KeyOf[Dev(w)] \in Keys /\ sessions \in Seq(Keys) /\ n \in Nat \ {0}
    BY <1>0, JobType DEF TypeOK
  <2>2. /\ Results'[w] = [handle |-> n, chan |-> Chans[KeyOf[Dev(w)]]]
        /\ pc'[w] = AfterLogin(w) /\ job' = job
    BY <1>3 DEF Login_success, goto, TypeOK
  <2>3. sessions' = Append(sessions, KeyOf[Dev(w)])
    BY <1>3 DEF Login_success
  <2>4. n \in DOMAIN sessions' /\ sessions'[n] = KeyOf[Dev(w)]
    BY <2>1, <2>3
  <2>5. n # Uninit
    BY <2>1, RequestsAssumption
  <2>6. Results'[w].handle = n /\ Dev(w)' = Dev(w) /\ Kind(w)' = Kind(w)
    BY <1>0, <2>2 DEF Dev, Kind
  <2>7. StepOf(w)'
    BY <2>2, <2>6 DEF StepOf, AfterLogin
  <2>8. HandleOf(w)'
    BY <2>4, <2>5, <2>6 DEF HandleOf
  <2>9. QED
    BY <2>7, <2>8
<1>4. CASE Login_failure(w)
  <2>1. CASE Kind(w) = "add"
    BY <1>4, <2>1, LeaverIsDone DEF Login_failure
  <2>2. CASE Kind(w) # "add"
    <3>1. pc'[w] = "call" /\ job' = job /\ Results'[w].handle = 0
      BY <1>4, <2>2 DEF Login_failure, SetHandle, goto, TypeOK
    <3>2. 0 # Uninit
      BY RequestsAssumption
    <3>3. QED
      BY <3>1, <3>2 DEF StepOf, HandleOf
  <2>3. QED
    BY <2>1, <2>2
<1>5. CASE \/ Login_throws(w) \/ add_platform(w) \/ device_add_noIp(w) \/ response(w)
           \/ channel_ptz_preset(w) \/ channel_record_info(w) \/ ptz_control_preset(w)
           \/ get_camera_list_fill(w) \/ ptz_control_remember(w)
  <2>1. Leave(w)
    BY <1>5 DEF Login_throws, add_platform, device_add_noIp, response, channel_ptz_preset,
                channel_record_info, ptz_control_preset, get_camera_list_fill,
                ptz_control_remember
  <2>2. QED
    BY <2>1, LeaverIsDone
<1>6. CASE device_add_report(w)
  <2>1. pc'[w] = "register"
    BY <1>6 DEF device_add_report, goto, TypeOK
  <2>2. QED
    BY <2>1 DEF StepOf, HandleOf
<1>7. CASE get_camera_list_begin(w)
  <2>1. /\ pc'[w] = "size" /\ job' = job /\ Results' = Results /\ found' = found
        /\ sessions' = sessions /\ Kind(w) = "sync" /\ pc[w] = "call"
    BY <1>7 DEF get_camera_list_begin, At, goto, TypeOK, sdkVars
  <2>2. QED
    BY <1>0, <2>1 DEF StepOf, HandleOf, Kind, Dev
<1>8. CASE get_camera_list_size(w)
  <2>1. CASE Leave(w)
    BY <2>1, LeaverIsDone
  <2>2. CASE ~Leave(w)
    <3>1. /\ pc'[w] = "fetch" /\ job' = job /\ Results' = Results /\ found' = found
          /\ sessions' = sessions /\ pc[w] = "size"
      BY <1>8, <2>2 DEF get_camera_list_size, At, goto, TypeOK, sdkVars
    <3>2. QED
      BY <1>0, <3>1 DEF StepOf, HandleOf, Kind, Dev
  <2>3. QED
    BY <2>1, <2>2
<1>9. CASE get_camera_list_fetch(w)
  <2>1. CASE Leave(w)
    BY <2>1, LeaverIsDone
  <2>2. CASE ~Leave(w)
    <3>1. PICK n \in Sessions(w) : SetHandle(w, n)
      BY <1>9, <2>2 DEF get_camera_list_fetch
    <3>2. /\ pc'[w] = "fill" /\ job' = job /\ found' = found
          /\ sessions' = sessions /\ pc[w] = "fetch" /\ Results'[w].handle = n
      BY <1>9, <2>2, <3>1 DEF get_camera_list_fetch, SetHandle, At, goto, TypeOK, sdkVars
    <3>3. n # Uninit
      BY <3>1, SessionsType, RequestsAssumption
    <3>4. Results[w].handle # Uninit => n = Results[w].handle
      BY <3>1 DEF Sessions, UsedHandles
    <3>5. QED
      BY <1>0, <3>2, <3>3, <3>4 DEF StepOf, HandleOf, Kind, Dev
  <2>3. QED
    BY <2>1, <2>2
<1>10. CASE (\E n \in Sessions(w) : CLIENT_DHPTZControlEx2(w, n)) \/ ptz_control_fails(w)
  <2>1. /\ pc'[w] = "remember" /\ job' = job /\ Kind(w) \in PtzCmds \ {"goto"}
        /\ cmd'[w] = PtzCommand(w)
    BY <1>10 DEF CLIENT_DHPTZControlEx2, ptz_control_fails, goto, TypeOK
  <2>2. PtzCommand(w) \in Motions
    BY <2>1 DEF PtzCommand, PtzCmds, Motions, Stops, TypeOK
  <2>3. QED
    BY <1>0, <2>1, <2>2 DEF StepOf, HandleOf, Kind
<1>11. QED
  BY <1>1, <1>2, <1>3, <1>4, <1>5, <1>6, <1>7, <1>8, <1>9, <1>10 DEF Handler

\* A thread that takes a request.
LEMMA PositionOfTaker ==
  ASSUME TypeOK, JobInv, StepInv, HandleInv, NEW w \in Workers, NEW r \in Reqs, NEW ask \in Asks,
         handle_msg(w, r, ask)
  PROVE  JobInv' /\ StepInv' /\ HandleInv'
<1>1. /\ pc[w] = "idle" /\ asked[r] = None /\ answers[r] = <<>> /\ r \notin found
      /\ asked' = [asked EXCEPT ![r] = ask] /\ ask # None
      /\ pc' = [pc EXCEPT ![w] = EntryStep(ask.kind)] /\ job' = [job EXCEPT ![w] = r]
      /\ found' = IF ask.kind = "add" THEN found \cup {r} ELSE found
      /\ answers' = answers /\ Results' = Results /\ cmd' = cmd /\ sessions' = sessions
  BY RequestsAssumption DEF handle_msg, At, JobInv, sdkVars, ptzVars
<1>2. EntryStep(ask.kind) = IF ask.kind = "add" THEN "login"
                            ELSE IF ask.kind \in {"ack", "addNoIp"} THEN "ack" ELSE "lookup"
  BY DEF EntryStep
<1>3. \A v \in Workers \ {w} :
        /\ pc'[v] = pc[v] /\ job'[v] = job[v]
        /\ pc[v] # "idle" => job[v] \in Reqs /\ job[v] # r /\ asked'[job[v]] = asked[job[v]]
                             /\ (job[v] \in found' <=> job[v] \in found)
  BY <1>1 DEF JobInv, TypeOK
<1>4. pc'[w] = EntryStep(ask.kind) /\ job'[w] = r /\ asked'[r] = ask
  BY <1>1 DEF TypeOK
<1>5. JobInv'
  BY <1>1, <1>3, <1>4 DEF JobInv, TypeOK
<1>6. ASSUME NEW v \in Workers, v # w PROVE StepOf(v)' /\ HandleOf(v)'
  <2>1. CASE pc[v] = "idle"
    BY <1>3, <1>6, <2>1 DEF StepOf, HandleOf
  <2>2. CASE pc[v] # "idle"
    <3>1. StepOf(v) /\ HandleOf(v)
      BY DEF StepInv, HandleInv
    <3>2. QED
      BY <1>1, <1>3, <1>6, <2>2, <3>1 DEF StepOf, HandleOf, Kind, Dev
  <2>3. QED
    BY <2>1, <2>2
<1>7. StepOf(w)' /\ HandleOf(w)'
  BY <1>1, <1>2, <1>4 DEF StepOf, HandleOf
<1>8. QED
  BY <1>5, <1>6, <1>7 DEF StepInv, HandleInv
-----------------------------------------------------------------------------
(***************************************************************************)
(* The lock makes the cache and the SDK's logins agree.                    *)
(***************************************************************************)
LEMMA LoginsAgree ==
  ASSUME TypeOK, JobInv, LockInv, CacheInv, NEW w \in Workers, Handler(w)
  PROVE  LockInv' /\ CacheInv'
<1>0. /\ pc[w] # "idle" /\ asked' = asked /\ KeyOf[Dev(w)] \in Keys
      /\ \A v \in Workers \ {w} : pc'[v] = pc[v] /\ job'[v] = job[v]
  BY HandlerTouchesItsJob, JobType DEF OnlyJobOf, goto, Leave, TypeOK
<1>1. CASE Login_lookup(w)
  <2> DEFINE n == Equipment_map[CacheKey(Dev(w))]
  <2>1. loginLock = None /\ UNCHANGED <<Equipment_map, sessions>>
    BY <1>1 DEF Login_lookup
  <2>2. \A v \in Workers : pc[v] # "sdkLogin"
    BY <2>1, RequestsAssumption DEF LockInv
  <2>3. CASE n # 0
    <3>1. pc'[w] # "sdkLogin"
      BY <1>1, <2>3 DEF Login_lookup, goto, AfterLogin, TypeOK
    <3>2. QED
      BY <1>0, <2>1, <2>2, <3>1 DEF LockInv, CacheInv
  <2>4. CASE n = 0
    <3>1. loginLock' = w /\ job' = job
      BY <1>1, <2>4 DEF Login_lookup, goto
    <3>2. Equipment_map[CacheKey(Dev(w))]' = 0
      BY <1>0, <2>1, <2>4, <3>1 DEF Dev, CacheKey
    <3>3. QED
      BY <1>0, <2>1, <2>2, <3>1, <3>2 DEF LockInv, CacheInv
  <2>5. QED
    BY <2>3, <2>4
<1>2. CASE Login_success(w)
  <2> DEFINE k == KeyOf[Dev(w)]
             n == Len(sessions) + 1
  <2>1. /\ loginLock = w /\ Equipment_map[k] = 0
        /\ \A v \in Workers \ {w} : pc[v] # "sdkLogin"
    BY <1>2 DEF Login_success, LockInv, CacheKey, At
  <2>2. pc'[w] # "sdkLogin"
    BY <1>2 DEF Login_success, goto, AfterLogin, TypeOK
  <2>3. LockInv'
    BY <1>0, <2>1, <2>2 DEF LockInv
  <2>4. /\ sessions' = Append(sessions, k) /\ sessions \in Seq(Keys) /\ n \in Nat \ {0}
        /\ Equipment_map' = [Equipment_map EXCEPT ![k] = n]
    BY <1>2 DEF Login_success, CacheKey, TypeOK
  <2>5. /\ DOMAIN sessions = 1 .. Len(sessions) /\ DOMAIN sessions' = 1 .. n
        /\ sessions'[n] = k
        /\ \A i \in DOMAIN sessions : sessions'[i] = sessions[i] /\ sessions[i] \in Keys
    BY <1>0, <2>4
  <2>6. \A i \in DOMAIN sessions : sessions[i] # k
    BY <2>1, <2>5 DEF CacheInv
  <2>7. \A j \in Keys : Equipment_map'[j] = IF j = k THEN n ELSE Equipment_map[j]
    BY <2>4 DEF TypeOK
  <2>8. \A j \in Keys : Equipment_map'[j] # 0 =>
          Equipment_map'[j] \in DOMAIN sessions' /\ sessions'[Equipment_map'[j]] = j
    <3>1. ASSUME NEW j \in Keys, j # k, Equipment_map[j] # 0
          PROVE  Equipment_map[j] \in DOMAIN sessions' /\ sessions'[Equipment_map[j]] = j
      BY <2>4, <2>5, <3>1 DEF CacheInv
    <3>2. n \in DOMAIN sessions'
      BY <2>4, <2>5
    <3>3. QED
      BY <2>5, <2>7, <3>1, <3>2
  <2>9. \A i \in DOMAIN sessions' : Equipment_map'[sessions'[i]] = i
    <3>1. ASSUME NEW i \in DOMAIN sessions PROVE Equipment_map'[sessions'[i]] = i
      BY <2>5, <2>6, <2>7 DEF CacheInv
    <3>2. Equipment_map'[sessions'[n]] = n
      BY <1>0, <2>5, <2>7
    <3>3. \A i \in DOMAIN sessions' : i \in DOMAIN sessions \/ i = n
      BY <2>4, <2>5
    <3>4. QED
      BY <3>1, <3>2, <3>3
  <2>10. QED
    BY <2>3, <2>8, <2>9 DEF CacheInv
<1>3. CASE Login_failure(w) \/ Login_throws(w)
  <2>1. /\ loginLock = w /\ UNCHANGED <<Equipment_map, sessions>>
        /\ \A v \in Workers \ {w} : pc[v] # "sdkLogin"
    BY <1>3 DEF Login_failure, Login_throws, LockInv, At
  <2>2. pc'[w] # "sdkLogin"
    BY <1>3 DEF Login_failure, Login_throws, Leave, goto, TypeOK
  <2>3. QED
    BY <1>0, <2>1, <2>2 DEF LockInv, CacheInv
<1>4. CASE ~(Login_lookup(w) \/ Login_success(w) \/ Login_failure(w) \/ Login_throws(w))
  <2>1. UNCHANGED <<Equipment_map, loginLock, sessions>> /\ pc'[w] # "sdkLogin"
    BY <1>4 DEF Handler, get_platform, device_add_report, add_platform, response,
         device_add_noIp, channel_ptz_preset, channel_record_info, get_camera_list_begin,
         get_camera_list_size, get_camera_list_fetch, get_camera_list_fill,
         ptz_control_preset, CLIENT_DHPTZControlEx2, ptz_control_fails,
         ptz_control_remember, Leave, goto, TypeOK, sdkVars
  <2>2. \A v \in Workers \ {w} : Dev(v)' = Dev(v)
    BY <1>0 DEF Dev
  <2>3. QED
    BY <1>0, <2>1, <2>2 DEF LockInv, CacheInv
<1>5. QED
  BY <1>1, <1>2, <1>3, <1>4
-----------------------------------------------------------------------------
(***************************************************************************)
(* What is queued for a device that was found is from its recorder.        *)
(***************************************************************************)
Right(logins, ask, a) ==
  /\ a.from # 0 => a.from \in DOMAIN logins /\ logins[a.from] = KeyOf[ask.dev]
  /\ ask.kind \in {"preset", "goto", "add"} /\ a.what # "status" /\ a.code = 0 => a.from # 0

\* A step that sends nothing keeps RightRecorder.
LEMMA NoNewAnswer ==
  ASSUME TypeOK, RightRecorder, NEW w \in Workers, OnlyJobOf(w),
         answers' = answers, found' = found
  PROVE  RightRecorder'
  BY DEF RightRecorder, OnlyJobOf

\* A step that sends a right answer keeps RightRecorder.
LEMMA RightAnswer ==
  ASSUME TypeOK, RightRecorder, NEW w \in Workers, OnlyJobOf(w), found' = found, job[w] \in Reqs,
         NEW msg \in Answers, send_business_queueEx(w, msg), job[w] \in found => Right(sessions', asked[job[w]], msg)
  PROVE  RightRecorder'
<1> SUFFICES ASSUME NEW r \in found', NEW i \in DOMAIN answers'[r] PROVE Right(sessions', asked[r], answers'[r][i])
  BY DEF RightRecorder, Right, OnlyJobOf
<1>1. r \in found /\ r \in Reqs /\ answers[r] \in Seq(Answers)
  BY DEF TypeOK
<1>2. ASSUME NEW j \in DOMAIN answers[r] PROVE Right(sessions', asked[r], answers[r][j])
  <2>1. Right(sessions, asked[r], answers[r][j])
    BY <1>1 DEF RightRecorder, Right
  <2>2. QED
    BY <2>1 DEF Right, OnlyJobOf
<1>3. CASE r # job[w]
  <2>1. answers'[r] = answers[r]
    BY <1>1, <1>3 DEF OnlyJobOf
  <2>2. i \in DOMAIN answers[r] /\ answers'[r][i] = answers[r][i]
    BY <2>1
  <2>3. QED
    BY <1>2, <2>2
<1>4. CASE r = job[w]
  <2>1. answers'[r] = Append(answers[r], msg)
    BY <1>1, <1>4 DEF send_business_queueEx, TypeOK
  <2>2. \/ i \in DOMAIN answers[r] /\ answers'[r][i] = answers[r][i]
        \/ answers'[r][i] = msg
    BY <1>1, <2>1
  <2>3. QED
    BY <1>1, <1>2, <1>4, <2>2
<1>5. QED
  BY <1>3, <1>4

\* A login that Sessions offers for a device that was found.
LEMMA SessionIsRight ==
  ASSUME TypeOK, JobInv, HandleInv, NEW w \in Workers, job[w] \in found,
         pc[w] \in {"call", "size", "fetch", "fill"}, NEW n \in Sessions(w)
  PROVE  n # 0 /\ n \in DOMAIN sessions /\ sessions[n] = KeyOf[asked[job[w]].dev]
<1>1. HandleOf(w)
  BY DEF HandleInv
<1>2. n = Results[w].handle /\ n # 0
  BY <1>1 DEF HandleOf, Sessions, UsedHandles
<1>3. QED
  BY <1>1, <1>2 DEF HandleOf, Dev

\* An acceptance with a handle of the device keeps RightRecorder.
LEMMA AcceptIsRight ==
  ASSUME TypeOK, RightRecorder, NEW w \in Workers, OnlyJobOf(w), found' = found, job[w] \in Reqs,
         NEW n \in Nat \ {0}, Accept(w, n), n \in DOMAIN sessions', sessions'[n] = KeyOf[Dev(w)]
  PROVE  RightRecorder'
<1>1. CASE Kind(w) = "add"
  <2> DEFINE msg == DeviceAdd(1, 0, n)
  <2>1. msg \in Answers /\ msg.from = n
    BY MessageType DEF DeviceAdd, Message
  <2>2. Right(sessions', asked[job[w]], msg)
    BY <2>1 DEF Right, Dev, OnlyJobOf
  <2>3. send_business_queueEx(w, msg)
    BY <1>1 DEF Accept
  <2>4. QED
    BY <2>1, <2>2, <2>3, RightAnswer
<1>2. CASE Kind(w) # "add"
  BY <1>2, NoNewAnswer DEF Accept
<1>3. QED
  BY <1>1, <1>2

\* A message without data is right, unless it claims success of a preset.
LEMMA PlainIsRight ==
  ASSUME TypeOK, NEW r \in Reqs, NEW msg \in Answers, msg.from = 0,
         asked[r].kind \notin {"preset", "goto", "add"} \/ msg.what = "status" \/ msg.code # 0
  PROVE  Right(sessions', asked[r], msg)
  BY DEF Right

\* Every step of a handler keeps RightRecorder.
LEMMA AnswersAreRight ==
  ASSUME TypeOK, JobInv, StepInv, HandleInv, CacheInv, RightRecorder,
         NEW w \in Workers, Handler(w)
  PROVE  RightRecorder'
<1>0. /\ OnlyJobOf(w) /\ pc[w] # "idle" /\ job[w] \in Reqs /\ StepOf(w) /\ HandleOf(w)
      /\ asked' = asked
  BY HandlerTouchesItsJob DEF OnlyJobOf, JobInv, StepInv, HandleInv
<1>1. CASE get_platform(w)
  <2>1. answers' = answers /\ sessions' = sessions /\ found' \subseteq found \cup {job[w]}
    BY <1>1 DEF get_platform, sdkVars
  <2>2. answers[job[w]] = <<>>
    BY <1>0, <1>1 DEF StepOf, get_platform, At
  <2>3. QED
    BY <1>0, <2>1, <2>2 DEF RightRecorder
<1>2. CASE Login_lookup(w)
  <2> DEFINE c == Equipment_map[CacheKey(Dev(w))]
  <2>1. CASE c # 0
    <3>1. sessions' = sessions /\ found' = found /\ Accept(w, c)
      BY <1>2, <2>1 DEF Login_lookup
    <3>2. KeyOf[Dev(w)] \in Keys
      BY <1>0, JobType
    <3>3. c \in Nat \ {0} /\ c \in DOMAIN sessions /\ sessions[c] = KeyOf[Dev(w)]
      BY <2>1, <3>2 DEF CacheInv, CacheKey, TypeOK
    <3>4. QED
      BY <1>0, <3>1, <3>3, AcceptIsRight
  <2>2. CASE c = 0
    <3>1. answers' = answers /\ found' = found
      BY <1>2, <2>2 DEF Login_lookup
    <3>2. QED
      BY <1>0, <3>1, NoNewAnswer
  <2>3. QED
    BY <2>1, <2>2
<1>3. CASE Login_success(w)
  <2> DEFINE n == Len(sessions) + 1
  <2>1. KeyOf[Dev(w)] \in Keys /\ sessions \in Seq(Keys) /\ n \in Nat \ {0}
    BY <1>0, JobType DEF TypeOK
  <2>2. sessions' = Append(sessions, KeyOf[Dev(w)]) /\ Accept(w, n) /\ found' = found
    BY <1>3 DEF Login_success
  <2>3. n \in DOMAIN sessions' /\ sessions'[n] = KeyOf[Dev(w)]
    BY <2>1, <2>2
  <2>4. QED
    BY <1>0, <2>1, <2>2, <2>3, AcceptIsRight
<1>4. CASE Login_failure(w)
  <2>1. found' = found
    BY <1>4 DEF Login_failure
  <2>2. CASE Kind(w) = "add"
    <3> DEFINE msg == DeviceAdd(1, 1, 0)
    <3>1. msg \in Answers /\ msg.from = 0 /\ msg.code = 1
      BY MessageType DEF DeviceAdd, Message
    <3>2. Right(sessions', asked[job[w]], msg)
      BY <1>0, <3>1, PlainIsRight
    <3>3. send_business_queueEx(w, msg)
      BY <1>4, <2>2 DEF Login_failure
    <3>4. QED
      BY <1>0, <2>1, <3>1, <3>2, <3>3, RightAnswer
  <2>3. CASE Kind(w) # "add"
    <3>1. answers' = answers
      BY <1>4, <2>3 DEF Login_failure
    <3>2. QED
      BY <1>0, <2>1, <3>1, NoNewAnswer
  <2>4. QED
    BY <2>2, <2>3
<1>5. CASE \/ Login_throws(w) \/ add_platform(w) \/ device_add_noIp(w)
           \/ get_camera_list_begin(w) \/ ptz_control_fails(w)
           \/ \E n \in Sessions(w) : CLIENT_DHPTZControlEx2(w, n)
  <2>1. answers' = answers /\ found' = found
    BY <1>5 DEF Login_throws, add_platform, device_add_noIp, get_camera_list_begin,
                ptz_control_fails, CLIENT_DHPTZControlEx2
  <2>2. QED
    BY <1>0, <2>1, NoNewAnswer
<1>6. CASE device_add_report(w)
  <2> DEFINE msg == DeviceAdd(2, 0, 0)
  <2>1. msg \in Answers /\ msg.from = 0 /\ msg.what = "status"
    BY MessageType DEF DeviceAdd, Message
  <2>2. Right(sessions', asked[job[w]], msg)
    BY <1>0, <2>1, PlainIsRight
  <2>3. send_business_queueEx(w, msg) /\ found' = found
    BY <1>6 DEF device_add_report
  <2>4. QED
    BY <1>0, <2>1, <2>2, <2>3, RightAnswer
<1>7. CASE response(w) \/ ptz_control_remember(w)
  <2> DEFINE msg == Response(0, 0)
  <2>1. msg \in Answers /\ msg.from = 0
    BY MessageType DEF Response, Message
  <2>2. Kind(w) \notin {"preset", "goto", "add"}
    BY <1>0, <1>7 DEF response, ptz_control_remember, At, StepOf, PtzCmds, Stops
  <2>3. Right(sessions', asked[job[w]], msg)
    BY <1>0, <2>1, <2>2, PlainIsRight DEF Kind
  <2>4. send_business_queueEx(w, msg) /\ found' = found
    BY <1>7 DEF response, ptz_control_remember
  <2>5. QED
    BY <1>0, <2>1, <2>3, <2>4, RightAnswer
<1>8. CASE channel_ptz_preset(w) \/ channel_record_info(w) \/ ptz_control_preset(w)
  <2>1. PICK code \in {0, 1}, n \in Sessions(w) \cup {0} :
          /\ send_business_queueEx(w, Response(code, n))
          /\ n = 0 => code = 1 \/ Kind(w) = "record"
    <3>1. CASE channel_ptz_preset(w)
      <4>1. PICK o \in query_ptz_preset(w) : send_business_queueEx(w, Response(o[1], o[2]))
        BY <3>1 DEF channel_ptz_preset
      <4>2. (o[1] = 0 /\ o[2] \in Sessions(w)) \/ (o[1] = 1 /\ o[2] = 0)
        BY <4>1 DEF query_ptz_preset
      <4>3. 0 \notin Sessions(w)
        BY DEF Sessions
      <4>4. QED
        BY <4>1, <4>2, <4>3
    <3>2. CASE channel_record_info(w)
      <4>1. Kind(w) = "record"
        BY <3>2 DEF channel_record_info
      <4>2. PICK o \in query_record_file(w) : send_business_queueEx(w, Response(o[1], o[2]))
        BY <3>2 DEF channel_record_info
      <4>3. o[1] \in {0, 1} /\ o[2] \in Sessions(w) \cup {0}
        BY <4>2 DEF query_record_file
      <4>4. QED
        BY <4>1, <4>2, <4>3
    <3>3. CASE ptz_control_preset(w)
      <4>1. 0 \notin Sessions(w)
        BY DEF Sessions
      <4>2. QED
        BY <3>3, <4>1 DEF ptz_control_preset
    <3>4. QED
      BY <1>8, <3>1, <3>2, <3>3
  <2> DEFINE msg == Response(code, n)
  <2>2. n \in Nat /\ pc[w] = "call" /\ found' = found /\ sessions' = sessions
    BY <1>8, <2>1, SessionsType
       DEF channel_ptz_preset, channel_record_info, ptz_control_preset, At, sdkVars
  <2>3. msg \in Answers /\ msg.from = n /\ msg.code = code
    BY <2>1, <2>2, MessageType DEF Response, Message
  <2>4. ASSUME job[w] \in found PROVE Right(sessions', asked[job[w]], msg)
    <3>1. CASE n = 0
      BY <1>0, <2>1, <2>3, <3>1 DEF Right, Kind
    <3>2. CASE n # 0
      <4>1. n \in DOMAIN sessions /\ sessions[n] = KeyOf[asked[job[w]].dev]
        BY <2>1, <2>2, <2>4, <3>2, SessionIsRight
      <4>2. QED
        BY <1>0, <2>2, <2>3, <3>2, <4>1 DEF Right
    <3>3. QED
      BY <3>1, <3>2
  <2>5. QED
    BY <1>0, <2>1, <2>2, <2>3, <2>4, RightAnswer
<1>9. CASE get_camera_list_size(w)
  <2> DEFINE msg == CameraList(0, 0, 0, w, FALSE)
  <2>1. msg \in Answers /\ msg.from = 0
    BY CameraListType DEF CameraList
  <2>2. Right(sessions', asked[job[w]], msg)
    BY <1>0, <1>9, <2>1, PlainIsRight DEF get_camera_list_size, At, StepOf, Kind
  <2>3. found' = found /\ (send_business_queueEx(w, msg) \/ answers' = answers)
    BY <1>9 DEF get_camera_list_size
  <2>4. QED
    BY <1>0, <2>1, <2>2, <2>3, RightAnswer, NoNewAnswer
<1>10. CASE get_camera_list_fetch(w)
  <2> DEFINE msg == CameraList(list[w], 0, 0, w, FALSE)
  <2>1. msg \in Answers /\ msg.from = 0
    BY CameraListType DEF CameraList, TypeOK
  <2>2. Right(sessions', asked[job[w]], msg)
    BY <1>0, <1>10, <2>1, PlainIsRight DEF get_camera_list_fetch, At, StepOf, Kind
  <2>3. found' = found /\ (send_business_queueEx(w, msg) \/ answers' = answers)
    BY <1>10 DEF get_camera_list_fetch
  <2>4. QED
    BY <1>0, <2>1, <2>2, <2>3, RightAnswer, NoNewAnswer
<1>11. CASE get_camera_list_fill(w)
  <2> DEFINE over == m_nChanNum > list[w]
             num == IF m_nChanNum < 0 THEN 0 ELSE IF over THEN list[w] ELSE m_nChanNum
             msg == CameraList(list[w], num, Results[w].handle, w, over)
  <2>1. pc[w] = "fill" /\ Results[w].handle \in Nat /\ Kind(w) = "sync"
    BY <1>0, <1>11 DEF get_camera_list_fill, At, StepOf, TypeOK
  <2>2. list[w] \in Nat /\ num \in Nat /\ over \in BOOLEAN
    BY DEF TypeOK
  <2>3. msg \in Answers
    BY <2>1, <2>2, CameraListType
  <2>4. msg.from = Results[w].handle
    BY DEF CameraList
  <2>5. send_business_queueEx(w, msg) /\ found' = found /\ sessions' = sessions
    BY <1>11 DEF get_camera_list_fill, sdkVars
  <2>6. ASSUME job[w] \in found PROVE Right(sessions', asked[job[w]], msg)
    <3>1. Results[w].handle # 0 => /\ Results[w].handle \in DOMAIN sessions
                                  /\ sessions[Results[w].handle] = KeyOf[asked[job[w]].dev]
      BY <1>0, <2>1, <2>6 DEF HandleOf, Dev
    <3>2. QED
      BY <1>0, <2>1, <2>4, <2>5, <3>1 DEF Right, Kind
  <2>7. QED
    BY <1>0, <2>3, <2>5, <2>6, RightAnswer
<1>12. QED
  BY <1>1, <1>2, <1>3, <1>4, <1>5, <1>6, <1>7, <1>8, <1>9, <1>10, <1>11 DEF Handler
-----------------------------------------------------------------------------
(***************************************************************************)
(* The inductive invariant and the theorems.                               *)
(***************************************************************************)
DeskInv ==
  /\ TypeOK /\ JobInv /\ StepInv /\ LockInv /\ CacheInv /\ HandleInv
  /\ RightRecorder

\* The initial states have the inductive invariant.
LEMMA DeskInit == Init => DeskInv
<1> SUFFICES ASSUME Init PROVE DeskInv
  OBVIOUS
<1>1. TypeOK
  BY RequestsAssumption DEF Init, TypeOK, Steps, Motions, Unset
<1>2. sessions = <<>> /\ found = {} /\ \A w \in Workers : pc[w] = "idle"
  BY DEF Init
<1>3. JobInv /\ StepInv /\ LockInv /\ HandleInv
  BY <1>2 DEF Init, JobInv, StepInv, StepOf, LockInv, HandleInv, HandleOf
<1>4. CacheInv /\ RightRecorder
  BY <1>2 DEF Init, CacheInv, RightRecorder
<1>5. QED
  BY <1>1, <1>3, <1>4 DEF DeskInv

\* Every step keeps the inductive invariant.
LEMMA DeskStep == DeskInv /\ [Next]_vars => DeskInv'
<1> SUFFICES ASSUME DeskInv, [Next]_vars PROVE DeskInv'
  OBVIOUS
<1>0. TypeOK /\ JobInv /\ StepInv /\ LockInv /\ CacheInv /\ HandleInv /\ RightRecorder
  BY DEF DeskInv
<1>1. TypeOK'
  BY <1>0, TypeStep
<1>2. ASSUME NEW w \in Workers, Handler(w)
      PROVE  (JobInv /\ StepInv /\ LockInv /\ CacheInv /\ HandleInv /\ RightRecorder)'
  <2>1. OnlyJobOf(w)
    BY <1>0, <1>2, HandlerTouchesItsJob
  <2>2. JobInv'
    BY <1>0, <2>1, JobsStayApart
  <2>3. \A v \in Workers : StepOf(v)' /\ HandleOf(v)'
    BY <1>0, <1>2, <2>1, OthersStay, PositionOfHandler
  <2>4. StepInv' /\ HandleInv'
    BY <2>3 DEF StepInv, HandleInv
  <2>5. QED
    BY <1>0, <1>2, <2>2, <2>4, LoginsAgree, AnswersAreRight
<1>3. ASSUME NEW w \in Workers, NEW r \in Reqs, NEW ask \in Asks, handle_msg(w, r, ask)
      PROVE  (JobInv /\ StepInv /\ LockInv /\ CacheInv /\ HandleInv /\ RightRecorder)'
  <2>1. JobInv' /\ StepInv' /\ HandleInv'
    BY <1>0, <1>3, PositionOfTaker
  <2>2. /\ UNCHANGED <<Equipment_map, loginLock, sessions, answers>>
        /\ asked[r] = None /\ asked' = [asked EXCEPT ![r] = ask]
        /\ job' = [job EXCEPT ![w] = r] /\ pc' = [pc EXCEPT ![w] = EntryStep(ask.kind)]
        /\ found' \subseteq found \cup {r}
    BY <1>3 DEF handle_msg, sdkVars
  <2>3. EntryStep(ask.kind) # "sdkLogin"
    BY DEF EntryStep
  <2>4. \A v \in Workers : pc'[v] = "sdkLogin" => pc[v] = "sdkLogin" /\ Dev(v)' = Dev(v)
    BY <1>0, <2>2, <2>3 DEF Dev, JobInv, TypeOK
  <2>5. LockInv' /\ CacheInv'
    BY <1>0, <2>2, <2>4 DEF LockInv, CacheInv, CacheKey
  <2>6. answers[r] = <<>> /\ r \notin found
    BY <1>0, <2>2 DEF JobInv
  <2>7. RightRecorder'
    BY <1>0, <2>2, <2>6 DEF RightRecorder, TypeOK
  <2>8. QED
    BY <2>1, <2>5, <2>7
<1>4. CASE UNCHANGED vars
  BY <1>0, <1>4 DEF vars, sdkVars, syncVars, ptzVars, DeskInv, TypeOK, JobInv, StepInv, StepOf,
     LockInv, CacheInv, HandleInv, HandleOf, RightRecorder, Kind, Dev
<1>5. QED
  BY <1>1, <1>2, <1>3, <1>4 DEF DeskInv, Next

\* The inductive invariant holds always.
LEMMA DeskInvariant == Spec => []DeskInv
  BY DeskInit, DeskStep, PTL DEF Spec

(***************************************************************************)
(* The variables of the handlers keep their types for every number of      *)
(* threads, requests, devices and recorders, and for every content of the  *)
(* uninitialised LoginResults.                                             *)
(***************************************************************************)
THEOREM TypeCorrect == Spec => []TypeOK
<1>1. DeskInv => TypeOK
  BY DEF DeskInv
<1>2. QED
  BY <1>1, DeskInvariant, PTL

(***************************************************************************)
(* EquipmentMgr::Login: whichever requests arrive together, the gateway    *)
(* logs in to a recorder once and caches that login under it.              *)
(***************************************************************************)
THEOREM LoginsCorrect == Spec => []LoggedInOnce
<1>1. DeskInv => LoggedInOnce
  <2> SUFFICES ASSUME DeskInv PROVE LoggedInOnce
    OBVIOUS
  <2>1. CacheInv
    BY DEF DeskInv
  <2>2. ASSUME NEW i \in DOMAIN sessions, NEW j \in DOMAIN sessions, sessions[i] = sessions[j]
        PROVE  i = j
    BY <2>1, <2>2 DEF CacheInv
  <2>3. QED
    BY <2>1, <2>2 DEF CacheInv, LoggedInOnce
<1>2. QED
  BY <1>1, DeskInvariant, PTL

(***************************************************************************)
(* The handlers of server_manage: an answer about a device that was found  *)
(* has its data from that device's recorder, for every interleaving.       *)
(***************************************************************************)
THEOREM RecorderCorrect == Spec => []RightRecorder
<1>1. DeskInv => RightRecorder
  BY DEF DeskInv
<1>2. QED
  BY <1>1, DeskInvariant, PTL
-----------------------------------------------------------------------------
(***************************************************************************)
(* get_camera_list and the member m_nChanNum.                              *)
(***************************************************************************)
\* What a thread knows of m_nChanNum and its list while nobody assigned the
\* member since, and of the channels its login told.
ListOf(w) ==
  /\ job[w] \in found /\ Results[w].handle # 0 =>
       /\ pc[w] = "call" => Results[w].chan = Chans[KeyOf[Dev(w)]]
       /\ pc[w] \in {"size", "fetch", "fill"} /\ alone[w] => m_nChanNum = Chans[KeyOf[Dev(w)]]
  /\ pc[w] \in {"fetch", "fill"} /\ alone[w] => list[w] = m_nChanNum
ListInv == \A w \in Workers : pc[w] # "idle" => ListOf(w)

\* What CameraListExact says of one answer.
Exact(isFound, ask, a) ==
  a.alone => /\ ~a.over
             /\ isFound /\ ask.kind = "sync" /\ a.from # 0 =>
                  a.total = Chans[KeyOf[ask.dev]] /\ a.num = a.total

\* A thread's step leaves what the others know, unless it takes their "alone".
LEMMA OthersLists ==
  ASSUME TypeOK, JobInv, ListInv, NEW w \in Workers, OnlyJobOf(w),
         \A v \in Workers \ {w} : alone'[v] => alone[v] /\ m_nChanNum' = m_nChanNum /\ list'[v] = list[v],
         NEW v \in Workers, v # w
  PROVE  (pc[v] # "idle" => ListOf(v))'
<1> SUFFICES ASSUME pc'[v] # "idle" PROVE ListOf(v)'
  OBVIOUS
<1>1. pc'[v] = pc[v] /\ job'[v] = job[v] /\ Results'[v] = Results[v]
  BY DEF OnlyJobOf, goto, Leave, TypeOK
<1>2. job[v] \in Reqs /\ job[v] # job[w]
  BY <1>1 DEF JobInv, OnlyJobOf
<1>3. asked' = asked /\ (job[v] \in found' <=> job[v] \in found)
  BY <1>2 DEF OnlyJobOf
<1>4. Dev(v)' = Dev(v)
  BY <1>1, <1>3 DEF Dev
<1>5. ListOf(v)
  BY <1>1 DEF ListInv
<1>6. QED
  BY <1>1, <1>3, <1>4, <1>5 DEF ListOf

\* Every step of a handler keeps ListInv.
LEMMA ListStep ==
  ASSUME TypeOK, JobInv, StepInv, HandleInv, ListInv, NEW w \in Workers, Handler(w)
  PROVE  ListInv'
<1>0. /\ OnlyJobOf(w) /\ pc[w] # "idle" /\ job[w] \in Reqs /\ StepOf(w) /\ HandleOf(w)
      /\ asked' = asked /\ ListOf(w)
  BY HandlerTouchesItsJob DEF OnlyJobOf, JobInv, StepInv, HandleInv, ListInv
<1>1. \A v \in Workers \ {w} : alone'[v] => alone[v] /\ m_nChanNum' = m_nChanNum /\ list'[v] = list[v]
  <2>1. CASE get_camera_list_begin(w)
    BY <2>1 DEF get_camera_list_begin
  <2>2. CASE ~get_camera_list_begin(w)
    <3>1. UNCHANGED <<alone, m_nChanNum>>
      BY <2>2 DEF Handler, get_platform, Login_lookup, Login_success, Login_failure, Login_throws,
         device_add_report, add_platform, response, device_add_noIp, channel_ptz_preset,
         channel_record_info, get_camera_list_size, get_camera_list_fetch, get_camera_list_fill,
         ptz_control_preset, CLIENT_DHPTZControlEx2, ptz_control_fails, ptz_control_remember, syncVars
    <3>2. \/ list' = list
          \/ get_camera_list_size(w) \/ get_camera_list_fetch(w) \/ get_camera_list_fill(w)
      BY <2>2 DEF Handler, get_platform, Login_lookup, Login_success, Login_failure, Login_throws,
         device_add_report, add_platform, response, device_add_noIp, channel_ptz_preset,
         channel_record_info,
         ptz_control_preset, CLIENT_DHPTZControlEx2, ptz_control_fails, ptz_control_remember, syncVars
    <3>3. \A v \in Workers \ {w} : list'[v] = list[v]
      BY <3>2 DEF get_camera_list_size, get_camera_list_fetch, get_camera_list_fill, TypeOK
    <3>4. QED
      BY <3>1, <3>3
  <2>3. QED
    BY <2>1, <2>2
<1>2. ASSUME NEW v \in Workers, v # w PROVE (pc[v] # "idle" => ListOf(v))'
  BY <1>0, <1>1, <1>2, OthersLists
<1>3. (pc[w] # "idle" => ListOf(w))'
  <2>1. CASE pc'[w] \notin {"call", "size", "fetch", "fill"}
    BY <2>1 DEF ListOf
  <2>2. ASSUME pc'[w] \in {"call", "size", "fetch", "fill"}, job' = job,
               pc' = [pc EXCEPT ![w] = pc'[w]]
        PROVE  ListOf(w)'
    <3>0. Dev(w)' = Dev(w)
      BY <1>0, <2>2 DEF Dev
    <3>1. CASE get_platform(w)
      <4>1. pc'[w] = "call" /\ found' = found /\ job[w] \notin found
        BY <1>0, <3>1, <2>2 DEF get_platform, goto, TypeOK, StepOf, At
      <4>2. QED
        BY <2>2, <4>1 DEF ListOf
    <3>2. CASE Login_lookup(w) \/ Login_success(w)
      <4>1. pc'[w] = "call"
        BY <2>2, <3>2 DEF Login_lookup, Login_success, goto, AfterLogin, TypeOK
      <4>2. Results'[w].chan = Chans[KeyOf[Dev(w)]]
        BY <3>2, <4>1 DEF Login_lookup, Login_success, goto, TypeOK
      <4>3. QED
        BY <3>0, <4>1, <4>2 DEF ListOf
    <3>3. CASE Login_failure(w)
      <4>1. Kind(w) # "add"
        BY <2>2, <3>3 DEF Login_failure, Leave, TypeOK
      <4>2. pc'[w] = "call" /\ SetHandle(w, 0)
        BY <3>3, <4>1 DEF Login_failure, goto, TypeOK
      <4>3. Results'[w].handle = 0
        BY <4>2 DEF SetHandle, TypeOK
      <4>4. QED
        BY <4>2, <4>3 DEF ListOf
    <3>4. CASE get_camera_list_begin(w)
      <4>1. pc[w] = "call" /\ pc'[w] = "size" /\ m_nChanNum' \in UsedChan(w)
            /\ UNCHANGED <<found, Results>>
        BY <3>4 DEF get_camera_list_begin, At, goto, TypeOK
      <4>2. job[w] \in found /\ Results[w].handle # 0 => Results[w].chan = Chans[KeyOf[Dev(w)]]
        BY <1>0, <4>1 DEF ListOf
      <4>3. Chans[KeyOf[Dev(w)]] # Uninit
        BY <1>0, JobType, RequestsAssumption
      <4>4. job[w] \in found /\ Results[w].handle # 0 => m_nChanNum' = Chans[KeyOf[Dev(w)]]
        BY <4>1, <4>2, <4>3 DEF UsedChan
      <4>5. QED
        BY <2>2, <3>0, <4>1, <4>4 DEF ListOf
    <3>5. CASE get_camera_list_size(w)
      <4>1. /\ pc[w] = "size" /\ UNCHANGED <<found, m_nChanNum, alone>>
            /\ \/ Leave(w)
               \/ goto(w, "fetch") /\ list' = [list EXCEPT ![w] = m_nChanNum] /\ Results' = Results
        BY <3>5 DEF get_camera_list_size, At
      <4>2. ~Leave(w)
        BY <2>2 DEF Leave, TypeOK
      <4>3. pc'[w] = "fetch" /\ list'[w] = m_nChanNum /\ Results' = Results
        BY <4>1, <4>2 DEF goto, TypeOK
      <4>4. QED
        BY <1>0, <2>2, <3>0, <4>1, <4>3 DEF ListOf
    <3>6. CASE get_camera_list_fetch(w)
      <4>1. /\ pc[w] = "fetch" /\ UNCHANGED <<found, m_nChanNum, alone>>
            /\ Leave(w) \/ (goto(w, "fill") /\ list' = list /\ \E n \in Sessions(w) : SetHandle(w, n))
        BY <3>6 DEF get_camera_list_fetch, At
      <4>2. ~Leave(w)
        BY <2>2 DEF Leave, TypeOK
      <4>3. pc'[w] = "fill" /\ list' = list
        BY <4>1, <4>2 DEF goto, TypeOK
      <4>4. job[w] \in found => Results[w].handle # 0
        BY <1>0, <4>1, <4>2 DEF HandleOf, Sessions, UsedHandles
      <4>5. QED
        BY <1>0, <2>2, <3>0, <4>1, <4>3, <4>4 DEF ListOf
    <3>7. CASE ~(\/ get_platform(w) \/ Login_lookup(w) \/ Login_success(w) \/ Login_failure(w)
                 \/ get_camera_list_begin(w) \/ get_camera_list_size(w) \/ get_camera_list_fetch(w))
      <4>1. Leave(w) \/ goto(w, "register") \/ goto(w, "remember")
        BY <3>7 DEF Handler, Login_throws, device_add_report, add_platform, response,
           device_add_noIp, channel_ptz_preset, channel_record_info, get_camera_list_fill,
           ptz_control_preset, CLIENT_DHPTZControlEx2, ptz_control_fails, ptz_control_remember
      <4>2. QED
        BY <2>2, <4>1 DEF Leave, goto, TypeOK
    <3>8. QED
      BY <3>1, <3>2, <3>3, <3>4, <3>5, <3>6, <3>7
  <2>3. pc'[w] = "idle" \/ (job' = job /\ pc' = [pc EXCEPT ![w] = pc'[w]])
    BY <1>0 DEF OnlyJobOf, Leave, goto, TypeOK
  <2>4. QED
    BY <2>1, <2>2, <2>3
<1>4. QED
  BY <1>2, <1>3 DEF ListInv

\* A thread that sends nothing, or one answer that is exact.
LEMMA ExactKept ==
  ASSUME TypeOK, CameraListExact, NEW w \in Workers, OnlyJobOf(w), answers' = answers,
         found' = found \/ answers[job[w]] = <<>>
  PROVE  CameraListExact'
<1>1. \A r \in Reqs : \A i \in DOMAIN answers[r] : r \in found' <=> r \in found
  BY DEF OnlyJobOf
<1>2. QED
  BY <1>1 DEF CameraListExact, OnlyJobOf

\* An exact answer keeps CameraListExact.
LEMMA ExactAnswer ==
  ASSUME TypeOK, CameraListExact, NEW w \in Workers, OnlyJobOf(w), found' = found, job[w] \in Reqs,
         NEW msg \in Answers, send_business_queueEx(w, msg),
         Exact(job[w] \in found, asked[job[w]], msg)
  PROVE  CameraListExact'
<1> SUFFICES ASSUME NEW r \in Reqs, NEW i \in DOMAIN answers'[r]
             PROVE  Exact(r \in found', asked'[r], answers'[r][i])
  BY DEF CameraListExact, Exact
<1>1. answers[r] \in Seq(Answers) /\ asked' = asked /\ found' = found
  BY DEF TypeOK, OnlyJobOf
<1>2. \A j \in DOMAIN answers[r] : Exact(r \in found, asked[r], answers[r][j])
  BY DEF CameraListExact, Exact
<1>3. \/ i \in DOMAIN answers[r] /\ answers'[r][i] = answers[r][i]
      \/ r = job[w] /\ answers'[r][i] = msg
  <2>1. answers' = [answers EXCEPT ![job[w]] = Append(answers[job[w]], msg)]
    BY DEF send_business_queueEx
  <2>2. CASE r # job[w]
    BY <2>1, <2>2 DEF TypeOK
  <2>3. CASE r = job[w]
    <3>1. answers'[r] = Append(answers[r], msg)
      BY <2>1, <2>3 DEF TypeOK
    <3>2. QED
      BY <1>1, <2>3, <3>1
  <2>4. QED
    BY <2>2, <2>3
<1>4. QED
  BY <1>1, <1>2, <1>3

\* A message that is not a list of cameras, about a request that asks for none.
LEMMA PlainIsExact ==
  ASSUME NEW what, NEW code, NEW from, NEW b, NEW ask, ask.kind # "sync" \/ from = 0
  PROVE  Exact(b, ask, Message(what, code, from))
BY DEF Exact, Message

\* An acceptance, which has no list, keeps CameraListExact.
LEMMA AcceptIsExact ==
  ASSUME TypeOK, JobInv, CameraListExact, NEW w \in Workers, OnlyJobOf(w), found' = found, NEW n \in Nat,
         Accept(w, n)
  PROVE  CameraListExact'
<1>1. CASE Kind(w) = "add"
  <2> DEFINE msg == DeviceAdd(1, 0, n)
  <2>1. msg = Message("accept", 0, n) /\ msg \in Answers
    BY MessageType DEF DeviceAdd
  <2>2. Exact(job[w] \in found, asked[job[w]], msg)
    BY <1>1, <2>1, PlainIsExact DEF Kind
  <2>3. send_business_queueEx(w, msg) /\ job[w] \in Reqs
    BY <1>1 DEF Accept, OnlyJobOf, JobInv
  <2>4. QED
    BY <2>1, <2>2, <2>3, ExactAnswer
<1>2. CASE Kind(w) # "add"
  BY <1>2, ExactKept DEF Accept
<1>3. QED
  BY <1>1, <1>2

\* Every step of a handler keeps CameraListExact.
LEMMA AnswersAreExact ==
  ASSUME TypeOK, JobInv, StepInv, ListInv, CameraListExact, NEW w \in Workers, Handler(w)
  PROVE  CameraListExact'
<1>0. OnlyJobOf(w) /\ pc[w] # "idle" /\ job[w] \in Reqs /\ StepOf(w) /\ ListOf(w)
  BY HandlerTouchesItsJob DEF OnlyJobOf, JobInv, StepInv, ListInv
<1>1. CASE get_platform(w)
  <2>1. answers' = answers /\ answers[job[w]] = <<>>
    BY <1>0, <1>1 DEF get_platform, StepOf, At
  <2>2. QED
    BY <1>0, <2>1, ExactKept
<1>2. CASE Login_lookup(w)
  <2> DEFINE c == Equipment_map[CacheKey(Dev(w))]
  <2>1. found' = found /\ c \in Nat
    BY <1>0, <1>2, JobType DEF Login_lookup, CacheKey, TypeOK
  <2>2. Accept(w, c) \/ answers' = answers
    BY <1>2 DEF Login_lookup
  <2>3. QED
    BY <1>0, <2>1, <2>2, AcceptIsExact, ExactKept
<1>3. CASE Login_success(w)
  <2>1. found' = found /\ Accept(w, Len(sessions) + 1) /\ Len(sessions) + 1 \in Nat
    BY <1>3 DEF Login_success, TypeOK
  <2>2. QED
    BY <1>0, <2>1, AcceptIsExact
<1>4. CASE Login_failure(w)
  <2> DEFINE msg == DeviceAdd(1, 1, 0)
  <2>1. found' = found /\ (send_business_queueEx(w, msg) \/ answers' = answers)
    BY <1>4 DEF Login_failure
  <2>2. msg = Message("reply", 1, 0) /\ msg \in Answers
    BY MessageType DEF DeviceAdd
  <2>3. Exact(job[w] \in found, asked[job[w]], msg)
    BY <2>2, PlainIsExact
  <2>4. QED
    BY <1>0, <2>1, <2>2, <2>3, ExactAnswer, ExactKept
<1>5. CASE \/ Login_throws(w) \/ add_platform(w) \/ device_add_noIp(w)
           \/ get_camera_list_begin(w) \/ ptz_control_fails(w)
           \/ \E n \in Sessions(w) : CLIENT_DHPTZControlEx2(w, n)
  <2>1. answers' = answers /\ found' = found
    BY <1>5 DEF Login_throws, add_platform, device_add_noIp, get_camera_list_begin,
                ptz_control_fails, CLIENT_DHPTZControlEx2
  <2>2. QED
    BY <1>0, <2>1, ExactKept
<1>6. CASE device_add_report(w)
  <2> DEFINE msg == DeviceAdd(2, 0, 0)
  <2>1. found' = found /\ send_business_queueEx(w, msg)
    BY <1>6 DEF device_add_report
  <2>2. msg = Message("status", 0, 0) /\ msg \in Answers
    BY MessageType DEF DeviceAdd
  <2>3. Exact(job[w] \in found, asked[job[w]], msg)
    BY <2>2, PlainIsExact
  <2>4. QED
    BY <1>0, <2>1, <2>2, <2>3, ExactAnswer
<1>7. CASE response(w) \/ ptz_control_remember(w)
  <2> DEFINE msg == Response(0, 0)
  <2>1. found' = found /\ send_business_queueEx(w, msg)
    BY <1>7 DEF response, ptz_control_remember
  <2>2. msg = Message("reply", 0, 0) /\ msg \in Answers
    BY MessageType DEF Response
  <2>3. Exact(job[w] \in found, asked[job[w]], msg)
    BY <2>2, PlainIsExact
  <2>4. QED
    BY <1>0, <2>1, <2>2, <2>3, ExactAnswer
<1>8. CASE channel_ptz_preset(w) \/ channel_record_info(w) \/ ptz_control_preset(w)
  <2>1. found' = found /\ Kind(w) # "sync"
    BY <1>8 DEF channel_ptz_preset, channel_record_info, ptz_control_preset
  <2>2. PICK code \in {0, 1}, n \in Sessions(w) \cup {0} :
          send_business_queueEx(w, Response(code, n))
    BY <1>8 DEF channel_ptz_preset, channel_record_info, ptz_control_preset, query_ptz_preset,
                query_record_file
  <2> DEFINE msg == Response(code, n)
  <2>3. msg = Message("reply", code, n) /\ msg \in Answers
    BY <2>2, SessionsType, MessageType DEF Response
  <2>4. Exact(job[w] \in found, asked[job[w]], msg)
    BY <2>1, <2>3, PlainIsExact DEF Kind
  <2>5. QED
    BY <1>0, <2>1, <2>2, <2>3, <2>4, ExactAnswer
<1>9. CASE get_camera_list_size(w)
  <2> DEFINE msg == CameraList(0, 0, 0, w, FALSE)
  <2>1. found' = found /\ (send_business_queueEx(w, msg) \/ answers' = answers)
    BY <1>9 DEF get_camera_list_size
  <2>2. msg \in Answers
    BY CameraListType
  <2>3. Exact(job[w] \in found, asked[job[w]], msg)
    BY DEF Exact, CameraList
  <2>4. QED
    BY <1>0, <2>1, <2>2, <2>3, ExactAnswer, ExactKept
<1>10. CASE get_camera_list_fetch(w)
  <2> DEFINE msg == CameraList(list[w], 0, 0, w, FALSE)
  <2>1. found' = found /\ (send_business_queueEx(w, msg) \/ answers' = answers)
    BY <1>10 DEF get_camera_list_fetch
  <2>2. msg \in Answers
    BY CameraListType DEF TypeOK
  <2>3. Exact(job[w] \in found, asked[job[w]], msg)
    BY DEF Exact, CameraList
  <2>4. QED
    BY <1>0, <2>1, <2>2, <2>3, ExactAnswer, ExactKept
<1>11. CASE get_camera_list_fill(w)
  <2> DEFINE over == m_nChanNum > list[w]
             num == IF m_nChanNum < 0 THEN 0 ELSE IF over THEN list[w] ELSE m_nChanNum
             msg == CameraList(list[w], num, Results[w].handle, w, over)
  <2>1. /\ pc[w] = "fill" /\ Results[w].handle \in Nat
        /\ found' = found /\ send_business_queueEx(w, msg)
    BY <1>0, <1>11 DEF get_camera_list_fill, At, StepOf, TypeOK
  <2>2. list[w] \in Nat /\ m_nChanNum \in Int /\ num \in Nat /\ over \in BOOLEAN
    BY DEF TypeOK
  <2>3. msg \in Answers
    BY <2>1, <2>2, CameraListType
  <2>4. /\ msg.alone = alone[w] /\ msg.over = over /\ msg.from = Results[w].handle
        /\ msg.total = list[w] /\ msg.num = num
    BY DEF CameraList
  <2>5. alone[w] => ~over /\ num = list[w]
    BY <1>0, <2>1, <2>2 DEF ListOf
  <2>6. job[w] \in found /\ Results[w].handle # 0 /\ alone[w] =>
          list[w] = Chans[KeyOf[asked[job[w]].dev]]
    BY <1>0, <2>1 DEF ListOf, Dev
  <2> HIDE DEF msg, num, over
  <2>7. Exact(job[w] \in found, asked[job[w]], msg)
    BY <2>4, <2>5, <2>6 DEF Exact
  <2>8. QED
    BY <1>0, <2>1, <2>3, <2>7, ExactAnswer
<1>12. QED
  BY <1>1, <1>2, <1>3, <1>4, <1>5, <1>6, <1>7, <1>8, <1>9, <1>10, <1>11 DEF Handler

\* A thread that takes a request knows nothing yet, and the request has no answer.
LEMMA ListTaken ==
  ASSUME TypeOK, JobInv, ListInv, CameraListExact,
         NEW w \in Workers, NEW r \in Reqs, NEW ask \in Asks, handle_msg(w, r, ask)
  PROVE  ListInv' /\ CameraListExact'
<1>1. /\ UNCHANGED <<answers, Results, alone, list, m_nChanNum>>
      /\ asked[r] = None /\ asked' = [asked EXCEPT ![r] = ask]
      /\ pc[w] = "idle" /\ pc' = [pc EXCEPT ![w] = EntryStep(ask.kind)]
      /\ job' = [job EXCEPT ![w] = r]
      /\ found \subseteq found' /\ found' \subseteq found \cup {r}
  BY DEF handle_msg, At, syncVars
<1>2. answers[r] = <<>> /\ r \notin found
  BY <1>1 DEF JobInv
<1>3. CameraListExact'
  <2>1. \A q \in Reqs : \A i \in DOMAIN answers[q] :
          (q \in found' <=> q \in found) /\ asked'[q] = asked[q]
    BY <1>1, <1>2 DEF TypeOK
  <2>2. QED
    BY <1>1, <2>1 DEF CameraListExact
<1>4. ASSUME NEW v \in Workers, pc'[v] # "idle" PROVE ListOf(v)'
  <2>1. CASE v = w
    <3>1. pc'[w] \notin {"call", "size", "fetch", "fill"}
      BY <1>1 DEF EntryStep, TypeOK
    <3>2. QED
      BY <2>1, <3>1 DEF ListOf
  <2>2. CASE v # w
    <3>1. pc'[v] = pc[v] /\ job'[v] = job[v] /\ ListOf(v)
      BY <1>1, <1>4, <2>2 DEF TypeOK, ListInv
    <3>2. job[v] \in Reqs /\ job[v] # r
      BY <1>1, <1>4, <3>1 DEF JobInv
    <3>3. asked'[job[v]] = asked[job[v]] /\ (job[v] \in found' <=> job[v] \in found)
      BY <1>1, <3>2 DEF TypeOK
    <3>4. Dev(v)' = Dev(v)
      BY <3>1, <3>3 DEF Dev
    <3>5. QED
      BY <1>1, <3>1, <3>3, <3>4 DEF ListOf
  <2>3. QED
    BY <2>1, <2>2
<1>5. QED
  BY <1>3, <1>4 DEF ListInv

(***************************************************************************)
(* get_camera_list, however many handlers share m_nChanNum: a handler that *)
(* nobody disturbed since it assigned the member stays within its buffers  *)
(* and answers with all the channels of its recorder.                      *)
(***************************************************************************)
THEOREM CameraListCorrect == Spec => []CameraListExact
<1>1. Init => ListInv /\ CameraListExact
  BY DEF Init, ListInv, CameraListExact
<1>2. DeskInv /\ ListInv /\ CameraListExact /\ [Next]_vars => (ListInv /\ CameraListExact)'
  <2> SUFFICES ASSUME DeskInv, ListInv, CameraListExact, [Next]_vars
               PROVE  (ListInv /\ CameraListExact)'
    OBVIOUS
  <2>0. TypeOK /\ JobInv /\ StepInv /\ HandleInv
    BY DEF DeskInv
  <2>1. ASSUME NEW w \in Workers, Handler(w) PROVE (ListInv /\ CameraListExact)'
    BY <2>0, <2>1, ListStep, AnswersAreExact
  <2>2. ASSUME NEW w \in Workers, NEW r \in Reqs, NEW ask \in Asks, handle_msg(w, r, ask)
        PROVE  (ListInv /\ CameraListExact)'
    BY <2>0, <2>2, ListTaken
  <2>3. CASE UNCHANGED vars
    BY <2>3 DEF vars, sdkVars, syncVars, ptzVars, ListInv, ListOf, Dev, CameraListExact
  <2>4. QED
    BY <2>1, <2>2, <2>3 DEF Next
<1>3. QED
  BY <1>1, <1>2, DeskInvariant, PTL DEF Spec
-----------------------------------------------------------------------------
(***************************************************************************)
(* The handlers implement RequestDesk: what a request has been sent is a   *)
(* function of where its thread is, so that each message moves the request *)
(* from one state of the desk to the next.                                 *)
(***************************************************************************)
\* What the request of a thread has been sent so far.
SentOf(w) ==
  /\ pc[w] = "idle" => job[w] = None
  /\ pc[w] \notin {"idle", "status", "register"} => Sent(job[w]) = <<>>
  /\ pc[w] = "status" => Sent(job[w]) = <<"accept">>
  /\ pc[w] = "register" => Sent(job[w]) = <<"accept", "status">>
SentInv == \A w \in Workers : SentOf(w)

\* Worker w sends an answer of this sort.
Sends(w, what) == \E msg \in Answers : msg.what = what /\ send_business_queueEx(w, msg)

\* The messages of a handler's steps, and where it goes with them.
Moves(w) ==
  \/ /\ answers' = answers /\ pc[w] \notin {"idle", "status", "register"}
     /\ \E step \in Steps \ {"idle", "status", "register"} : goto(w, step)
  \/ answers' = answers /\ Leave(w) /\ pc[w] \notin {"idle", "status"}
  \/ Sends(w, "reply") /\ Leave(w) /\ pc[w] \notin {"idle", "status", "register"}
  \/ Sends(w, "accept") /\ goto(w, "status") /\ pc[w] \notin {"idle", "status", "register"}
  \/ Sends(w, "status") /\ goto(w, "register") /\ pc[w] = "status"

\* A message of the kinds that Message, and so Response and DeviceAdd, build.
LEMMA SendsMessage ==
  ASSUME NEW w \in Workers, NEW what \in {"reply", "accept", "status"}, NEW code \in {0, 1},
         NEW from \in Nat, send_business_queueEx(w, Message(what, code, from))
  PROVE  Sends(w, what)
<1>1. Message(what, code, from) \in Answers /\ Message(what, code, from).what = what
  BY MessageType DEF Message
<1>2. QED
  BY <1>1 DEF Sends

\* A camera list is sent as a reply.
LEMMA SendsCameraList ==
  ASSUME TypeOK, NEW w \in Workers, NEW total \in Nat, NEW num \in Nat, NEW from \in Nat,
         NEW over \in BOOLEAN, send_business_queueEx(w, CameraList(total, num, from, w, over))
  PROVE  Sends(w, "reply")
<1>1. CameraList(total, num, from, w, over) \in Answers
  BY CameraListType
<1>2. CameraList(total, num, from, w, over).what = "reply"
  BY DEF CameraList
<1>3. QED
  BY <1>1, <1>2 DEF Sends

\* Login's two ways to succeed: device_add is accepted, the others go on.
LEMMA LoginMoves ==
  ASSUME NEW w \in Workers, NEW n \in Nat, pc[w] \in {"login", "sdkLogin"},
         Accept(w, n), goto(w, AfterLogin(w))
  PROVE  Moves(w)
<1>1. CASE Kind(w) = "add"
  <2>1. send_business_queueEx(w, Message("accept", 0, n)) /\ goto(w, "status")
    BY <1>1 DEF Accept, DeviceAdd, AfterLogin
  <2>2. Sends(w, "accept")
    BY <2>1, SendsMessage
  <2>3. QED
    BY <2>1, <2>2 DEF Moves
<1>2. CASE Kind(w) # "add"
  BY <1>2 DEF Accept, AfterLogin, Moves, Steps
<1>3. QED
  BY <1>1, <1>2

\* Every step of a handler moves its request along the desk.
LEMMA HandlerMoves ==
  ASSUME TypeOK, JobInv, StepInv, NEW w \in Workers, Handler(w)
  PROVE  Moves(w)
<1>0. OnlyJobOf(w) /\ pc[w] # "idle" /\ StepOf(w)
  BY HandlerTouchesItsJob DEF OnlyJobOf, StepInv
<1>1. CASE get_platform(w)
  BY <1>1 DEF get_platform, At, Moves, Steps
<1>2. CASE Login_lookup(w)
  <2> DEFINE c == Equipment_map[CacheKey(Dev(w))]
  <2>1. c \in Nat /\ pc[w] = "login"
    BY <1>0, <1>2, JobType DEF Login_lookup, At, CacheKey, TypeOK
  <2>2. (Accept(w, c) /\ goto(w, AfterLogin(w))) \/ (goto(w, "sdkLogin") /\ answers' = answers)
    BY <1>2 DEF Login_lookup
  <2>3. CASE Accept(w, c) /\ goto(w, AfterLogin(w))
    BY <2>1, <2>3, LoginMoves
  <2>4. CASE goto(w, "sdkLogin") /\ answers' = answers
    BY <2>1, <2>4 DEF Moves, Steps
  <2>5. QED
    BY <2>2, <2>3, <2>4
<1>3. CASE Login_success(w)
  <2>1. /\ Accept(w, Len(sessions) + 1) /\ Len(sessions) + 1 \in Nat
        /\ goto(w, AfterLogin(w)) /\ pc[w] = "sdkLogin"
    BY <1>3 DEF Login_success, At, TypeOK
  <2>2. QED
    BY <2>1, LoginMoves
<1>4. CASE Login_failure(w)
  <2>1. CASE Kind(w) = "add"
    <3>1. send_business_queueEx(w, Message("reply", 1, 0)) /\ Leave(w) /\ pc[w] = "sdkLogin"
      BY <1>4, <2>1 DEF Login_failure, At, DeviceAdd
    <3>2. Sends(w, "reply")
      BY <3>1, SendsMessage
    <3>3. QED
      BY <3>1, <3>2 DEF Moves
  <2>2. CASE Kind(w) # "add"
    BY <1>4, <2>2 DEF Login_failure, At, Moves, Steps
  <2>3. QED
    BY <2>1, <2>2
<1>5. CASE Login_throws(w) \/ add_platform(w) \/ device_add_noIp(w)
  BY <1>5 DEF Login_throws, add_platform, device_add_noIp, At, Moves
<1>6. CASE get_camera_list_begin(w) \/ ptz_control_fails(w)
           \/ \E n \in Sessions(w) : CLIENT_DHPTZControlEx2(w, n)
  <2>1. /\ answers' = answers /\ pc[w] = "call"
        /\ goto(w, "size") \/ goto(w, "remember")
    BY <1>6 DEF get_camera_list_begin, ptz_control_fails, CLIENT_DHPTZControlEx2, At
  <2>2. QED
    BY <2>1 DEF Moves, Steps
<1>7. CASE device_add_report(w)
  <2>1. send_business_queueEx(w, Message("status", 0, 0)) /\ goto(w, "register") /\ pc[w] = "status"
    BY <1>7 DEF device_add_report, At, DeviceAdd
  <2>2. Sends(w, "status")
    BY <2>1, SendsMessage
  <2>3. QED
    BY <2>1, <2>2 DEF Moves
<1>8. CASE \/ response(w) \/ ptz_control_remember(w) \/ channel_ptz_preset(w)
           \/ channel_record_info(w) \/ ptz_control_preset(w)
  <2>1. Leave(w) /\ pc[w] \in {"ack", "remember", "call"}
    BY <1>8 DEF response, ptz_control_remember, channel_ptz_preset, channel_record_info,
                ptz_control_preset, At
  <2>2. PICK code \in {0, 1}, n \in Sessions(w) \cup {0} :
          send_business_queueEx(w, Response(code, n))
    BY <1>8 DEF response, ptz_control_remember, channel_ptz_preset, channel_record_info,
                ptz_control_preset, query_ptz_preset, query_record_file
  <2>3. n \in Nat
    BY <2>2, SessionsType
  <2>4. Sends(w, "reply")
    BY <2>2, <2>3, SendsMessage DEF Response
  <2>5. QED
    BY <2>1, <2>4 DEF Moves
<1>9. CASE get_camera_list_size(w)
  <2>1. /\ pc[w] = "size"
        /\ \/ Leave(w) /\ answers' = answers
           \/ Leave(w) /\ send_business_queueEx(w, CameraList(0, 0, 0, w, FALSE))
           \/ goto(w, "fetch") /\ answers' = answers
    BY <1>9 DEF get_camera_list_size, At
  <2>2. send_business_queueEx(w, CameraList(0, 0, 0, w, FALSE)) => Sends(w, "reply")
    BY SendsCameraList
  <2>3. QED
    BY <2>1, <2>2 DEF Moves, Steps
<1>10. CASE get_camera_list_fetch(w)
  <2>1. /\ pc[w] = "fetch"
        /\ \/ goto(w, "fill") /\ answers' = answers
           \/ Leave(w) /\ send_business_queueEx(w, CameraList(list[w], 0, 0, w, FALSE))
    BY <1>10 DEF get_camera_list_fetch, At
  <2>2. send_business_queueEx(w, CameraList(list[w], 0, 0, w, FALSE)) => Sends(w, "reply")
    BY SendsCameraList DEF TypeOK
  <2>3. QED
    BY <2>1, <2>2 DEF Moves, Steps
<1>11. CASE get_camera_list_fill(w)
  <2> DEFINE over == m_nChanNum > list[w]
             num == IF m_nChanNum < 0 THEN 0 ELSE IF over THEN list[w] ELSE m_nChanNum
  <2>1. /\ pc[w] = "fill" /\ Results[w].handle \in Nat /\ Leave(w)
        /\ send_business_queueEx(w, CameraList(list[w], num, Results[w].handle, w, over))
    BY <1>0, <1>11 DEF get_camera_list_fill, At, StepOf, TypeOK
  <2>2. list[w] \in Nat /\ num \in Nat /\ over \in BOOLEAN
    BY DEF TypeOK
  <2> HIDE DEF num, over
  <2>3. Sends(w, "reply")
    BY <2>1, <2>2, SendsCameraList
  <2>4. QED
    BY <2>1, <2>3 DEF Moves
<1>12. QED
  BY <1>1, <1>2, <1>3, <1>4, <1>5, <1>6, <1>7, <1>8, <1>9, <1>10, <1>11 DEF Handler

\* What a request has been sent, after a message.
LEMMA SentAfter ==
  ASSUME TypeOK, NEW r \in Reqs, NEW w \in Workers, job[w] = r, NEW what, Sends(w, what)
  PROVE  /\ Sent(r) = <<>> => Sent(r)' = <<what>>
         /\ Sent(r) = <<"accept">> => Sent(r)' = <<"accept", what>>
<1>1. PICK msg \in Answers : msg.what = what /\ send_business_queueEx(w, msg)
  BY DEF Sends
<1>2. answers[r] \in Seq(Answers) /\ answers'[r] = Append(answers[r], msg)
  BY <1>1 DEF TypeOK, send_business_queueEx
<1> DEFINE s == answers[r]
           n == Len(s)
<1>3. n \in Nat /\ DOMAIN s = 1 .. n /\ Len(Append(s, msg)) = n + 1
  BY <1>2
<1>4. \A i \in 1 .. n + 1 : Append(s, msg)[i] = IF i <= n THEN s[i] ELSE msg
  BY <1>2
<1>5. Sent(r) = [i \in 1 .. n |-> s[i].what]
  BY <1>3 DEF Sent
<1>6. Sent(r)' = [i \in 1 .. n + 1 |-> Append(s, msg)[i].what]
  BY <1>2, <1>3 DEF Sent
<1>7. CASE Sent(r) = <<>>
  <2>1. n = 0
    BY <1>3, <1>5, <1>7
  <2>2. Sent(r)' = <<what>>
    BY <1>1, <1>4, <1>6, <2>1
  <2>3. QED
    BY <1>7, <2>2
<1>8. CASE Sent(r) = <<"accept">>
  <2>1. n = 1 /\ s[1].what = "accept"
    BY <1>3, <1>5, <1>8
  <2>2. Sent(r)' = <<"accept", what>>
    BY <1>1, <1>4, <1>6, <2>1
  <2>3. QED
    BY <1>8, <2>2
<1>9. QED
  BY <1>7, <1>8

\* The states of the desk, one by one.
LEMMA NewIs == ASSUME NEW r \in Reqs, asked[r] = None PROVE StateOf(r) = "new"
BY DEF StateOf

\* StateOf, alternative by alternative.
StateIs ==
  \A r \in Reqs : asked[r] # None =>
    /\ Sent(r) = <<>> /\ (\E w \in Workers : job[w] = r) => StateOf(r) = "taken"
    /\ Sent(r) = <<>> /\ (\A w \in Workers : job[w] # r) => StateOf(r) = "abandoned"
    /\ Sent(r) = <<"reply">> => StateOf(r) = "answered"
    /\ Sent(r) = <<"accept">> => StateOf(r) = "accepted"
    /\ Sent(r) = <<"accept", "status">> => StateOf(r) = "reported"

\* StateOf says this now, and so in the next state.
LEMMA StateIsNow == StateIs
<1> SUFFICES ASSUME NEW r \in Reqs, asked[r] # None
             PROVE  /\ Sent(r) = <<>> /\ (\E w \in Workers : job[w] = r) => StateOf(r) = "taken"
                    /\ Sent(r) = <<>> /\ (\A w \in Workers : job[w] # r) => StateOf(r) = "abandoned"
                    /\ Sent(r) = <<"reply">> => StateOf(r) = "answered"
                    /\ Sent(r) = <<"accept">> => StateOf(r) = "accepted"
                    /\ Sent(r) = <<"accept", "status">> => StateOf(r) = "reported"
  BY DEF StateIs
<1>1. /\ <<"reply">> # <<>> /\ <<"accept">> # <<>> /\ <<"accept">> # <<"reply">>
      /\ <<"accept", "status">> # <<>> /\ <<"accept", "status">> # <<"reply">>
      /\ <<"accept", "status">> # <<"accept">>
  OBVIOUS
<1>2. ASSUME Sent(r) = <<>>, \E w \in Workers : job[w] = r PROVE StateOf(r) = "taken"
  BY <1>2 DEF StateOf
<1>3. ASSUME Sent(r) = <<>>, \A w \in Workers : job[w] # r PROVE StateOf(r) = "abandoned"
  BY <1>3 DEF StateOf
<1>4. ASSUME Sent(r) = <<"reply">> PROVE StateOf(r) = "answered"
  BY <1>1, <1>4 DEF StateOf
<1>5. ASSUME Sent(r) = <<"accept">> PROVE StateOf(r) = "accepted"
  BY <1>1, <1>5 DEF StateOf
<1>6. ASSUME Sent(r) = <<"accept", "status">> PROVE StateOf(r) = "reported"
  BY <1>1, <1>6 DEF StateOf
<1>7. QED
  BY <1>2, <1>3, <1>4, <1>5, <1>6

\* The same after a step.
LEMMA StateIsThen == StateIs'
  BY StateIsNow, PTL

\* A step of a thread leaves what it does not touch of the desk.
LEMMA OthersStates ==
  ASSUME TypeOK, JobInv, SentInv, NEW w \in Workers, OnlyJobOf(w)
  PROVE  /\ \A r \in Reqs \ {job[w]} : StateOf(r)' = StateOf(r)
         /\ \A v \in Workers \ {w} : SentOf(v)'
<1>1. \A v \in Workers \ {w} : pc'[v] = pc[v] /\ job'[v] = job[v]
  BY DEF OnlyJobOf, goto, Leave, TypeOK
<1>2. job'[w] = job[w] \/ job'[w] = None
  BY DEF OnlyJobOf, goto, Leave, TypeOK
<1>3. \A r \in Reqs \ {job[w]} : Sent(r)' = Sent(r) /\ asked'[r] = asked[r]
  BY DEF OnlyJobOf, Sent
<1>4. ASSUME NEW r \in Reqs \ {job[w]} PROVE StateOf(r)' = StateOf(r)
  <2>1. (\E v \in Workers : job'[v] = r) <=> (\E v \in Workers : job[v] = r)
    <3>1. None \notin Reqs
      BY RequestsAssumption DEF Reqs
    <3>2. QED
      BY <1>1, <1>2, <3>1
  <2>2. (\A v \in Workers : job'[v] # r) <=> (\A v \in Workers : job[v] # r)
    BY <2>1
  <2>3. QED
    BY <1>3, <2>1, <2>2 DEF StateOf
<1>5. ASSUME NEW v \in Workers \ {w} PROVE SentOf(v)'
  <2>1. CASE pc[v] = "idle"
    BY <1>1, <2>1 DEF SentInv, SentOf
  <2>2. CASE pc[v] # "idle"
    <3>1. job[v] \in Reqs \ {job[w]}
      BY <2>2 DEF JobInv, OnlyJobOf
    <3>2. Sent(job[v])' = Sent(job[v])
      BY <1>1, <1>3, <3>1
    <3>3. QED
      BY <1>1, <2>2, <3>2 DEF SentInv, SentOf
  <2>3. QED
    BY <2>1, <2>2
<1>6. QED
  BY <1>4, <1>5

\* The steps of the desk that a thread's step may be, for its own request.
Advance(from, to) ==
  \/ to = from
  \/ from = "taken" /\ to \in {"answered", "accepted", "abandoned"}
  \/ from = "accepted" /\ to = "reported"

\* A worker's step advances its own request's state, or leaves it.
LEMMA OwnState ==
  ASSUME TypeOK, JobInv, SentInv, NEW w \in Workers, OnlyJobOf(w), Moves(w), NEW r \in Reqs, r = job[w]
  PROVE  Advance(StateOf(r), StateOf(r)') /\ SentOf(w)'
<1>1. asked[r] # None /\ asked' = asked /\ pc[w] # "idle" /\ SentOf(w)
  BY DEF OnlyJobOf, JobInv, SentInv
<1>2. /\ Sent(r) = <<>> => StateOf(r) = "taken"
      /\ Sent(r) = <<"accept">> => StateOf(r) = "accepted"
      /\ Sent(r) = <<"accept", "status">> => StateOf(r) = "reported"
  BY <1>1, StateIsNow DEF StateIs
<1>3. /\ Sent(r)' = <<>> /\ (\E v \in Workers : job'[v] = r) => StateOf(r)' = "taken"
      /\ Sent(r)' = <<>> /\ (\A v \in Workers : job'[v] # r) => StateOf(r)' = "abandoned"
      /\ Sent(r)' = <<"reply">> => StateOf(r)' = "answered"
      /\ Sent(r)' = <<"accept">> => StateOf(r)' = "accepted"
      /\ Sent(r)' = <<"accept", "status">> => StateOf(r)' = "reported"
  <2>1. asked'[r] # None
    BY <1>1
  <2>2. QED
    BY <2>1, StateIsThen DEF StateIs
<1>4. answers' = answers => Sent(r)' = Sent(r)
  BY DEF Sent
<1>5. \A step \in Steps : goto(w, step) => pc'[w] = step /\ job'[w] = r
  BY DEF goto, TypeOK
<1>6. Leave(w) => pc'[w] = "idle" /\ job'[w] = None /\ \A v \in Workers : job'[v] # r
  <2> SUFFICES ASSUME Leave(w) PROVE pc'[w] = "idle" /\ job'[w] = None /\ \A v \in Workers : job'[v] # r
    OBVIOUS
  <2>1. None \notin Reqs
    BY RequestsAssumption DEF Reqs
  <2>2. \A v \in Workers \ {w} : job[v] # r
    BY <1>1, <2>1 DEF JobInv, SentInv, SentOf
  <2>3. QED
    BY <2>1, <2>2 DEF Leave, TypeOK
<1>7. CASE /\ answers' = answers /\ pc[w] \notin {"idle", "status", "register"}
           /\ \E step \in Steps \ {"idle", "status", "register"} : goto(w, step)
  <2>1. Sent(r) = <<>> /\ Sent(r)' = <<>>
    BY <1>1, <1>4, <1>7 DEF SentOf
  <2>2. job'[w] = r /\ pc'[w] \notin {"idle", "status", "register"}
    BY <1>5, <1>7
  <2>3. StateOf(r)' = StateOf(r)
    BY <1>2, <1>3, <2>1, <2>2
  <2>4. QED
    BY <2>1, <2>2, <2>3 DEF Advance, SentOf
<1>8. CASE answers' = answers /\ Leave(w) /\ pc[w] \notin {"idle", "status"}
  <2>1. Sent(r) \in {<<>>, <<"accept", "status">>} /\ Sent(r)' = Sent(r)
    BY <1>1, <1>4, <1>8 DEF SentOf
  <2>2. Advance(StateOf(r), StateOf(r)')
    BY <1>2, <1>3, <1>6, <1>8, <2>1 DEF Advance
  <2>3. QED
    BY <1>6, <1>8, <2>2 DEF SentOf
<1>9. CASE Sends(w, "reply") /\ Leave(w) /\ pc[w] \notin {"idle", "status", "register"}
  <2>1. Sent(r) = <<>>
    BY <1>1, <1>9 DEF SentOf
  <2>2. Sent(r)' = <<"reply">>
    BY <1>9, <2>1, SentAfter
  <2>3. Advance(StateOf(r), StateOf(r)')
    BY <1>2, <1>3, <2>1, <2>2 DEF Advance
  <2>4. QED
    BY <1>6, <1>9, <2>3 DEF SentOf
<1>10. CASE Sends(w, "accept") /\ goto(w, "status") /\ pc[w] \notin {"idle", "status", "register"}
  <2>1. Sent(r) = <<>>
    BY <1>1, <1>10 DEF SentOf
  <2>2. Sent(r)' = <<"accept">>
    BY <1>10, <2>1, SentAfter
  <2>3. Advance(StateOf(r), StateOf(r)')
    BY <1>2, <1>3, <2>1, <2>2 DEF Advance
  <2>4. pc'[w] = "status" /\ job'[w] = r
    BY <1>5, <1>10 DEF Steps
  <2>5. QED
    BY <2>2, <2>3, <2>4 DEF SentOf
<1>11. CASE Sends(w, "status") /\ goto(w, "register") /\ pc[w] = "status"
  <2>1. Sent(r) = <<"accept">>
    BY <1>1, <1>11 DEF SentOf
  <2>2. Sent(r)' = <<"accept", "status">>
    BY <1>11, <2>1, SentAfter
  <2>3. Advance(StateOf(r), StateOf(r)')
    BY <1>2, <1>3, <2>1, <2>2 DEF Advance
  <2>4. pc'[w] = "register" /\ job'[w] = r
    BY <1>5, <1>11 DEF Steps
  <2>5. QED
    BY <2>2, <2>3, <2>4 DEF SentOf
<1>12. QED
  BY <1>7, <1>8, <1>9, <1>10, <1>11 DEF Moves

\* The states of all requests, as the desk sees them.
DeskState == [r \in Reqs |-> StateOf(r)]

\* One request moves, the others stay.
LEMMA DeskMove ==
  ASSUME NEW r \in Reqs, \A q \in Reqs \ {r} : StateOf(q)' = StateOf(q), NEW to, StateOf(r)' = to
  PROVE  Desk!Move(r, StateOf(r), to)
<1>1. DeskState' = [DeskState EXCEPT ![r] = to]
  BY DEF DeskState
<1>2. QED
  BY <1>1 DEF Desk!Move, DeskState

\* A handler's step is a step of the desk, or none.
LEMMA DeskHandlerStep ==
  ASSUME TypeOK, JobInv, StepInv, SentInv, NEW w \in Workers, Handler(w)
  PROVE  SentInv' /\ (Desk!Next \/ DeskState' = DeskState)
<1>0. OnlyJobOf(w) /\ Moves(w)
  BY HandlerTouchesItsJob, HandlerMoves
<1>1. PICK r \in Reqs : r = job[w]
  BY <1>0 DEF OnlyJobOf, JobInv
<1>2. Advance(StateOf(r), StateOf(r)') /\ SentOf(w)'
  BY <1>0, <1>1, OwnState
<1>3. /\ \A q \in Reqs \ {r} : StateOf(q)' = StateOf(q)
      /\ \A v \in Workers \ {w} : SentOf(v)'
  BY <1>0, <1>1, OthersStates
<1>4. Desk!Move(r, StateOf(r), StateOf(r)')
  BY <1>3, DeskMove
<1>5. SentInv'
  BY <1>2, <1>3 DEF SentInv
<1>6. CASE StateOf(r)' = StateOf(r)
  BY <1>3, <1>5, <1>6 DEF DeskState
<1>7. CASE StateOf(r) = "taken" /\ StateOf(r)' \in {"answered", "accepted", "abandoned"}
  BY <1>4, <1>5, <1>7 DEF Desk!Next, Desk!Settle
<1>8. CASE StateOf(r) = "accepted" /\ StateOf(r)' = "reported"
  BY <1>4, <1>5, <1>8 DEF Desk!Next, Desk!Report
<1>9. QED
  BY <1>2, <1>6, <1>7, <1>8 DEF Advance

\* Taking a request is a step of the desk.
LEMMA DeskTakeStep ==
  ASSUME TypeOK, JobInv, SentInv,
         NEW w \in Workers, NEW r \in Reqs, NEW ask \in Asks, handle_msg(w, r, ask)
  PROVE  SentInv' /\ Desk!Next
<1>1. /\ answers' = answers
      /\ asked[r] = None /\ asked' = [asked EXCEPT ![r] = ask]
      /\ pc[w] = "idle" /\ pc' = [pc EXCEPT ![w] = EntryStep(ask.kind)]
      /\ job' = [job EXCEPT ![w] = r]
  BY DEF handle_msg, At
<1>2. answers[r] = <<>> /\ job[w] = None /\ None \notin Reqs /\ ask # None
  BY <1>1, RequestsAssumption DEF JobInv, SentInv, SentOf, Reqs
<1>3. \A q \in Reqs : Sent(q)' = Sent(q)
  BY <1>1 DEF Sent
<1>4. Sent(r) = <<>>
  BY <1>2 DEF Sent
<1>5. asked'[r] # None /\ job'[w] = r /\ pc'[w] \notin {"idle", "status", "register"}
  BY <1>1, <1>2 DEF TypeOK, EntryStep
<1>6. StateOf(r) = "new"
  BY <1>1, NewIs
<1>7. StateOf(r)' = "taken"
  BY <1>3, <1>4, <1>5, StateIsThen DEF StateIs
<1>8. ASSUME NEW q \in Reqs \ {r} PROVE StateOf(q)' = StateOf(q)
  <2>1. (\E v \in Workers : job'[v] = q) <=> (\E v \in Workers : job[v] = q)
    BY <1>1, <1>2 DEF TypeOK
  <2>2. (\A v \in Workers : job'[v] # q) <=> (\A v \in Workers : job[v] # q)
    BY <2>1
  <2>3. asked'[q] = asked[q]
    BY <1>1 DEF TypeOK
  <2>4. QED
    BY <1>3, <2>1, <2>2, <2>3 DEF StateOf
<1>9. Desk!Next
  <2>1. Desk!Move(r, "new", "taken")
    BY <1>6, <1>7, <1>8, DeskMove
  <2>2. QED
    BY <2>1 DEF Desk!Next, Desk!Take
<1>10. ASSUME NEW v \in Workers PROVE SentOf(v)'
  <2>1. CASE v = w
    <3>1. Sent(job[w])' = <<>>
      BY <1>3, <1>4, <1>5
    <3>2. QED
      BY <1>5, <2>1, <3>1 DEF SentOf
  <2>2. CASE v # w
    <3>1. pc'[v] = pc[v] /\ job'[v] = job[v]
      BY <1>1, <2>2 DEF TypeOK
    <3>2. pc[v] # "idle" => Sent(job[v])' = Sent(job[v])
      BY <1>3, <3>1 DEF JobInv
    <3>3. QED
      BY <3>1, <3>2 DEF SentInv, SentOf
  <2>3. QED
    BY <2>1, <2>2
<1>11. QED
  BY <1>9, <1>10 DEF SentInv

(***************************************************************************)
(* The handlers of server_manage answer or abandon each request once, never*)
(* both and never again, and report a new device after its answer: every   *)
(* step of a thread is a step of RequestDesk or leaves its state alone.    *)
(* This is all of ImplementsRequestDesk but its fairness.                  *)
(***************************************************************************)
THEOREM DeskRefinement == Spec => Desk!Init /\ [][Desk!Next]_DeskState
<1>1. Init => SentInv /\ Desk!Init
  <2> SUFFICES ASSUME Init PROVE SentInv /\ Desk!Init
    OBVIOUS
  <2>1. SentInv
    BY DEF Init, SentInv, SentOf
  <2>2. \A r \in Reqs : StateOf(r) = "new"
    BY NewIs DEF Init
  <2>3. QED
    BY <2>1, <2>2 DEF Desk!Init
<1>2. DeskInv /\ SentInv /\ [Next]_vars => SentInv' /\ [Desk!Next]_DeskState
  <2> SUFFICES ASSUME DeskInv, SentInv, [Next]_vars PROVE SentInv' /\ [Desk!Next]_DeskState
    OBVIOUS
  <2>0. TypeOK /\ JobInv /\ StepInv
    BY DEF DeskInv
  <2>1. ASSUME NEW w \in Workers, Handler(w) PROVE SentInv' /\ [Desk!Next]_DeskState
    BY <2>0, <2>1, DeskHandlerStep
  <2>2. ASSUME NEW w \in Workers, NEW r \in Reqs, NEW ask \in Asks, handle_msg(w, r, ask)
        PROVE  SentInv' /\ [Desk!Next]_DeskState
    BY <2>0, <2>2, DeskTakeStep
  <2>3. CASE UNCHANGED vars
    <3>1. UNCHANGED <<asked, answers, job, pc>>
      BY <2>3 DEF vars
    <3>2. \A r : Sent(r)' = Sent(r)
      BY <3>1 DEF Sent
    <3>3. QED
      BY <3>1, <3>2 DEF SentInv, SentOf, DeskState, StateOf
  <2>4. QED
    BY <2>1, <2>2, <2>3 DEF Next
<1>3. QED
  BY <1>1, <1>2, DeskInvariant, PTL DEF Spec
=============================================================================
