------------------------------- MODULE Requests -------------------------------
(***************************************************************************)
(* The handlers of server_manage that talk to the recorders: each runs on  *)
(* a thread of sdk_thread, several at a time, and they share one sdk_wrap  *)
(* with its cache of logins, its channel count and its last PTZ command.   *)
(*                                                                         *)
(* A request comes well formed.  Playing and stopping streams is module    *)
(* PlaySessions, the list and the file of platforms PlatformStore, and     *)
(* what happens to an answer after send_business_queueEx BusinessSender.   *)
(* LoginResults without a value is Uninit; using it yields whatever the    *)
(* stack held: any handle, any number out of Garbage.                      *)
(***************************************************************************)
EXTENDS Integers, Sequences

CONSTANTS Workers,    \* threads of sdk_thread
          MaxReqs,    \* bound: requests
          Devs,       \* deviceIds
          Keys,       \* recorders: "ip:port:user"
          KeyOf,      \* [Devs -> Keys]: where the platform of a deviceId is
          Chans,      \* [Keys -> Nat]: how many channels a recorder has
          Known,      \* deviceIds in platforms.json at the start
          Asks,       \* bound: what a request may ask
          Garbage,    \* bound: what an uninitialised chanNum may be
          None, Uninit

\* What a PTZ request asks: to start to turn (with zoom, and with every
\* code that is not in the table), to start moving focus or iris, to stop
\* (code 0), to stop focus and iris (code 64), or to go to, set or delete
\* a preset.
Stops == {"stop", "stopFocus"}
PtzCmds == {"turn", "focus", "goto"} \cup Stops

\* "ack": CHANNEL_DELETE_*, DEVICE_DELETE, DEVICE_DELETE_RECOVER and, seen
\* from here, DEVICE_DELETE_SOFT and DEVICE_TOTAL_SYNC.
Kinds == {"add", "addNoIp", "sync", "preset", "record", "ack"} \cup PtzCmds

\* msgIds, in the order the requests are taken from the pool's queue.
Reqs == 1 .. MaxReqs

ASSUME RequestsAssumption ==
  /\ MaxReqs \in Nat
  /\ KeyOf \in [Devs -> Keys] /\ Chans \in [Keys -> Nat] /\ Known \subseteq Devs
  /\ Asks \subseteq [kind : Kinds, dev : Devs]
  /\ Garbage \subseteq Int /\ Garbage # {}
  /\ None \notin Int /\ None \notin Workers /\ None \notin Asks /\ Uninit \notin Int

VARIABLES platforms,     \* keys of _platform_map
          Equipment_map, \* [Keys -> session or 0]
          loginLock,     \* holder of m_loginLock
          sessions,      \* the SDK's logins: whose the n-th one is (_uid = n)
          m_nChanNum, temp_ptz_cmd,
          moving,        \* [Keys -> motions the recorder's camera is in]
          asked,         \* [Reqs -> what it asks, or None]
          found,         \* requests whose recorder's address is known
          answers,       \* [Reqs -> messages queued with its msgId]
          pc, job,       \* threads: their step and their request
          Results,       \* ... LoginResults
          list,          \* ... size of the list of cameras
          cmd,           \* ... PTZ command
          alone          \* history: m_nChanNum is still what the thread wrote

sdkVars == <<Equipment_map, loginLock, sessions>>
ptzVars == <<temp_ptz_cmd, moving, cmd>>
syncVars == <<m_nChanNum, list, alone>>
vars == <<platforms, sdkVars, syncVars, ptzVars, asked, found, answers, pc, job, Results>>

Steps == {"idle", "lookup", "login", "sdkLogin", "call", "size", "fetch", "fill",
          "remember", "status", "register", "ack"}
Motions == {"turn", "focus"}
Answers == [what : {"reply", "accept", "status"}, code : {0, 1}, from : Nat,
            total : Nat, num : Nat, alone : BOOLEAN, over : BOOLEAN]
Unset == [handle |-> Uninit, chan |-> Uninit]

TypeOK ==
  /\ platforms \subseteq Devs
  /\ Equipment_map \in [Keys -> Nat]
  /\ loginLock \in Workers \cup {None}
  /\ sessions \in Seq(Keys)
  /\ m_nChanNum \in Int
  /\ temp_ptz_cmd \in Motions
  /\ moving \in [Keys -> SUBSET Motions]
  /\ asked \in [Reqs -> Asks \cup {None}]
  /\ found \subseteq Reqs
  /\ answers \in [Reqs -> Seq(Answers)]
  /\ pc \in [Workers -> Steps]
  /\ job \in [Workers -> Reqs \cup {None}]
  /\ Results \in [Workers -> [handle : Nat \cup {Uninit}, chan : Nat \cup {Uninit}]]
  /\ list \in [Workers -> Nat]
  /\ cmd \in [Workers -> Motions \cup {None}]
  /\ alone \in [Workers -> BOOLEAN]

\* sdk_wrap is a member of a static object: what its constructor leaves
\* alone is 0, and 0 is DH_PTZ_UP_CONTROL.
Init ==
  /\ platforms = Known
  /\ Equipment_map = [k \in Keys |-> 0]
  /\ loginLock = None
  /\ sessions = <<>>
  /\ m_nChanNum = 0 /\ temp_ptz_cmd = "turn"
  /\ moving = [k \in Keys |-> {}]
  /\ asked = [r \in Reqs |-> None]
  /\ found = {}
  /\ answers = [r \in Reqs |-> <<>>]
  /\ pc = [w \in Workers |-> "idle"]
  /\ job = [w \in Workers |-> None]
  /\ Results = [w \in Workers |-> Unset]
  /\ list = [w \in Workers |-> 0]
  /\ cmd = [w \in Workers |-> None]
  /\ alone = [w \in Workers |-> TRUE]

Kind(w) == asked[job[w]].kind
Dev(w) == asked[job[w]].dev
At(w, step) == pc[w] = step
goto(w, step) == pc' = [pc EXCEPT ![w] = step] /\ UNCHANGED job

\* The handler returns, or an exception leaves it; thread_pool::run catches it.
Leave(w) ==
  /\ pc' = [pc EXCEPT ![w] = "idle"]
  /\ job' = [job EXCEPT ![w] = None]
  /\ Results' = [Results EXCEPT ![w] = Unset]

\* Login, or the SDK's use of a handle, gives it a value; chanNum stays.
SetHandle(w, n) == Results' = [Results EXCEPT ![w] = [handle |-> n, chan |-> @.chan]]

Message(what, code, from) ==
  [what |-> what, code |-> code, from |-> from, total |-> 0, num |-> 0, alone |-> TRUE, over |-> FALSE]

\* gm.response, gm.ptz_preset_list, gm.response_record_list
Response(code, from) == Message("reply", code, from)
\* gm.device_add: step 1 is the answer, step 2 the report of a device.
DeviceAdd(step, code, from) ==
  CASE step = 2 -> Message("status", 0, 0)
    [] step = 1 /\ code = 0 -> Message("accept", 0, from)
    [] step = 1 /\ code # 0 -> Message("reply", code, 0)

send_business_queueEx(w, msg) ==
  answers' = [answers EXCEPT ![job[w]] = Append(@, msg)]
-----------------------------------------------------------------------------
(***************************************************************************)
(* A thread takes a request.  device_add gives the platform a fresh id and *)
(* needs no lookup.                                                        *)
(***************************************************************************)
EntryStep(kind) ==
  CASE kind = "add" -> "login" [] kind \in {"ack", "addNoIp"} -> "ack" [] OTHER -> "lookup"

\* The id out of Platform's constructor.
FreshId(ask) == ask.dev \notin platforms /\ \A q \in Reqs : asked[q] # ask

handle_msg(w, r, ask) ==
  /\ At(w, "idle") /\ asked[r] = None /\ \A q \in 1 .. r - 1 : asked[q] # None
  /\ ask.kind = "add" => FreshId(ask)
  /\ asked' = [asked EXCEPT ![r] = ask]
  /\ pc' = [pc EXCEPT ![w] = EntryStep(ask.kind)]
  /\ job' = [job EXCEPT ![w] = r]
  /\ found' = IF ask.kind = "add" THEN found \cup {r} ELSE found
  /\ UNCHANGED <<platforms, sdkVars, syncVars, ptzVars, answers, Results>>

\* An unknown device does not end the handler: it goes on with LoginResults
\* as it is.
get_platform(w) ==
  /\ At(w, "lookup")
  /\ IF Dev(w) \in platforms
     THEN found' = found \cup {job[w]} /\ goto(w, "login")
     ELSE goto(w, "call") /\ UNCHANGED found
  /\ UNCHANGED <<platforms, sdkVars, syncVars, ptzVars, asked, answers, Results>>
-----------------------------------------------------------------------------
(***************************************************************************)
(* EquipmentMgr::Login.  The lock is held while the SDK talks to the       *)
(* recorder.  The password is not part of the key.                         *)
(***************************************************************************)
\* Mutant: two recorders behind one address share an entry.
CacheKey_IpOnly(d) == CHOOSE k \in Keys : TRUE
CacheKey(d) == KeyOf[d]

AfterLogin(w) == IF Kind(w) = "add" THEN "status" ELSE "call"

\* device_add answers as soon as it is logged in.
Accept(w, n) ==
  IF Kind(w) = "add" THEN send_business_queueEx(w, DeviceAdd(1, 0, n)) ELSE UNCHANGED answers

\* Mutant: the map is searched before the lock is taken.
Login_lookup_Unlocked(w) ==
  /\ At(w, "login")
  /\ LET n == Equipment_map[CacheKey(Dev(w))] IN
     IF n # 0
     THEN /\ Results' = [Results EXCEPT ![w] = [handle |-> n, chan |-> Chans[KeyOf[Dev(w)]]]]
          /\ Accept(w, n)
          /\ goto(w, AfterLogin(w))
          /\ UNCHANGED loginLock
     ELSE loginLock' = w /\ goto(w, "sdkLogin") /\ UNCHANGED <<Results, answers>>
  /\ UNCHANGED <<platforms, Equipment_map, sessions, syncVars, ptzVars, asked, found>>

Login_lookup(w) ==
  /\ At(w, "login") /\ loginLock = None
  /\ LET n == Equipment_map[CacheKey(Dev(w))] IN
     IF n # 0
     THEN /\ Results' = [Results EXCEPT ![w] = [handle |-> n, chan |-> Chans[KeyOf[Dev(w)]]]]
          /\ Accept(w, n)
          /\ goto(w, AfterLogin(w))
          /\ UNCHANGED loginLock
     ELSE loginLock' = w /\ goto(w, "sdkLogin") /\ UNCHANGED <<Results, answers>>
  /\ UNCHANGED <<platforms, Equipment_map, sessions, syncVars, ptzVars, asked, found>>

Login_success(w) ==
  /\ At(w, "sdkLogin")
  /\ LET n == Len(sessions) + 1 IN
     /\ sessions' = Append(sessions, KeyOf[Dev(w)])
     /\ Equipment_map' = [Equipment_map EXCEPT ![CacheKey(Dev(w))] = n]
     /\ Results' = [Results EXCEPT ![w] = [handle |-> n, chan |-> Chans[KeyOf[Dev(w)]]]]
     /\ Accept(w, n)
  /\ loginLock' = None
  /\ goto(w, AfterLogin(w))
  /\ UNCHANGED <<platforms, syncVars, ptzVars, asked, found>>

\* Mutant: the lock is left taken on the way out.
Login_failure_KeepsLock(w) ==
  /\ At(w, "sdkLogin")
  /\ IF Kind(w) = "add"
     THEN send_business_queueEx(w, DeviceAdd(1, 1, 0)) /\ Leave(w)
     ELSE /\ SetHandle(w, 0)
          /\ goto(w, "call") /\ UNCHANGED answers
  /\ UNCHANGED <<platforms, sdkVars, syncVars, ptzVars, asked, found>>

\* device_add answers with a failure; the others go on without a login, and
\* with chanNum as it is.
Login_failure(w) ==
  /\ At(w, "sdkLogin")
  /\ loginLock' = None
  /\ IF Kind(w) = "add"
     THEN send_business_queueEx(w, DeviceAdd(1, 1, 0)) /\ Leave(w)
     ELSE /\ SetHandle(w, 0)
          /\ goto(w, "call") /\ UNCHANGED answers
  /\ UNCHANGED <<platforms, Equipment_map, sessions, syncVars, ptzVars, asked, found>>

\* LoginErrMsg.at throws for an error that is not in the table.
Login_throws(w) ==
  /\ At(w, "sdkLogin")
  /\ loginLock' = None
  /\ Leave(w)
  /\ UNCHANGED <<platforms, Equipment_map, sessions, syncVars, ptzVars, asked, found, answers>>
-----------------------------------------------------------------------------
(***************************************************************************)
(* device_add after its answer: a second later the report, then the map.   *)
(***************************************************************************)
device_add_report(w) ==
  /\ At(w, "status")
  /\ send_business_queueEx(w, DeviceAdd(2, 0, 0))
  /\ goto(w, "register")
  /\ UNCHANGED <<platforms, sdkVars, syncVars, ptzVars, asked, found, Results>>

add_platform(w) ==
  /\ At(w, "register")
  /\ platforms' = platforms \cup {Dev(w)}
  /\ Leave(w)
  /\ UNCHANGED <<sdkVars, syncVars, ptzVars, asked, found, answers>>

\* gm.response(msgId, 0, msgType)
response(w) ==
  /\ At(w, "ack") /\ Kind(w) = "ack"
  /\ send_business_queueEx(w, Response(0, 0))
  /\ Leave(w)
  /\ UNCHANGED <<platforms, sdkVars, syncVars, ptzVars, asked, found>>
\* device_add without an ip gives up.
device_add_noIp(w) ==
  /\ At(w, "ack") /\ Kind(w) = "addNoIp"
  /\ Leave(w)
  /\ UNCHANGED <<platforms, sdkVars, syncVars, ptzVars, asked, found, answers>>
-----------------------------------------------------------------------------
(***************************************************************************)
(* Calls of the SDK.  One with a login of it may succeed or fail, one with *)
(* another number fails.                                                   *)
(***************************************************************************)
UsedHandles(w) == IF Results[w].handle = Uninit THEN 0 .. Len(sessions) ELSE {Results[w].handle}
UsedChan(w) == IF Results[w].chan = Uninit THEN Garbage ELSE {Results[w].chan}
Sessions(w) == UsedHandles(w) \ {0}

\* Outcomes: the error code, and the login that the data are from.
query_ptz_preset(w) == {<<0, n>> : n \in Sessions(w)} \cup {<<1, 0>>}

\* A network error counts as success: one record over the whole time.
query_record_file(w) == {<<0, n>> : n \in Sessions(w)} \cup {<<1, 0>>, <<0, 0>>}

channel_ptz_preset(w) ==
  /\ At(w, "call") /\ Kind(w) = "preset"
  /\ \E o \in query_ptz_preset(w) : send_business_queueEx(w, Response(o[1], o[2]))
  /\ Leave(w)
  /\ UNCHANGED <<platforms, sdkVars, syncVars, ptzVars, asked, found>>

channel_record_info(w) ==
  /\ At(w, "call") /\ Kind(w) = "record"
  /\ \E o \in query_record_file(w) : send_business_queueEx(w, Response(o[1], o[2]))
  /\ Leave(w)
  /\ UNCHANGED <<platforms, sdkVars, syncVars, ptzVars, asked, found>>
-----------------------------------------------------------------------------
(***************************************************************************)
(* get_camera_list.  m_nChanNum is a member, read again and again: once    *)
(* for the sizes of the buffers and once for the loop over them here.      *)
(***************************************************************************)
\* Mutant: the member is kept once it is set.
get_camera_list_begin_Kept(w) ==
  /\ At(w, "call") /\ Kind(w) = "sync"
  /\ m_nChanNum' \in IF m_nChanNum = 0 THEN UsedChan(w) ELSE {m_nChanNum}
  /\ alone' = [v \in Workers |-> v = w]
  /\ goto(w, "size")
  /\ UNCHANGED <<platforms, sdkVars, ptzVars, asked, found, answers, Results, list>>

get_camera_list_begin(w) ==
  /\ At(w, "call") /\ Kind(w) = "sync"
  /\ m_nChanNum' \in UsedChan(w)
  /\ alone' = [v \in Workers |-> v = w]
  /\ goto(w, "size")
  /\ UNCHANGED <<platforms, sdkVars, ptzVars, asked, found, answers, Results, list>>

CameraList(total, num, from, w, over) ==
  [what |-> "reply", code |-> IF total = 0 THEN 1 ELSE 0, from |-> from,
   total |-> total, num |-> num, alone |-> alone[w], over |-> over]

\* Mutant: a negative number is taken for a size.
get_camera_list_size_Negative(w) ==
  /\ At(w, "size")
  /\ IF m_nChanNum = 0
     THEN send_business_queueEx(w, CameraList(0, 0, 0, w, FALSE)) /\ Leave(w) /\ UNCHANGED list
     ELSE /\ list' = [list EXCEPT ![w] = m_nChanNum]
          /\ goto(w, "fetch")
          /\ UNCHANGED <<answers, Results>>
  /\ UNCHANGED <<platforms, sdkVars, ptzVars, asked, found, m_nChanNum, alone>>

\* resize throws for a negative number.
get_camera_list_size(w) ==
  /\ At(w, "size")
  /\ \/ m_nChanNum < 0 /\ Leave(w) /\ UNCHANGED <<answers, list>>
     \/ /\ m_nChanNum = 0
        /\ send_business_queueEx(w, CameraList(0, 0, 0, w, FALSE))
        /\ Leave(w)
        /\ UNCHANGED list
     \/ /\ m_nChanNum > 0
        /\ list' = [list EXCEPT ![w] = m_nChanNum]
        /\ goto(w, "fetch")
        /\ UNCHANGED <<answers, Results>>
  /\ UNCHANGED <<platforms, sdkVars, ptzVars, asked, found, m_nChanNum, alone>>

\* CLIENT_GetDevConfig and CLIENT_MatrixGetCameras.  channel_sync ignores the
\* error: the list has its size then, and no camera in it has a name.
get_camera_list_fetch(w) ==
  /\ At(w, "fetch")
  /\ \/ /\ \E n \in Sessions(w) : SetHandle(w, n)
        /\ goto(w, "fill")
        /\ UNCHANGED <<answers, list>>
     \/ /\ send_business_queueEx(w, CameraList(list[w], 0, 0, w, FALSE))
        /\ list' = [list EXCEPT ![w] = 0]
        /\ Leave(w)
  /\ UNCHANGED <<platforms, sdkVars, ptzVars, asked, found, m_nChanNum, alone>>

\* "over": the loop went beyond the buffers.  What it overwrote is not
\* followed further.
get_camera_list_fill(w) ==
  /\ At(w, "fill")
  /\ LET over == m_nChanNum > list[w]
         num == IF m_nChanNum < 0 THEN 0 ELSE IF over THEN list[w] ELSE m_nChanNum IN
     send_business_queueEx(w, CameraList(list[w], num, Results[w].handle, w, over))
  /\ list' = [list EXCEPT ![w] = 0]
  /\ Leave(w)
  /\ UNCHANGED <<platforms, sdkVars, ptzVars, asked, found, m_nChanNum, alone>>
-----------------------------------------------------------------------------
(***************************************************************************)
(* ptz_control.  Code 0 and code 64 stop: they send the command that was   *)
(* sent last, by whomever and to whichever recorder, with dwStop.          *)
(***************************************************************************)
PtzCommand(w) == IF Kind(w) \in Stops THEN temp_ptz_cmd ELSE Kind(w)

\* A preset command is answered at once and not remembered.
ptz_control_preset(w) ==
  /\ At(w, "call") /\ Kind(w) = "goto"
  /\ \/ \E n \in Sessions(w) : send_business_queueEx(w, Response(0, n))
     \/ send_business_queueEx(w, Response(1, 0))
  /\ Leave(w)
  /\ UNCHANGED <<platforms, sdkVars, syncVars, ptzVars, asked, found>>

\* n: the login whose recorder obeys.
CLIENT_DHPTZControlEx2(w, n) ==
  /\ At(w, "call") /\ Kind(w) \in PtzCmds \ {"goto"}
  /\ n \in Sessions(w)
  /\ moving' = [moving EXCEPT ![sessions[n]] =
                  IF Kind(w) \in Stops THEN @ \ {PtzCommand(w)} ELSE @ \cup {PtzCommand(w)}]
  /\ cmd' = [cmd EXCEPT ![w] = PtzCommand(w)]
  /\ goto(w, "remember")
  /\ UNCHANGED <<platforms, sdkVars, syncVars, temp_ptz_cmd, asked, found, answers, Results>>

\* The failure is logged.
ptz_control_fails(w) ==
  /\ At(w, "call") /\ Kind(w) \in PtzCmds \ {"goto"}
  /\ cmd' = [cmd EXCEPT ![w] = PtzCommand(w)]
  /\ goto(w, "remember")
  /\ UNCHANGED <<platforms, sdkVars, syncVars, temp_ptz_cmd, moving, asked, found, answers, Results>>

\* The command is remembered and answered with 0, whatever came of it.
ptz_control_remember(w) ==
  /\ At(w, "remember")
  /\ temp_ptz_cmd' = cmd[w]
  /\ cmd' = [cmd EXCEPT ![w] = None]
  /\ send_business_queueEx(w, Response(0, 0))
  /\ Leave(w)
  /\ UNCHANGED <<platforms, sdkVars, syncVars, moving, asked, found>>
-----------------------------------------------------------------------------
Handler(w) ==
  \/ get_platform(w)
  \/ Login_lookup(w) \/ Login_success(w) \/ Login_failure(w) \/ Login_throws(w)
  \/ device_add_report(w) \/ add_platform(w) \/ response(w) \/ device_add_noIp(w)
  \/ channel_ptz_preset(w) \/ channel_record_info(w)
  \/ get_camera_list_begin(w) \/ get_camera_list_size(w)
  \/ get_camera_list_fetch(w) \/ get_camera_list_fill(w)
  \/ ptz_control_preset(w) \/ (\E n \in Sessions(w) : CLIENT_DHPTZControlEx2(w, n))
  \/ ptz_control_fails(w) \/ ptz_control_remember(w)

Next == \E w \in Workers : Handler(w) \/ \E r \in Reqs, ask \in Asks : handle_msg(w, r, ask)

Spec == Init /\ [][Next]_vars

\* The SDK's calls return, so each handler goes on; the lock is waited for
\* by finitely many requests only.
FairSpec == Spec /\ \A w \in Workers : WF_vars(Handler(w))
-----------------------------------------------------------------------------
(***************************************************************************)
(* However many requests name a recorder at the same time, the gateway     *)
(* logs in to it once (EquipmentMgr::Login), and the cached login is that  *)
(* recorder's.                                                             *)
(***************************************************************************)
LoggedInOnce ==
  /\ \A i, j \in DOMAIN sessions : sessions[i] = sessions[j] => i = j
  /\ \A k \in Keys : Equipment_map[k] # 0 =>
       Equipment_map[k] \in DOMAIN sessions /\ sessions[Equipment_map[k]] = k

(***************************************************************************)
(* An answer has its data from the recorder of the device the request is   *)
(* about, whatever the other threads do with the one sdk_wrap, as long as  *)
(* the device was known; and presets are never answered with success       *)
(* without a login, although the handlers ignore connet_equipment's result.*)
(***************************************************************************)
RightRecorder ==
  \A r \in found : \A i \in DOMAIN answers[r] : LET a == answers[r][i] IN
    /\ a.from # 0 => a.from \in DOMAIN sessions /\ sessions[a.from] = KeyOf[asked[r].dev]
    /\ asked[r].kind \in {"preset", "goto", "add"} /\ a.what # "status" /\ a.code = 0 => a.from # 0

(***************************************************************************)
(* channel_sync answers with the channels of its recorder, all of them,    *)
(* and get_camera_list stays within its buffers, unless another thread     *)
(* assigned m_nChanNum since.                                              *)
(***************************************************************************)
CameraListExact ==
  \A r \in Reqs : \A i \in DOMAIN answers[r] : LET a == answers[r][i] IN
    a.alone => /\ ~a.over
               /\ r \in found /\ asked[r].kind = "sync" /\ a.from # 0 =>
                    a.total = Chans[KeyOf[asked[r].dev]] /\ a.num = a.total

(***************************************************************************)
(* Each request that was taken is answered or abandoned, once, eventually: *)
(* neither an exception nor the wait for m_loginLock leaves a handler      *)
(* half done, and the report of a new device follows its answer.           *)
(***************************************************************************)
Sent(r) == [i \in DOMAIN answers[r] |-> answers[r][i].what]
StateOf(r) ==
  IF asked[r] = None THEN "new"
  ELSE CASE Sent(r) = <<>> /\ (\E w \in Workers : job[w] = r) -> "taken"
         [] Sent(r) = <<>> /\ (\A w \in Workers : job[w] # r) -> "abandoned"
         [] Sent(r) = <<"reply">> -> "answered"
         [] Sent(r) = <<"accept">> -> "accepted"
         [] Sent(r) = <<"accept", "status">> -> "reported"
         [] OTHER -> "broken"
Desk == INSTANCE RequestDesk WITH state <- [r \in Reqs |-> StateOf(r)]
ImplementsRequestDesk == Desk!Spec

(***************************************************************************)
(* The comment on code 64: it stops iris and focus.                        *)
(***************************************************************************)
StopEndsFocus ==
  [][\A w \in Workers : \A n \in DOMAIN sessions :
       CLIENT_DHPTZControlEx2(w, n) /\ Kind(w) = "stopFocus" => "focus" \notin moving'[sessions[n]]]_vars
=============================================================================
