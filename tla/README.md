# Verification project for the Dahua SDK edge gateway

The gateway sits at the edge of a video platform. It takes requests (JSON) from a RabbitMQ business queue, drives Dahua
recorders and cameras through their SDK, has the devices' streams packed as RTP and sent to a media server, and answers
over RabbitMQ. This directory holds TLA+ modules of its core, TLC configurations that check them on small instances,
and TLAPS proofs of what matters most for every size. `PROJECT.json` maps each definition to the lines it models and
lists runs, mutants, hazards, findings and theorems. Paths below are relative to `src/src/`.

## 1. Inventory

### Threads

| thread | code | does |
|---|---|---|
| main | `server_manage::start_server` | loads the platforms, connects, signs in, waits, reports the platforms |
| listener | `MQ_msg_func` → `start_public_queue`, `start_business_queue`, `restart_business_queue` | reads the queues |
| handler | `handle_msg_func` | moves each request from the message list into the pool |
| 5 pool threads | `dc_thread_pool/thread_pool.h` | run one request each |
| business sender | `client_manage::sent_business_func` | publishes the responses one after the other |
| disconnect | `disconnet_func` | destroys the connection a failed publish left |
| heartbeat | `heartbeat_func` | publishes a heartbeat at intervals |
| Dahua SDK | `rtp_packet_callback_func_netsdk` → `sendMS` | delivers stream data |
| XHNetSDK | `onclose` (`DHGatewayServer.cpp`) | reports closed media connections |

### Components

| component | state | operations | what makes it correct | module |
|---|---|---|---|---|
| task pool (`dc_thread_pool/`) | list, semaphore, thread group | `input_task(_first)`, `get_task`, `run`, `stop` (its join) | each task once, eventually; no worker lost | `ThreadPool` |
| message list (`server_manage.cpp:76-101`) | vector, mutex, counting event | `insert_task`, `erase_task` | each request once, in order, no lost wake-up | `Inbox` |
| platform registry (`server_manage.cpp`) | map, list, `platforms.json` | load, add, soft delete, report | map, list and file agree; saved work survives | `PlatformStore` |
| play sessions (`PlaySession.cpp`, `sdk_wrap.cpp:333-427`) | map of shared pointers, SDK handles, media connections | play, play back, stop, `onclose`, write error | no shared pointer to a destroyed session, no leak, no stream without a session but in known cases | `PlaySessions` |
| RTP sender (`PlaySession.cpp:644-703`) | 64 KiB buffer, 32-bit counter | `sendMS` | gapless stream, bounded buffer | `RtpSender` |
| business sender (`client_manage.cpp:68-87, 424-503`, `rabbitMQ.cpp`) | list, two connections | queue, publish, reconnect, disconnect | order, at most one doubled copy, no destroyed connection used | `BusinessSender` |
| sign-in and listening (`client_manage.cpp:36-56, 89-223, 261-422`) | two clients, events, broker's queues | sign in, listen, restart, heartbeat | no answer lost, no request twice, always listening again | `GatewaySign` |
| request handlers (`server_manage.cpp:407-815`) | none of their own | one per message type | each request answered once, with the right device's data | `Requests` |
| device logins (`sdk_wrap.cpp:5-53`) | cache of logins, one lock | `Login` | one login per recorder; the lock is always given back | `Requests` |
| playback control (`PlaySession.cpp:402-521`) | `m_bPause`, `m_nSpeed` | pause, resume, speed, stop | a command that succeeded is in force | `PlaybackControl` |
| camera list, PTZ, presets, records (`sdk_wrap.cpp`) | `m_nChanNum`, `temp_ptz_cmd`, shared by all threads | queries, command table | the whole list of the right recorder; a stop stops what it names; records are those of the range | `Requests`, `RecordQuery` |
| messages (`gateway_msg.cpp`) | `msg_id`, `msg_id_b`, `msg_id_h` | parse, build | an answer says what happened; a message has an id of its own | `Requests`, `MessageIds`, well-formed messages |
| configuration, log, MySQL, old client, vendored headers | - | - | - | not modelled |

### How they interact

The broker pushes a request to the listener, which appends it to the message list. The handler takes it and submits a
pool task. The task parses it, logs in to the device if needed, calls the SDK (play requests create a `PlaySession`
and put it into `SessionMange`), and appends a response to the business sender's list. The SDK's stream thread calls
back into the session with a raw pointer and writes to the media server; `onclose` comes back on a third library's
thread and takes the session out of the map. Nothing but the lists, the platform map and the session map is locked:
sessions, `rabbitmqClient`s, `gateway_msg`s and the counters in them are shared bare.

### What is hard

* **Unlocked looks.** `empty()` is asked before the mutex is taken (message list, business sender); `soft_del` is
  tested before it is used; `nMediaClient` is tested before the write.
* **Wake-ups.** Semaphore and event count signals, not elements; both are signalled after the list's mutex was released.
* **Deletion by key or handle.** `stop_play` deletes by key what it found by key earlier; `onclose` looks for a handle
  that another thread zeroes.
* **Retries.** A response whose confirmation is late is published again; heartbeats are retried in three places.
* **Channels that end.** Every timeout on the business queue closes the channel; what the broker does with messages
  depends on who acknowledges, and on consumers the gateway forgets.
* **Relative commands.** The recorder is told "faster" or "slower"; how fast it is now is only remembered.
* **Members as locals.** `m_bPause`, `m_nSpeed`, `msg_id` and the string a msgId is put together in are assigned, used
  and set back across calls, by any thread of the pool.
* **Crash.** `platforms.json` is truncated and then written.
* **Numbers.** A 32-bit counter that wraps and has a reserved value, signed minus signed compared with unsigned, members
  that are read without having been assigned.

`PROJECT.json` lists each of these as a hazard at its line, with the properties that cover it, and a note where the code
itself goes wrong, so that a property excepts it or there is none.

## 2. Modules

| module | models | abstract counterpart |
|---|---|---|
| `TaskPool` | promise: pending → running → done, once | |
| `ThreadPool` | the pool | `TaskPool` (`ImplementsTaskPool`) |
| `MessageFifo` | promise: every message once, in order, eventually | |
| `Inbox` | the message list | `MessageFifo` (`ImplementsFifo`) |
| `RtpStream` | promise: the receiver sees a prefix of what was accepted, nothing after a failure | |
| `RtpSender` | `sendMS` with the session's phases | `RtpStream` (`ImplementsRtpStream`) |
| `PlaySessions` | the session map, the requests on it, the callbacks | |
| `PlatformStore` | map, list and file; `start_server`'s loop; crashes | |
| `BusinessSender` | sender, disconnect thread, broker | |
| `GatewaySign` | main, listener, heartbeat, broker | |
| `RequestDesk` | promise: answered or abandoned, once, eventually | |
| `Requests` | the handlers on `sdk_wrap`: logins, camera lists, PTZ, presets, records | `RequestDesk` (`ImplementsRequestDesk`) |
| `PlaybackControl` | pause, resume, speed and stop of one recorded stream, and the recorder | |
| `MessageIds` | the msgIds of a `gateway_msg` | |
| `RecordQuery` | the clipping of records to a range (no state) | `RecordsExact` |
| `PoolRequests` | the pool threads and `start_server` on the last three | |
| `ThreadPoolProofs`, `RtpSenderProofs`, `PlaySessionsProofs`, `PlatformStoreProofs`, `BusinessSenderProofs`, `RequestsProofs` | theorems about the module of that name and their lemmas | |
| `ListeningProofs` | theorems about `Inbox` and `GatewaySign`, which feeds it | |
| `PoolRequestsProofs` | theorems about `PlaybackControl`, `MessageIds`, `RecordQuery` and their composition | |
| `MC*` | values of the constants for TLC | |

**How code becomes actions.** A function that holds a mutex throughout is one action. Otherwise an action ends where
another thread can see or change the state: at a lock, an unlock, a wait, a blocking library call, a read of an unlocked
shared variable. Actions are named after the functions, with a suffix for the part (`erase_task_check`,
`erase_task_wait`, `erase_task_locked`). Variables named "history" in their comment are not in the code; they record
what a property speaks about and no guard reads them. Definitions with the comment "Mutant" are plausible bugs, each the
variant of the definition that follows; no specification uses them, they show that a property can fail.

**Library behaviour.** The Dahua SDK, XHNetSDK, librabbitmq and RabbitMQ are modelled from how `src/` uses them: a call
succeeds or fails, a callback comes at any time, a connection is lost at any time, a confirmation is on time, late or
lost, an unacknowledged message returns to its queue when the channel ends.

**Undefined behaviour.** `_is_run`, `nMaxRtpSendVideoMediaBufferLength` and `nStartVideoTimestamp` start with any value
of a set `Garbage`; `empty()` during a `push_back` answers either way; `m_lDowloadPlayHandle`, which no constructor
sets, chooses a branch of `stopSession` freely; after a `push_back` moved the vector, `start_server`'s loop goes on in
the old storage. `onclose`'s `++it` after `erase` is taken to go on somewhere in the map (handles are unique, so no
further entry matches). `LoginResults` without a value stands for any login handle and, as a number of channels, for
any value of `Garbage`, one negative and one larger than a recorder's; what a loop overwrote beyond its buffers is not
followed further. `m_bPause` starts with either value, a speed that is no JSON double leaves the local `speed` with any
value of `Garbage`, and two threads that write one `std::string` at once leave it `Garbled` or written by one of
them; a copy taken meanwhile can be `Garbled` on its own.
`int n` of an infinity is `INT_MIN` on x86, hence no iteration.

**Where the modules meet.** `Inbox` hands over where `ThreadPool` begins (`input_task`); `PlaySessions` and `RtpSender`
share `_is_run` and the media handle: `PlaySessions` has `sendMS`'s error as one action, `RtpSender` the stop and the
disconnect of one session; `Requests` begins where a worker of `ThreadPool` runs a task and ends at
`send_business_queueEx`, where `BusinessSender` begins, and leaves the file and the soft deletes to `PlatformStore`, the
streams to `PlaySessions` and, once they play, to `PlaybackControl`; `PoolRequests` composes `PlaybackControl` and
`MessageIds` on the same pool threads, each of which works on one request at a time;
`GatewaySign` ends where `Inbox` begins (`insert_task`) and starts `BusinessSender`'s threads
(`connet_business`).

**Confirm mode.** Only `ExchangeDeclare` sends `confirm.select`. On a channel that any other call had to open
(`GatewaySign`: "plain"; `BusinessSender`: not in `confirms`) a message arrives and is not confirmed, and `Publish` returns
-3 after its wait. `BusinessSender` starts after `connet_business`, whose errors are only logged: connected and declared,
connected with no channel, or not connected. `DisconnectEx` is four steps after its wait, because the send thread can write
`m_pDisConn` between any two. When `Connect` replaces the connection, frames and channels of earlier ones are dropped from the model:
the send thread never reads them again.

**Outcomes of playback commands.** Pause, resume and speed send the platform nothing (`server_manage.cpp:760-815`); "ok"
and "failed" in `PlaybackControl` are what the handler logs.

## 3. Runs

| run | instance | shows |
|---|---|---|
| `thread_pool` | 2 workers, 2 outside threads, 4 tasks | permits, the list and the threads between two steps agree; no worker leaves; each task runs once and ends |
| `inbox` | 2 producers, 4 inserts of 2 texts | the event covers the messages, so the handler never sleeps on one; FIFO |
| `rtp_sender` | 10 packets of 2 sizes, 3-bit counter, garbage 0, 4, 6, failed writes, a stop | at most two frames buffered while connected; `RtpStream`: nothing lost, doubled or reordered |
| `play_sessions` | 2 pool threads, 1 key, 2 sessions | no shared pointer to a destroyed session; stopped sessions leave and are destroyed; connections of destroyed sessions closed; a stopped stream is silent unless the device refused the stop; a running stream has a session in the map, but for the known cases (`refused`, `orphaned`) |
| `business_sender` | 2 responses, 3 connections | a confirmation is that of its response; order, at most two copies in a row; no destroyed connection used; every response tried |
| `platform_store` | 2 pool threads, 2 platforms, 2 crashes | file, list and map agree; saved platforms survive; saved deletes persist |
| `gateway_sign` | 2 answers, a leftover message of another gateway, 2 requests, 2 faults | answers are not lost; requests come once and in order; listening and heartbeats resume |
| `requests` | 2 pool threads, 3 requests of ten sorts, 2 recorders with 1 and 2 channels, one of them added by a request | one login per recorder; the data of an answer are from the right recorder; camera lists complete and within their buffers unless a thread assigned `m_nChanNum` meanwhile; `RequestDesk` |
| `pool_requests` | 2 pool threads (symmetric), 3 requests of seven sorts or `device_add`, 1 saved platform; speeds 1/2, 1, 2 and none; record queries of two files over five times | a pause or resume that succeeded is in force, unless the opposite one or another one's refusal met it; so is a speed that met no other one, if earlier speeds were plain steps; msgIds of builds nobody met are unique and grow; records are exactly those of the range |
| `onclose_reclaims` | 2 pool threads, 1 key | **violated**: `onclose` misses its session |
| `business_sender_crash` | as `business_sender` | **violated**: the library is handed NULL |
| `ptz_stop` | 1 pool thread, 3 PTZ requests | **violated**: the stop of focus and iris stops something else |

Why the bounds are enough. *Pool*: two workers can cross between permit and list, and four tasks allow a chain of inline
tasks beside a queue of two. *Message list*: two producers overlap, and four inserts leave counts over from messages that
were taken without a wait. *RTP*: one packet beyond a full cycle of the counter meets the reserved value and the wrap;
the garbage values make each flush happen and be skipped. *Sessions*: two threads on one key show every race of two
requests, two sessions a replacement; a second key only multiplies the graph, and what the invariants say of
several keys is proved for any number. *Responses*: the second one can receive the late
confirmation of the first; three connections are the first, its replacement and one more. *Store*: two platforms
distinguish "this one" from "another one", the second crash hits what the first one's restart did. *Sign-in*: two faults
cover a fault and one during its repair. *Requests*: two threads show every race of two handlers, the third request finds
what they left (a cached login, a stale `m_nChanNum`, a device that is known by then); the recorders differ in their
number of channels, so a list of the wrong one is seen. *Requests on one session*: two requests overlap in every way and
the third finds what they left (a wrong `m_nSpeed`, a counter that lost a number); 1/2 and 2
are jumps of a factor 4 from each other, and the recorder may refuse any call. Files and ranges over five times can lie in every
way to each other.

### Fairness

Weak fairness of each thread of the gateway, for steps it can take: the code's waits end by signals that are modelled,
and every library call it makes has a timeout or returns. Nothing is assumed of the outside (requests, losses and answers
may never come) except in `GatewaySign`, where the broker pushes a message to a consumer that may take it. There the
number of faults is bounded, so the liveness properties say what holds once faults have ended. In `Requests` a thread that
waits for `m_loginLock` needs no strong fairness because only finitely many requests compete for it.

### Deviations found

`PROJECT.json` "findings" holds the three with a violated run. Others met while modelling, without a run:

* `PlaySession.cpp:651, 667`: both flushes of `sendMS` require a media connection and the append behind them does not. A
  session that runs without a connection (`setMSAddr` only logs the failure) appends beyond its buffer.
* `server_manage.cpp:55`: `start_server` tests `soft_del` and reports later, without the lock: a platform can be reported
  as online after its delete was answered. `device_total_sync` (`:497`) copies the list without the lock, too; it changes
  nothing and is no more than an answer in `Requests`.
* `server_manage.cpp:418`: for an unknown device the handlers go on with an uninitialised `LoginResults`, and for a known
  one they ignore a failed login. `RightRecorder` therefore speaks of devices that were found; a PTZ command is answered
  with success whatever came of it (`sdk_wrap.cpp:291`).
* `sdk_wrap.cpp:134`: two simultaneous `channel_sync` of different recorders share `m_nChanNum`. The list can be short, or
  the loop beyond the buffers; `CameraListExact` excepts answers during which another thread assigned it.
* `PlaySession.cpp:242-246`: when `CLIENT_MakeKeyFrame` fails, `startRealPlaySession` returns 0; a session that plays
  nothing is registered, and later play requests for the stream find it and do nothing.
* `PlaySession.cpp:32-44`: the destructor stops no device stream. A session destroyed by `onclose`, or the loser of two
  simultaneous play requests for one stream, leaves the device calling back into the deleted object.
* `sdk_wrap.cpp:423`: `stop_play` deletes by key whatever the key has by then. Two stops find a session and the first one
  deletes it; a play puts a new one there, the second stop deletes that, and its stream goes on into a deleted object.
  `StreamsHaveOwners` names this, the two cases above and a refused stop as the only ways to a stream without a session.
* `server_manage.cpp:207`: a crash between truncation and write loses every platform, or leaves half a document, which
  ends the next start with an exception. `SavedPlatformsSurvive` excepts exactly this crash.
* `rabbitMQ.cpp:512`: `CancelConsuming` cancels the empty tag, `amqp_empty_bytes`, and not the one the broker chose. The
  gateway stays a consumer of the public queue after its registration (the comment at `client_manage.cpp:128` says
  otherwise) and takes other gateways' messages; one of them can be read as a heartbeat's confirmation.
* `PlaySession.cpp:490-520`: the loop ends with the first step the recorder takes, so each request changes the speed by a
  factor of 2 while `m_nSpeed` becomes what was asked: after "4" from 1 the recorder plays at 2, and the next "2" makes
  it play at 1. The same speed again is "not greater" and slows down. A refused slow iteration sets `speed` to
  `1 / 2 * m_nSpeed`, an integer division and therefore 0, which is remembered when the next iteration is taken. From 0
  there is no iteration: the next speed is remembered and logged as a success without a call. `AnsweredAsAsked` therefore excepts
  speeds after anything but plain steps (history `plain`), until a normal speed on its own.
* `gateway_msg.cpp:998`: a speed that is no double in the JSON text ("2") leaves `speed` uninitialised.
* `PlaySession.cpp:405`: of a pause and a resume at once, one can be sent with the argument of the other and
  succeed; after a refusal `m_bPause` can be the opposite of both.
* `gateway_msg.cpp:1158`: two builds at once give one id twice, an id of two numbers, or none; and the `gateway_msg`s of
  `server_manage` and `client_manage` both count ids with the same prefixes, so they repeat each other's.
* `sdk_wrap.cpp:498`: a record query that times out answers with the range as it was asked for, in a format with dashes
  and colons, which `response_record_list` parses as `%Y%m%d%H%M%S`: only the year survives.
* `server_manage.cpp:742`: a live stream is kept under `ssrcInfo.streamId` and stopped under `data.streamId`; it is
  stopped only if the platform sends the same in both.
* `thread_pool.h:89`: `stop()` joins the workers before `push_exit` posts what would wake them, so the destructor
  blocks whenever a worker is idle. It runs at the end of the process only.
* `client_manage.cpp:106-136`: before the sign-in nothing reconnects the public connection. If it is lost while the
  gateway waits for the answer, the loop spins on errors and the gateway never signs in.
* `client_manage.cpp:191, 221`: listening restarts by mutual recursion with no pause, so a long outage exhausts the stack.
* `rabbitMQ.cpp:120, 330`: `m_iChannel` grows with every reconnect and is an `int`, the channel of a frame has 16 bits:
  after 65535 reconnects no confirmation is recognised.

## 4. Proofs

TLAPS checks these for all values of the constants, under the `ASSUME` of the module, which each run evaluates.

* **`ThreadPoolProofs`** (finite, disjoint `Workers` and `Callers`). The invariant is `PermitsMatchTasks /\ WorkersStay`:
  the semaphore, the workers past their wait and the threads between push and post add up to the length of the list, and
  no worker has left. It is inductive over `TypeOK`: `get_task` finds the list non-empty because the worker itself
  is counted. The counting lemmas (`Leaves`, `Arrives`, `StaysAway`) say how the set of threads at a step changes.
  `TaskPoolRefinement` is the whole of `ImplementsTaskPool`; it needs `PlaceInv`: a task is once in
  the list or once on one thread's stack of running tasks, never both, and a waiting worker runs none. Without it a step
  could start a task that another thread runs. The lemmas on `ElementsOf` say what a queue has after each of its four operations.
* **`ListeningProofs`** (finite `Producers`; any number of faults, answers and requests).
  `EventCoversMessages` (the messages in the list are at most the event's count, the pending signals and the handler's own
  turn) is inductive over `TypeOK`; `HandlerNeverStranded` (asleep, a message in the list and nobody about to signal:
  never) follows from it. `FifoRefinement` is the safety part of `ImplementsFifo`: what was inserted is what was
  dispatched, the message in the handler's hand, and the list.
  For `GatewaySign`, `Delivery` first reduces each of its many steps to what it does to the messages: nothing, or one of a
  few moves; both theorems then look at the moves only. `RequestsOnceInOrder` speaks of what was handed over; `OnTheWay`
  adds what was pushed to the client and what still is in the queue, each in order and each behind the one before, so
  that neither a lost channel (which drops what was pushed) nor a new one brings a request back.
  `RepliesNotLost` needs `HeldInv`: once the connection is gone, the broker holds nothing for it any more. The counting
  lemmas on `Mine` (concatenation, one message more, one less) do the arithmetic.
* **`RtpSenderProofs`** (`Word > 1`, `Flag` and `Garbage` below `Word`, packets of at most `MaxSize`). The bound of two
  frames is not inductive. `BufferInv` adds: between two packets the stamp of a non-empty buffer is the current counter,
  and the buffer holds one frame only when that stamp is `Flag`. The frame flush is skipped for the stamp `Flag` only,
  the next stamp is not `Flag`, so it is skipped once at most. With `NothingLostInBuffer` (inductive by associativity of
  concatenation) and `OnePacket` each step is a step of `RtpStream` or none (`StreamRefinement`).
* **`PlaySessionsProofs`** (any threads, streams and sessions). The types rest on who has a reference: `BusyInv` (a
  handler has a session and a key while it works on a request) and `MadeInv`; only what nobody refers to is
  destroyed (`ReleaseType`). `StoppedSessionsLeave` needs `MapInv`: a session being made is known to its
  handler only (`OwnInv`), a session is in the map under one key, that of the handlers that have it (`KeyInv`), and a
  `stop_play` about to return has taken it out (`LeftInv`): deleting by key takes the stopped session out, whatever else it
  hits. `StreamsHaveOwners` says what it may hit: a running stream's session is in the map or on its way there, or it is
  `refused` or `orphaned` (the loser, and what `onclose` or a stop of the key's earlier session took out unstopped);
  `DanglingCallbacks` draws the conclusion for the raw pointer in the device's callback. The types alone say nothing of it.
  `StoppedSilent` needs `SilentInv` (a stream whose handle is gone was refused the stop),
  `ConnectionsClosed` needs `MediaInv` (a session knows its living connection unless the library reported an error).
* **`PlatformStoreProofs`** (any threads, platforms, crashes). `TypeInv`: no id twice in a list. `LockInv`: exactly the
  steps between lock and unlock have the mutex, and nobody works while the program is down. `FileMatchesList` needs
  `FileInv`: a delete that has the mutex and has not marked its platform yet finds the file as the list is. `SavedPlatformsSurvive` needs `SavedInv` about the file as well, since a restart makes the list of it;
  `AnsweredDeletesPersist` needs the same of the marks (`AnsweredInv`) and what a handler that deletes knows at each of
  its steps (`DeletesInv`), since the mark, the write and the answer are three steps and the handler has the lock for two.
* **`BusinessSenderProofs`** (any responses and connections). `ConnInv`: a connection the send thread uses is neither
  destroyed nor the one `m_pDisConn` names, from which `NeverUsesDestroyed` follows. `AckInv`: on a connection in use there
  is no confirmation but that of the response just published, so a late one stays on a connection given up; hence
  `ConfirmsItsOwn`. `ReceivedInOrder` needs `ListInv` (the list continues the numbering of the current response) and
  `CopiesInv` (none of the current response before its first publishing, at most one copy before its second).
* **`RequestsProofs`** (every number of threads, requests, devices and recorders). `DeskInv` adds to `TypeOK`: no two
  threads have the same request (`JobInv`), what a step says about its request (`StepInv`), a thread in a login call holds
  the lock and its recorder has no login (`LockInv`), each login is cached under its recorder (`CacheInv`, of which
  `LoggedInOnce` follows), and what `Login` left of a found device is its recorder's login (`HandleInv`, which
  `RightRecorder` needs: what is answered depends on what was looked up several steps before). `OnlyJobOf` states once what
  a step may touch, so that each action is looked at for its own thread only. `CameraListExact` needs `ListInv`: what a
  thread nobody disturbed has gathered so far, and that `m_nChanNum` still is its recorder's number of channels.
  `DeskRefinement` is the safety part of `ImplementsRequestDesk`; `SentInv` says what the request of each thread was sent
  at each step, and `Moves` what a handler's step can do to it. (The proof showed two alternatives of `StateOf` that were
  both true of a new request: TLC takes the first, a `CASE` of TLA+ either. They exclude each other now.)
* **`PoolRequestsProofs`** (any threads, requests, speeds, refusals).
  `AnsweredAsAsked` says something of the moment of success; the invariant says what makes it true. `AloneInv`: while a
  request is alone nobody else is in a request against it. `PauseInv`: then `m_bPause` is still what it assigned.
  `NormalInv`: a lone request for the normal speed brings `m_nSpeed` and the recorder together whatever was before.
  `PlainInv`: from then on, as long as speeds change by a factor of 2 and one at a time, the loop has one iteration
  (`OneIteration`), `m_nSpeed` is the recorder's speed but between the call and the assignment, and it stays so when the
  recorder refuses. `Advance` states what a step does to the threads' places, `OthersPause` and `OthersSpeed` that
  the threads that do not move keep their part, so that an action is looked at for its own thread (`MoverSuffices`).
  `UndisturbedIdsGrow` rests on `SpentInv` (no undisturbed id is above the counter, nor above what a thread has read and
  not yet written) and `FreshInv` (an undisturbed build finds an empty string and its own number). `RecordsAreExact` is a
  fact about the operators alone, for all sets of files and ranges.

Only model-checked: every liveness property (liveness under fairness is beyond the prover), that is `EveryTaskFinishes`,
`StopDestroys`, `EveryResponseTried`, `ListensAgain`, `HeartbeatsArrive` and the fairness of `ImplementsFifo` and
`ImplementsRequestDesk`, whose safety parts are proved. Every invariant and every action property of a passing run is
stated by a theorem.

## 5. Plan

In order of importance; all are done.

1. `ThreadPool`, 2. `Inbox`, 3. `RtpSender`, 4. `PlaySessions`, 5. `BusinessSender`, 6. `PlatformStore`, 7. `GatewaySign`,
8. `Requests`, 9. `PlaybackControl`, `MessageIds` and `PoolRequests`, 10. `RecordQuery`.
11. Proofs of all invariants, action properties and refinements (section 4).

## 6. Not modelled

* Configuration (an ini file), logging, `mysql_manage` (no live caller), `rabbitmqclient.cpp` (an earlier client that
  nothing uses), `List.h` (disabled by `#if 0`): no state of the running system depends on them.
* Vendored headers and libraries. `dhconfigsdk.h` alone has two thirds of the repository's lines, all of them
  declarations, so no model of the program can map a large share of all lines.
* JSON layout, malformed messages (but for the speed that is left unset), SDK payloads.
* `main` only starts the parts and waits. `CheckChannelStatu` is called by a thread that is commented out.
* `objRabbitmq` is shared by listener and heartbeat without a lock; the model assumes that the heartbeat's first sleep
  outlasts the end of the sign-in. The depth of the stack that restarting the listener grows is not followed.
* One module for a request's whole way (list, pool, handler, sender): the parts are composed at their interfaces only
  (section 2); `MessageFifo`, `TaskPool` and `RequestDesk` are the promises one part relies on of the one before.
