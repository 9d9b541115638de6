--------------------------- MODULE BusinessSender ---------------------------
(***************************************************************************)
(* Responses to the platform: handlers queue them with                     *)
(* send_business_queueEx, the send thread publishes them over              *)
(* objDynamicRabbitmq_send, reconnecting once per message, and the         *)
(* disconnect thread closes abandoned connections.  The three share the    *)
(* rabbitmqClient object without a lock.                                   *)
(***************************************************************************)
EXTENDS Naturals, Sequences, FiniteSets

CONSTANTS MaxMsgs,    \* bound: responses queued
          MaxConns    \* bound: connection objects amqp_new_connection hands out

ASSUME SenderAssumption == MaxMsgs \in Nat /\ MaxConns \in Nat \ {0}

NULL == 0
Msgs == 1 .. MaxMsgs
Conns == 1 .. MaxConns

VARIABLES list,       \* _business_msg_list; responses are numbered as queued
          mtx,        \* holder of _business_msg_list_mtx: "free", "push", "send"
          ev,         \* _business_msg_list_ev
          queued,     \* responses queued so far
          spc,        \* send thread
          msg,        \* the response it works on
          republic,   \* _republic
          m_pConn,    \* current connection or NULL
          channel_id, \* a channel is open, as far as the client knows
          m_pDisConn, \* the connection to close
          status,     \* [Conns -> "new", "up", "down", "destroyed"]
          opened,     \* connections on which the broker has the channel open
          confirms,   \* ... and it is in confirm mode
          acks,       \* [Conns -> Seq(Msgs)]: confirmations under way
          disconnet_ev, dpc,   \* disconnect thread
          received,   \* history: what the broker took over, in order
          confirmed   \* history: what the last confirmation was for, NULL: none yet

listVars == <<list, mtx, ev, queued>>
clientVars == <<m_pConn, channel_id, m_pDisConn>>
channelVars == <<opened, confirms>>
brokerVars == <<status, channelVars, acks, received>>
closerVars == <<disconnet_ev, dpc>>
vars == <<listVars, spc, msg, republic, clientVars, brokerVars, closerVars, confirmed>>

SenderSteps == {"check", "wait", "lock", "send", "connect", "declare", "publish", "basic",
                "ack", "done"}

TypeOK ==
  /\ list \in Seq(Msgs)
  /\ mtx \in {"free", "push", "send"}
  /\ ev \in Nat
  /\ queued \in 0 .. MaxMsgs
  /\ spc \in SenderSteps
  /\ msg \in Msgs \cup {NULL}
  /\ republic \in BOOLEAN
  /\ m_pConn \in Conns \cup {NULL}
  /\ channel_id \in BOOLEAN
  /\ m_pDisConn \in Conns \cup {NULL}
  /\ status \in [Conns -> {"new", "up", "down", "destroyed"}]
  /\ opened \subseteq Conns /\ confirms \subseteq Conns
  /\ acks \in [Conns -> Seq(Msgs)]
  /\ disconnet_ev \in Nat
  /\ dpc \in {"wait", "channel", "close", "destroy", "forget", "crashed"}
  /\ received \in Seq(Msgs)
  /\ confirmed \in Msgs \cup {NULL}

\* connet_business has run: its connect and exchange errors are only logged.
\* The client is part of a static object: m_pDisConn starts as NULL.
Init ==
  /\ list = <<>> /\ mtx = "free" /\ ev = 0 /\ queued = 0
  /\ spc = "check" /\ msg = NULL /\ republic = FALSE
  /\ m_pConn = 1 /\ m_pDisConn = NULL
  /\ channel_id \in BOOLEAN
  /\ \/ status = [c \in Conns |-> IF c = 1 THEN "up" ELSE "new"]
     \/ ~channel_id /\ status = [c \in Conns |-> IF c = 1 THEN "down" ELSE "new"]
  /\ opened = (IF channel_id THEN {1} ELSE {}) /\ confirms = opened
  /\ acks = [c \in Conns |-> <<>>]
  /\ disconnet_ev = 0 /\ dpc = "wait"
  /\ received = <<>> /\ confirmed = NULL

\* The process runs until the library is handed a connection that is none.
Alive == dpc # "crashed"
-----------------------------------------------------------------------------
(***************************************************************************)
(* send_business_queueEx: the mutex covers push_back and signal.           *)
(***************************************************************************)
send_business_queueEx ==
  /\ mtx = "free" /\ queued < MaxMsgs
  /\ mtx' = "push"
  /\ UNCHANGED <<list, ev, queued, spc, msg, republic, clientVars, brokerVars, closerVars, confirmed>>

\* Mutant: the event is not signalled.
push_back_NoSignal ==
  /\ mtx = "push"
  /\ list' = Append(list, queued + 1)
  /\ queued' = queued + 1
  /\ mtx' = "free"
  /\ UNCHANGED <<ev, spc, msg, republic, clientVars, brokerVars, closerVars, confirmed>>

push_back ==
  /\ mtx = "push"
  /\ list' = Append(list, queued + 1)
  /\ queued' = queued + 1
  /\ ev' = ev + 1
  /\ mtx' = "free"
  /\ UNCHANGED <<spc, msg, republic, clientVars, brokerVars, closerVars, confirmed>>
-----------------------------------------------------------------------------
(***************************************************************************)
(* sent_business_func.                                                     *)
(***************************************************************************)
\* empty() without the mutex: either answer while a push_back is under way.
SeesEmpty(answer) == mtx # "push" => answer = (list = <<>>)

\* The second empty() can disagree with the first; then the loop starts again.
sent_business_check ==
  /\ spc = "check"
  /\ \/ SeesEmpty(TRUE) /\ spc' = "wait"
     \/ SeesEmpty(FALSE) /\ spc' = "lock"
  /\ UNCHANGED <<listVars, msg, republic, clientVars, brokerVars, closerVars, confirmed>>

\* Mutant: the wait does not look at the count.
sent_business_wait_Underflow ==
  /\ spc = "wait"
  /\ ev' = ev - 1
  /\ spc' = "check"
  /\ UNCHANGED <<list, mtx, queued, msg, republic, clientVars, brokerVars, closerVars, confirmed>>

sent_business_wait ==
  /\ spc = "wait" /\ ev > 0
  /\ ev' = ev - 1
  /\ spc' = "check"
  /\ UNCHANGED <<list, mtx, queued, msg, republic, clientVars, brokerVars, closerVars, confirmed>>

\* Element 0 is taken without a new look at empty(); the mutex stays held.
sent_business_take ==
  /\ spc = "lock" /\ mtx = "free"
  /\ list # <<>>
  /\ mtx' = "send"
  /\ msg' = Head(list)
  /\ list' = Tail(list)
  /\ spc' = "send"
  /\ UNCHANGED <<ev, queued, republic, clientVars, brokerVars, closerVars, confirmed>>
-----------------------------------------------------------------------------
(***************************************************************************)
(* send_business_queue and the rabbitmqClient calls it makes.              *)
(***************************************************************************)
send_business_queue ==
  /\ spc = "send"
  /\ spc' = IF republic THEN "connect" ELSE "publish"
  /\ UNCHANGED <<listVars, msg, republic, clientVars, brokerVars, closerVars, confirmed>>

\* Mutant: the response is given up, the connection kept for the next one.
Failed_NoReconnect ==
  IF republic
  THEN spc' = "done" /\ UNCHANGED <<republic, disconnet_ev>>
  ELSE /\ disconnet_ev' = disconnet_ev + 1
       /\ UNCHANGED republic
       /\ spc' = "done"

\* Mutant: goto republic after every failure.
Failed_Forever ==
  /\ republic' = TRUE
  /\ spc' = "send"
  /\ UNCHANGED disconnet_ev

\* The call failed.  Reconnecting: the response is given up, _republic stays.
\* Otherwise the disconnect thread is told and the loop goes to republic:.
Failed ==
  IF republic
  THEN spc' = "done" /\ UNCHANGED <<republic, disconnet_ev>>
  ELSE /\ republic' = TRUE
       /\ disconnet_ev' = disconnet_ev + 1
       /\ spc' = "send"

\* Connect: m_pConn is overwritten; without a fresh object it becomes NULL.
\* Nobody looks at the channels and frames of the earlier connections again.
Connect ==
  /\ spc = "connect"
  /\ \/ /\ m_pConn' = NULL
        /\ Failed
        /\ UNCHANGED <<status, channel_id, channelVars, acks>>
     \/ \E c \in Conns :
          /\ status[c] = "new"
          /\ \A d \in Conns : status[d] = "new" => c <= d
          /\ m_pConn' = c
          /\ opened' = {} /\ confirms' = {} /\ acks' = [d \in Conns |-> <<>>]
          /\ \/ /\ status' = [status EXCEPT ![c] = "up"]
                /\ channel_id' = FALSE
                /\ spc' = "declare"
                /\ UNCHANGED <<republic, disconnet_ev>>
             \/ /\ status' = [status EXCEPT ![c] = "down"]
                /\ Failed
                /\ UNCHANGED channel_id
  /\ UNCHANGED <<listVars, msg, m_pDisConn, received, dpc, confirmed>>

\* amqp_channel_close: with the channel goes its confirm mode.
channel_close(c) == opened' = opened \ {c} /\ confirms' = confirms \ {c}

\* amqp_channel_open: fails on a dead connection, and for a channel number
\* that is open already (the broker then closes the connection).  Nobody puts
\* this channel in confirm mode.
channel_open(ok) ==
  IF status[m_pConn] = "up" /\ m_pConn \notin opened
  THEN /\ ok
       /\ opened' = opened \cup {m_pConn} /\ confirms' = confirms \ {m_pConn}
       /\ UNCHANGED status
  ELSE /\ ~ok
       /\ status' = [status EXCEPT ![m_pConn] = IF @ = "up" THEN "down" ELSE @]
       /\ UNCHANGED channelVars

\* m_iChannel is a new number here, so an open channel does not matter.  The
\* only place that asks for confirmations.
ExchangeDeclare ==
  /\ spc = "declare"
  /\ \/ /\ status[m_pConn] = "up"
        /\ channel_id' = TRUE
        /\ opened' = opened \cup {m_pConn} /\ confirms' = confirms \cup {m_pConn}
        /\ spc' = "publish"
        /\ UNCHANGED <<republic, disconnet_ev>>
     \/ /\ channel_id' = FALSE
        /\ Failed
        /\ UNCHANGED channelVars
  /\ UNCHANGED <<listVars, msg, m_pConn, m_pDisConn, status, acks, received, dpc, confirmed>>

\* Publish: NULL is -1, a channel that cannot be opened -4.
Publish ==
  /\ spc = "publish"
  /\ \/ /\ m_pConn = NULL
        /\ Failed
        /\ UNCHANGED <<channel_id, status, channelVars>>
     \/ /\ m_pConn # NULL /\ channel_id
        /\ spc' = "basic"
        /\ UNCHANGED <<channel_id, status, channelVars, republic, disconnet_ev>>
     \/ /\ m_pConn # NULL /\ ~channel_id
        /\ \/ /\ channel_open(TRUE)
              /\ channel_id' = TRUE
              /\ spc' = "basic"
              /\ UNCHANGED <<republic, disconnet_ev>>
           \/ /\ channel_open(FALSE)
              /\ Failed
              /\ UNCHANGED channel_id
  /\ UNCHANGED <<listVars, msg, m_pConn, m_pDisConn, acks, received, dpc, confirmed>>

\* Mutant: the connection is marked for closing before its answer is known.
amqp_basic_publish_Marks ==
  /\ spc = "basic"
  /\ m_pDisConn' = m_pConn
  /\ spc' = "ack"
  /\ IF status[m_pConn] = "up"
     THEN /\ received' = Append(received, msg)
          /\ acks' = [acks EXCEPT ![m_pConn] = Append(@, msg)]
     ELSE UNCHANGED <<received, acks>>
  /\ UNCHANGED <<listVars, msg, republic, disconnet_ev, m_pConn, channel_id, status, channelVars, dpc, confirmed>>

\* The broker takes the message over, and confirms it if it was asked to, or
\* it is lost on the way; on a dead connection the library may report an error,
\* which either closes the channel or is followed by the wait for a frame that
\* does not come.
amqp_basic_publish ==
  /\ spc = "basic"
  /\ \/ /\ status[m_pConn] = "up"
        /\ received' = Append(received, msg)
        /\ IF m_pConn \in confirms THEN acks' = [acks EXCEPT ![m_pConn] = Append(@, msg)]
                                  ELSE UNCHANGED acks
        /\ spc' = "ack"
        /\ UNCHANGED <<m_pDisConn, channel_id, channelVars, republic, disconnet_ev>>
     \/ /\ spc' = "ack"
        /\ UNCHANGED <<m_pDisConn, channel_id, channelVars, acks, received, republic, disconnet_ev>>
     \/ /\ status[m_pConn] # "up"
        /\ \/ /\ channel_id' = FALSE
              /\ channel_close(m_pConn)
              /\ UNCHANGED m_pDisConn
           \/ m_pDisConn' = m_pConn /\ UNCHANGED <<channel_id, channelVars>>
        /\ Failed
        /\ UNCHANGED <<acks, received>>
  /\ UNCHANGED <<listVars, msg, m_pConn, status, dpc, confirmed>>

\* The 2 s wait for a frame: an ACK ends the send; a frame of another kind
\* is -1 or -2; no frame is -3, the one case that records m_pDisConn.
wait_frame ==
  /\ spc = "ack"
  /\ \/ /\ acks[m_pConn] # <<>>
        /\ confirmed' = Head(acks[m_pConn])
        /\ acks' = [acks EXCEPT ![m_pConn] = Tail(@)]
        /\ republic' = FALSE
        /\ spc' = "done"
        /\ UNCHANGED <<m_pDisConn, disconnet_ev>>
     \/ /\ status[m_pConn] = "up"
        /\ Failed
        /\ UNCHANGED <<m_pDisConn, acks, confirmed>>
     \/ /\ m_pDisConn' = m_pConn
        /\ Failed
        /\ UNCHANGED <<acks, confirmed>>
  /\ UNCHANGED <<listVars, msg, m_pConn, channel_id, status, channelVars, received, dpc>>

\* send_business_queue returns and the guard releases the mutex.
sent_business_done ==
  /\ spc = "done"
  /\ mtx' = "free"
  /\ msg' = NULL
  /\ spc' = "check"
  /\ confirmed' = NULL
  /\ UNCHANGED <<list, ev, queued, republic, clientVars, brokerVars, closerVars>>

Sender ==
  \/ sent_business_check \/ sent_business_wait \/ sent_business_take
  \/ send_business_queue \/ Connect \/ ExchangeDeclare \/ Publish
  \/ amqp_basic_publish \/ wait_frame \/ sent_business_done
-----------------------------------------------------------------------------
(***************************************************************************)
(* disconnet_func: DisconnectEx closes what m_pDisConn names by then, and  *)
(* clears the channel_id the send thread uses for its new connection.      *)
(***************************************************************************)
DisconnectEx_begin ==
  /\ dpc = "wait" /\ disconnet_ev > 0
  /\ disconnet_ev' = disconnet_ev - 1
  /\ dpc' = "channel"
  /\ UNCHANGED <<listVars, spc, msg, republic, clientVars, brokerVars, confirmed>>

UsesConnection(step) ==
  dpc' = IF m_pDisConn = NULL \/ status[m_pDisConn] = "destroyed" THEN "crashed" ELSE step

DisconnectEx_channel ==
  /\ dpc = "channel"
  /\ IF channel_id
     THEN UsesConnection("close") /\ channel_close(m_pDisConn)
     ELSE dpc' = "close" /\ UNCHANGED channelVars
  /\ channel_id' = FALSE
  /\ UNCHANGED <<listVars, spc, msg, republic, m_pConn, m_pDisConn, status, acks, received,
                 disconnet_ev, confirmed>>

\* amqp_connection_close; an error leaves the connection object behind.
DisconnectEx_close ==
  /\ dpc = "close"
  /\ UsesConnection("destroy") \/ UsesConnection("wait")
  /\ status' = IF m_pDisConn # NULL /\ status[m_pDisConn] = "up"
               THEN [status EXCEPT ![m_pDisConn] = "down"] ELSE status
  /\ UNCHANGED <<listVars, spc, msg, republic, clientVars, channelVars, acks, received,
                 disconnet_ev, confirmed>>

DisconnectEx_destroy ==
  /\ dpc = "destroy"
  /\ UsesConnection("forget")
  /\ status' = IF m_pDisConn = NULL THEN status ELSE [status EXCEPT ![m_pDisConn] = "destroyed"]
  /\ UNCHANGED <<listVars, spc, msg, republic, clientVars, channelVars, acks, received,
                 disconnet_ev, confirmed>>

\* Whatever the send thread has written there meanwhile.
DisconnectEx_forget ==
  /\ dpc = "forget" /\ dpc' = "wait"
  /\ channel_id' = FALSE
  /\ m_pDisConn' = NULL
  /\ UNCHANGED <<listVars, spc, msg, republic, m_pConn, brokerVars, disconnet_ev, confirmed>>

DisconnectEx ==
  \/ DisconnectEx_begin \/ DisconnectEx_channel \/ DisconnectEx_close
  \/ DisconnectEx_destroy \/ DisconnectEx_forget

\* The broker or the network ends a connection; confirmations may be lost.
ConnectionDown(c) ==
  /\ status[c] = "up"
  /\ status' = [status EXCEPT ![c] = "down"]
  /\ acks' \in {acks, [acks EXCEPT ![c] = <<>>]}
  /\ UNCHANGED <<listVars, spc, msg, republic, clientVars, channelVars, received, closerVars, confirmed>>

Next ==
  \/ Alive /\ send_business_queueEx
  \/ Alive /\ push_back
  \/ Alive /\ Sender
  \/ Alive /\ DisconnectEx
  \/ \E c \in Conns : Alive /\ ConnectionDown(c)

\* Every library call has a timeout, so a thread that can run goes on.
Fairness == WF_vars(Alive /\ push_back) /\ WF_vars(Alive /\ Sender) /\ WF_vars(Alive /\ DisconnectEx)

Spec == Init /\ [][Next]_vars
FairSpec == Spec /\ Fairness
-----------------------------------------------------------------------------
(***************************************************************************)
(* The confirmation that ends a send is the one of that response, never a  *)
(* late one of an earlier response whose wait had timed out.               *)
(***************************************************************************)
ConfirmsItsOwn == confirmed \in {NULL, msg}

(***************************************************************************)
(* The broker gets responses in the order they were queued, each at most   *)
(* twice (the confirmation was late), and both copies in a row.            *)
(***************************************************************************)
ReceivedInOrder ==
  \A i \in DOMAIN received :
    /\ i + 1 \in DOMAIN received => received[i] <= received[i + 1]
    /\ i + 2 \in DOMAIN received => received[i] < received[i + 2]

(***************************************************************************)
(* The connection the send thread works on is not one the disconnect       *)
(* thread has destroyed, however late that thread runs and however often   *)
(* m_pDisConn was overwritten meanwhile.                                   *)
(***************************************************************************)
NeverUsesDestroyed ==
  spc \in {"declare", "publish", "basic", "ack"} /\ m_pConn # NULL
    => status[m_pConn] # "destroyed"

(***************************************************************************)
(* Every queued response is tried: the send thread never sleeps on a       *)
(* non-empty list and never waits for the disconnect thread.               *)
(***************************************************************************)
Tried(m) == queued >= m /\ m \notin {list[i] : i \in DOMAIN list} /\ msg # m
EveryResponseTried == \A m \in Msgs : (queued >= m) ~> (Tried(m) \/ ~Alive)

(***************************************************************************)
(* client_manage.cpp:473, "publishing failed, reconnect and publish again  *)
(* is next": the failure is survived.  The disconnect thread it wakes      *)
(* hands the library an existing connection.                               *)
(***************************************************************************)
FailureSurvived == Alive
=============================================================================
