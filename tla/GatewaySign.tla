----------------------------- MODULE GatewaySign -----------------------------
(***************************************************************************)
(* How the gateway signs in over the public queue, moves to its business   *)
(* queue and stays there: start_server's main thread, the thread of        *)
(* start_public_queue, start_business_queue and restart_business_queue,    *)
(* and the heartbeat thread.  They work on two rabbitmqClients: "pub" is   *)
(* objRabbitmq, "recv" is objDynamicRabbitmq_recv.  The broker keeps a     *)
(* queue for each, pushes messages to the consumers of a channel and takes *)
(* the unacknowledged ones back when the channel ends.                     *)
(*   Public messages are "SI" (GATEWAY_SIGN_IN) and "RE"                   *)
(* (GATEWAY_RE_SIGN_IN) for this gateway and "F" for another one; requests *)
(* are numbered.  objRabbitmq is shared without a lock; the heartbeat's    *)
(* first Sleep is long enough for the public queue to be left (assumed).   *)
(***************************************************************************)
EXTENDS Naturals, Sequences, FiniteSets

CONSTANTS MaxFaults,     \* bound: lost connections, refusals, lost confirmations
          MaxReplies,    \* bound: public messages the platform sends us
          MaxRequests    \* bound: requests it puts into the business queue

ASSUME SignAssumption == MaxFaults \in Nat /\ MaxReplies \in Nat /\ MaxRequests \in Nat

VARIABLES main,         \* start_server
          mq,           \* MQ_msg_func: its step
          mc,           \* ... and the client it listens on
          hb,           \* heartbeat_func
          send,         \* send_public_queue: its step, "none" outside
          caller,       \* ... the thread in it
          again,        \* ... its first Publish has not failed
          conn,         \* m_pConn: "null", "dead" or "up"
          chan,         \* channel_id: "null", or open, "plain" or with confirm.select
          public_ev, business_ev,    \* _public_ev, _business_ev
          signed,       \* the GATEWAY_SIGN_IN was handled
          queue,        \* broker: the client's queue
          consumers,    \* broker: consumers on the client's channel
          out,          \* pushed and not yet read by the client
          held,         \* read and not acknowledged
          asked,        \* platform: it knows of a sign-in
          replies, requests,    \* platform: messages sent so far
          handed,       \* history: requests handed to insert_task
          beaten,       \* history: a heartbeat arrived since the last Sleep
          faults

threadVars == <<main, mq, mc, hb, public_ev, business_ev, signed, handed>>
sendVars == <<send, caller, again>>
clientVars == <<conn, chan>>
brokerVars == <<queue, consumers, out, held>>
platformVars == <<asked, replies, requests, beaten>>
signVars == <<threadVars, sendVars, clientVars, brokerVars, platformVars, faults>>

Clients == {"pub", "recv"}
Public == {"SI", "RE", "F"}

\* Bound: more consumers than there are messages take no further message.
MaxConsumers == MaxReplies + 1

SignTypeOK ==
  /\ main \in {"signIn", "beat", "waitPublic", "waitBusiness", "ready"}
  /\ mq \in {"none", "declare", "bind", "consume", "wait", "close", "handle",
             "sending", "connect", "exchange", "cancel"}
  /\ mc \in Clients
  /\ hb \in {"none", "sleep", "beat", "again"}
  /\ send \in {"none", "connect", "declare", "publish"}
  /\ caller \in {"main", "mq", "hb"}
  /\ again \in BOOLEAN /\ signed \in BOOLEAN /\ asked \in BOOLEAN /\ beaten \in BOOLEAN
  /\ conn \in [Clients -> {"null", "dead", "up"}]
  /\ chan \in [Clients -> {"null", "plain", "confirm"}]
  /\ public_ev \in 0 .. 1 /\ business_ev \in 0 .. 1
  /\ \A f \in {queue, out, held} :
       /\ DOMAIN f = Clients
       /\ f["pub"] \in Seq(Public) /\ f["recv"] \in Seq(1 .. MaxRequests)
  /\ consumers \in [Clients -> 0 .. MaxConsumers]
  /\ handed \in Seq(1 .. MaxRequests)
  /\ replies \in 0 .. MaxReplies /\ requests \in 0 .. MaxRequests
  /\ faults \in 0 .. MaxFaults
  \* a channel the client takes for closed has no consumers
  /\ \A c \in Clients : consumers[c] > 0 => chan[c] # "null" /\ conn[c] = "up"

\* Another gateway's message may have been left in the public queue.
SignInit ==
  /\ main = "signIn" /\ mq = "none" /\ mc = "pub" /\ hb = "none"
  /\ send = "connect" /\ caller = "main" /\ again = TRUE
  /\ conn = [c \in Clients |-> "null"]
  /\ chan = [c \in Clients |-> "null"]
  /\ public_ev = 0 /\ business_ev = 0
  /\ signed = FALSE
  /\ \E left \in {<<>>, <<"F">>} : queue = [c \in Clients |-> IF c = "pub" THEN left ELSE <<>>]
  /\ consumers = [c \in Clients |-> 0]
  /\ out = [c \in Clients |-> <<>>]
  /\ held = [c \in Clients |-> <<>>]
  /\ asked = FALSE /\ replies = 0 /\ requests = 0
  /\ handed = <<>>
  /\ beaten = FALSE
  /\ faults = 0

Fault == faults < MaxFaults /\ faults' = faults + 1
-----------------------------------------------------------------------------
(***************************************************************************)
(* rabbitmqClient.                                                         *)
(***************************************************************************)
\* Mutant: the meaning of no_ack is taken the wrong way round.
no_ack_Swapped(c) == c = "pub"

\* Consumer's no_ack: "filterate ? 0 : 1".
no_ack(c) == c = "recv"

\* What the broker's queue is once the channel of a living connection ends.
Requeued(c) == IF no_ack(c) \/ conn[c] # "up" THEN queue[c] ELSE held[c] \o out[c] \o queue[c]

ChannelEnds(c) ==
  /\ queue' = [queue EXCEPT ![c] = Requeued(c)]
  /\ out' = [out EXCEPT ![c] = <<>>]
  /\ held' = [held EXCEPT ![c] = <<>>]
  /\ consumers' = [consumers EXCEPT ![c] = 0]

\* Mutant: Connect returns at once when m_pConn is not NULL, which Disconnect
\* leaves so after an error.
Connect_IfNull(c) ==
  /\ ChannelEnds(c)
  /\ chan' = [chan EXCEPT ![c] = "null"]
  /\ \/ /\ conn' = [conn EXCEPT ![c] = IF @ = "dead" THEN "dead" ELSE "up"]
        /\ UNCHANGED faults
     \/ conn' = [conn EXCEPT ![c] = "dead"] /\ Fault

\* Disconnect (a dead connection is left behind) and Connect.
Connect(c) ==
  /\ ChannelEnds(c)
  /\ chan' = [chan EXCEPT ![c] = "null"]
  /\ \/ conn' = [conn EXCEPT ![c] = "up"] /\ UNCHANGED faults
     \/ conn' = [conn EXCEPT ![c] = "dead"] /\ Fault

\* A call that needs a channel opens one.
Opened(c) == [chan EXCEPT ![c] = IF @ = "null" THEN "plain" ELSE @]

\* Such a call: channel_id is NULL after an error.
Rpc(c, ok) ==
  \/ /\ ok /\ conn[c] = "up"
     /\ chan' = Opened(c)
     /\ UNCHANGED <<brokerVars, faults>>
  \/ /\ ~ok
     /\ IF conn[c] = "up" THEN Fault ELSE UNCHANGED faults
     /\ chan' = [chan EXCEPT ![c] = "null"]
     /\ ChannelEnds(c)

\* The one call that turns confirmations on, by confirm.select (left out for
\* "recv", which never publishes).
ExchangeDeclare(c) ==
  \/ /\ conn[c] = "up"
     /\ chan' = IF c = "pub" THEN [chan EXCEPT ![c] = "confirm"] ELSE Opened(c)
     /\ UNCHANGED <<brokerVars, faults>>
  \/ Rpc(c, FALSE)
-----------------------------------------------------------------------------
(***************************************************************************)
(* send_public_queue, called by one thread at a time.                      *)
(***************************************************************************)
(***************************************************************************)
(* Its return to the caller.  The heartbeat thread calls reconnet_public   *)
(* and sends again when the first Publish failed, also if the second one   *)
(* arrived; the other callers ignore the result.                           *)
(***************************************************************************)
Returned(ok) ==
  \/ /\ caller = "main"
     /\ main' = IF main = "signIn" THEN "beat" ELSE "waitPublic"
     /\ mq' = IF main = "beat" THEN "declare" ELSE mq    \* MQ_msg_func's thread
     /\ send' = "none"
     /\ UNCHANGED <<hb, caller, again>>
  \/ /\ caller = "mq"
     /\ mq' = "consume" /\ send' = "none"
     /\ UNCHANGED <<main, hb, caller, again>>
  \/ /\ caller = "hb"
     /\ IF ok \/ hb = "again"
        THEN hb' = "sleep" /\ send' = "none" /\ UNCHANGED again
        ELSE hb' = "again" /\ send' = "connect" /\ again' = TRUE
     /\ UNCHANGED <<main, mq, caller>>

\* connet_public, and the reconnect after a failed Publish.
send_connect ==
  /\ send = "connect"
  /\ Connect("pub")
  /\ send' = "declare"
  /\ UNCHANGED <<threadVars, caller, again, platformVars>>

send_declare ==
  /\ send = "declare"
  /\ ExchangeDeclare("pub")
  /\ send' = "publish"
  /\ UNCHANGED <<threadVars, caller, again, conn, platformVars>>

\* The platform gets a sign-in, a re-sign-in or a heartbeat.
Arrives ==
  /\ asked' = (asked \/ main = "signIn" \/ caller = "mq")
  /\ beaten' = (beaten \/ caller = "hb")
  /\ UNCHANGED <<replies, requests>>

\* The confirmation is the next frame on the channel.
Publish_ok ==
  /\ conn["pub"] = "up" /\ out["pub"] = <<>> /\ chan["pub"] = "confirm"
  /\ Arrives
  /\ Returned(again)
  /\ UNCHANGED <<chan, brokerVars, faults>>

(***************************************************************************)
(* A message pushed to one of our consumers is read in place of the        *)
(* confirmation and dropped (-2); on a channel that QueueDeclare, QueueBind, *)
(* Consumer or Publish opened no confirmation ever comes (-3); or the      *)
(* connection is dead, the broker refuses, or the confirmation is late.    *)
(***************************************************************************)
Publish_fails ==
  /\ \/ /\ conn["pub"] = "up" /\ out["pub"] # <<>>
        /\ held' = [held EXCEPT !["pub"] = Append(@, Head(out["pub"]))]
        /\ out' = [out EXCEPT !["pub"] = Tail(@)]
        /\ Arrives
        /\ UNCHANGED <<chan, queue, consumers, faults>>
     \/ /\ conn["pub"] = "up" /\ out["pub"] = <<>> /\ chan["pub"] # "confirm"
        /\ chan' = Opened("pub")
        /\ Arrives
        /\ UNCHANGED <<brokerVars, faults>>
     \/ /\ conn["pub"] # "up"
        /\ UNCHANGED <<chan, brokerVars, faults, platformVars>>
     \/ /\ conn["pub"] = "up" /\ Fault
        /\ Arrives \/ UNCHANGED platformVars
        /\ UNCHANGED <<chan, brokerVars>>
  /\ IF again
     THEN send' = "connect" /\ again' = FALSE /\ UNCHANGED <<main, mq, hb, caller>>
     ELSE Returned(FALSE)

send_publish ==
  /\ send = "publish"
  /\ Publish_ok \/ Publish_fails
  /\ UNCHANGED <<mc, public_ev, business_ev, signed, handed, conn>>

send_public_queue(by) ==
  /\ send = "none"
  /\ send' = "publish" /\ caller' = by /\ again' = TRUE
-----------------------------------------------------------------------------
(***************************************************************************)
(* start_server.                                                           *)
(***************************************************************************)
start_server_beat ==
  /\ main = "beat"
  /\ send_public_queue("main")
  /\ UNCHANGED <<threadVars, clientVars, brokerVars, platformVars, faults>>

wait_public ==
  /\ main = "waitPublic" /\ public_ev > 0
  /\ public_ev' = public_ev - 1
  /\ main' = "waitBusiness"
  /\ UNCHANGED <<mq, mc, hb, business_ev, signed, handed, sendVars, clientVars,
                 brokerVars, platformVars, faults>>

\* Mutant: the wait ends without a signal.
wait_business_Spurious ==
  /\ main = "waitBusiness"
  /\ business_ev' = business_ev - 1
  /\ main' = "ready"
  /\ UNCHANGED <<mq, mc, hb, public_ev, signed, handed, sendVars, clientVars,
                 brokerVars, platformVars, faults>>

wait_business ==
  /\ main = "waitBusiness" /\ business_ev > 0
  /\ business_ev' = business_ev - 1
  /\ main' = "ready"
  /\ UNCHANGED <<mq, mc, hb, public_ev, signed, handed, sendVars, clientVars,
                 brokerVars, platformVars, faults>>

\* heartbeat_func, after its Sleep.
heartbeat_func ==
  /\ hb = "sleep" /\ mc = "recv"
  /\ send_public_queue("hb")
  /\ hb' = "beat"
  /\ beaten' = FALSE
  /\ UNCHANGED <<main, mq, mc, public_ev, business_ev, signed, handed, clientVars,
                 brokerVars, asked, replies, requests, faults>>
-----------------------------------------------------------------------------
(***************************************************************************)
(* start_public_queue (mc = "pub") and start_business_queue (mc = "recv"). *)
(***************************************************************************)
QueueDeclare ==
  /\ mq = "declare"
  /\ \E ok \in BOOLEAN : Rpc(mc, ok)
  /\ mq' = "bind"
  /\ UNCHANGED <<main, mc, hb, public_ev, business_ev, signed, handed, sendVars, conn, platformVars>>

\* Both results are only logged; the event is signalled in any case.  (Each
\* event is waited for once, so what further signals add is left out.)
QueueBind ==
  /\ mq = "bind"
  /\ \E ok \in BOOLEAN : Rpc(mc, ok)
  /\ mq' = "consume"
  /\ IF mc = "pub"
     THEN public_ev' = 1 /\ UNCHANGED business_ev
     ELSE business_ev' = (IF main = "ready" THEN 0 ELSE 1) /\ UNCHANGED public_ev
  /\ UNCHANGED <<main, mc, hb, signed, handed, sendVars, conn, platformVars>>

(***************************************************************************)
(* Consumer: each call adds a consumer.  After an error the public loop    *)
(* calls it again on the same connection; the business loop restarts.      *)
(***************************************************************************)
Consumer_begin ==
  /\ mq = "consume"
  /\ \/ /\ conn[mc] = "up"
        /\ chan' = Opened(mc)
        /\ consumers' = [consumers EXCEPT ![mc] = IF @ < MaxConsumers THEN @ + 1 ELSE @]
        /\ mq' = "wait"
        /\ UNCHANGED <<queue, out, held, faults>>
     \/ /\ Rpc(mc, FALSE)
        /\ mq' = IF mc = "pub" THEN "consume" ELSE "connect"
  /\ UNCHANGED <<main, mc, hb, public_ev, business_ev, signed, handed, sendVars, conn, platformVars>>

Read == /\ mq = "wait" /\ out[mc] # <<>>
        /\ out' = [out EXCEPT ![mc] = Tail(@)]

Hold(c, m) == held' = [held EXCEPT ![c] = IF no_ack(c) \/ conn[c] # "up" THEN @ ELSE Append(@, m)]

\* The business queue: the request goes to insert_task.
Consumer_request ==
  /\ mc = "recv" /\ Read
  /\ Hold(mc, Head(out[mc]))
  /\ handed' = Append(handed, Head(out[mc]))
  /\ mq' = "consume"
  /\ UNCHANGED <<main, mc, hb, public_ev, business_ev, signed, sendVars, clientVars,
                 queue, consumers, platformVars, faults>>

\* The public queue, a message with our serial number: it is handled, but
\* never acknowledged.
Consumer_mine ==
  /\ mc = "pub" /\ Read
  /\ Head(out[mc]) # "F"
  /\ Hold(mc, Head(out[mc]))
  /\ IF Head(out[mc]) = "SI"
     THEN signed' = TRUE /\ mq' = "connect" /\ UNCHANGED sendVars
     ELSE mq' = "sending" /\ send_public_queue("mq") /\ UNCHANGED signed
  /\ UNCHANGED <<main, mc, hb, public_ev, business_ev, handed, clientVars,
                 queue, consumers, platformVars, faults>>

\* A message for another gateway: basic_nack with multiple = 1 gives back
\* whatever we hold; on a dead connection it fails and the channel is closed.
Consumer_nack ==
  /\ mc = "pub" /\ Read
  /\ Head(out[mc]) = "F"
  /\ held' = [held EXCEPT ![mc] = <<>>]
  /\ IF conn[mc] = "up"
     THEN /\ queue' = [queue EXCEPT ![mc] = Append(held[mc], "F") \o @]
          /\ UNCHANGED chan
     ELSE /\ chan' = [chan EXCEPT ![mc] = "null"]
          /\ UNCHANGED queue
  /\ mq' = "consume"
  /\ UNCHANGED <<main, mc, hb, public_ev, business_ev, signed, handed, sendVars, conn,
                 consumers, platformVars, faults>>

\* amqp_consume_message returns no message: on the business queue after
\* MQListenTimeout, on either when the connection is dead or by an exception.
Consumer_none ==
  /\ mq = "wait"
  /\ \/ out[mc] = <<>> /\ (mc = "recv" \/ conn[mc] # "up") /\ UNCHANGED faults
     \/ conn[mc] = "up" /\ Fault
  /\ mq' = "close"
  /\ UNCHANGED <<main, mc, hb, public_ev, business_ev, signed, handed, sendVars, clientVars,
                 brokerVars, platformVars>>

(***************************************************************************)
(* The channel is closed, with what was pushed to it meanwhile.  The reply *)
(* asked for is that of the last call, so the result is timeout_error in   *)
(* most cases where the connection is dead, too.                           *)
(***************************************************************************)
Consumer_close ==
  /\ mq = "close"
  /\ ChannelEnds(mc)
  /\ chan' = [chan EXCEPT ![mc] = "null"]
  /\ \/ mq' = "consume"
     \/ mc = "recv" /\ conn[mc] # "up" /\ mq' = "connect"
  /\ UNCHANGED <<main, mc, hb, public_ev, business_ev, signed, handed, sendVars, conn,
                 platformVars, faults>>

\* connet_business, and restart_business_queue's Disconnect and Connect.
recv_Connect ==
  /\ mq = "connect"
  /\ Connect("recv")
  /\ mq' = "exchange"
  /\ UNCHANGED <<main, mc, hb, public_ev, business_ev, signed, handed, sendVars, platformVars>>

\* The first time the heartbeat thread starts and the public queue is left.
recv_ExchangeDeclare ==
  /\ mq = "exchange"
  /\ ExchangeDeclare("recv")
  /\ IF mc = "pub" THEN hb' = "sleep" /\ mq' = "cancel" ELSE mq' = "declare" /\ UNCHANGED hb
  /\ UNCHANGED <<main, mc, public_ev, business_ev, signed, handed, sendVars, conn, platformVars>>

\* amqp_basic_cancel with the empty tag Consumer left in consumer_tag, which
\* names none of the consumers: the broker keeps them.
CancelConsuming ==
  /\ mq = "cancel"
  /\ mq' = "declare" /\ mc' = "recv"
  /\ UNCHANGED <<main, hb, public_ev, business_ev, signed, handed, sendVars, clientVars,
                 brokerVars, platformVars, faults>>

Listener ==
  \/ QueueDeclare \/ QueueBind \/ Consumer_begin
  \/ Consumer_request \/ Consumer_mine \/ Consumer_nack
  \/ Consumer_none \/ Consumer_close
  \/ recv_Connect \/ recv_ExchangeDeclare \/ CancelConsuming
-----------------------------------------------------------------------------
(***************************************************************************)
(* The broker and the platform.                                            *)
(***************************************************************************)
\* basic_qos(0, 1, 0): one unacknowledged message for each consumer.
Push(c) ==
  /\ consumers[c] > 0 /\ queue[c] # <<>>
  /\ no_ack(c) \/ Len(out[c]) + Len(held[c]) < consumers[c]
  /\ out' = [out EXCEPT ![c] = Append(@, Head(queue[c]))]
  /\ queue' = [queue EXCEPT ![c] = Tail(@)]
  /\ UNCHANGED <<threadVars, sendVars, clientVars, consumers, held, platformVars, faults>>

\* What the client has received already it can still read.
ConnectionLost(c) ==
  /\ conn[c] = "up" /\ Fault
  /\ conn' = [conn EXCEPT ![c] = "dead"]
  /\ queue' = [queue EXCEPT ![c] = Requeued(c)]
  /\ held' = [held EXCEPT ![c] = <<>>]
  /\ consumers' = [consumers EXCEPT ![c] = 0]
  /\ out' \in {out, [out EXCEPT ![c] = <<>>]}
  /\ UNCHANGED <<threadVars, sendVars, chan, platformVars>>

\* The platform answers a sign-in, or asks for another one.
PlatformReply ==
  /\ asked /\ replies < MaxReplies
  /\ replies' = replies + 1
  /\ \E m \in {"SI", "RE"} : queue' = [queue EXCEPT !["pub"] = Append(@, m)]
  /\ UNCHANGED <<threadVars, sendVars, clientVars, consumers, out, held, asked, requests,
                 beaten, faults>>

\* A request for a gateway that has signed in.
PlatformRequest ==
  /\ signed /\ requests < MaxRequests
  /\ requests' = requests + 1
  /\ queue' = [queue EXCEPT !["recv"] = Append(@, requests + 1)]
  /\ UNCHANGED <<threadVars, sendVars, clientVars, consumers, out, held, asked, replies,
                 beaten, faults>>

Sending == send_connect \/ send_declare \/ send_publish

SignNext ==
  \/ Sending \/ start_server_beat \/ wait_public \/ wait_business
  \/ heartbeat_func
  \/ Listener
  \/ \E c \in Clients : Push(c) \/ ConnectionLost(c)
  \/ PlatformReply \/ PlatformRequest

(***************************************************************************)
(* Each thread goes on when it can (the library's calls time out, Sleep    *)
(* ends); the broker pushes what a consumer may have.  Faults are few, so  *)
(* what the properties promise is promised once they have ended.           *)
(***************************************************************************)
SignFairness ==
  /\ WF_signVars(Sending) /\ WF_signVars(start_server_beat) /\ WF_signVars(wait_public)
  /\ WF_signVars(wait_business) /\ WF_signVars(heartbeat_func) /\ WF_signVars(Listener)
  /\ \A c \in Clients : WF_signVars(Push(c))

SignSpec == SignInit /\ [][SignNext]_signVars
FairSignSpec == SignSpec /\ SignFairness
-----------------------------------------------------------------------------
(***************************************************************************)
(* Requests reach insert_task in the order the platform sent them and at   *)
(* most once, over channels closed after a timeout, lost connections and   *)
(* restarts (they may be lost with a channel).                             *)
(***************************************************************************)
RequestsOnceInOrder ==
  \A i, j \in DOMAIN handed : i < j => handed[i] < handed[j]

(***************************************************************************)
(* The platform's messages to this gateway are never lost before it has    *)
(* signed in: each is in the public queue, or pushed or held on a living   *)
(* channel of ours, which gives it back when it ends.                      *)
(***************************************************************************)
Mine(s) == Cardinality({i \in DOMAIN s : s[i] # "F"})
RepliesNotLost ==
  replies = Mine(queue["pub"]) + Mine(held["pub"])
              + IF conn["pub"] = "up" THEN Mine(out["pub"]) ELSE 0

(***************************************************************************)
(* Once it has signed in the gateway always comes back to listening on a   *)
(* living connection to its business queue.                                *)
(***************************************************************************)
ListensAgain == signed ~> (mc = "recv" /\ mq = "wait" /\ conn["recv"] = "up")

(***************************************************************************)
(* Once it has signed in its heartbeats go on arriving, although messages  *)
(* for consumers that were never cancelled can take a confirmation's place *)
(* and every failed send is followed by two reconnects.                    *)
(***************************************************************************)
HeartbeatsArrive == signed ~> (hb # "none" /\ beaten)
=============================================================================
