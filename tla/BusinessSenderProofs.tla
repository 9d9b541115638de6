------------------------ MODULE BusinessSenderProofs ------------------------
(***************************************************************************)
(* Proofs about BusinessSender, for any number of responses and            *)
(* connections: what the broker gets, in which order, what a confirmation  *)
(* is for, and which connection the send thread uses.                      *)
(***************************************************************************)
EXTENDS BusinessSender, TLAPS

\* The steps of the sender's thread while it holds a message.
Sending == {"send", "connect", "declare", "publish", "basic", "ack", "done"}

\* The mutex and the response the send thread works on.
BusyInv ==
  /\ spc \in Sending <=> mtx = "send"
  /\ spc \in Sending <=> msg # NULL
  /\ mtx = "push" => queued < MaxMsgs
  /\ spc \in {"declare", "basic", "ack"} => m_pConn # NULL

\* The responses wait in the order they were queued, behind the current one.
ListInv ==
  /\ Len(list) <= queued
  /\ \A i \in DOMAIN list : list[i] = queued - Len(list) + i
  /\ spc \in Sending => msg = queued - Len(list)

\* A new connection has nothing in it and is nobody's.
NewInv ==
  \A c \in Conns : status[c] = "new" => acks[c] = <<>> /\ m_pConn # c /\ m_pDisConn # c

\* The send thread is about to use m_pConn, or may go on using it.
Uses == spc \in {"declare", "publish", "basic", "ack"} \/ ~republic

\* A connection it uses is not the one to be closed.
UseInv ==
  Uses /\ m_pConn # NULL => m_pDisConn # m_pConn /\ status[m_pConn] # "destroyed"

\* On a connection in use there is no confirmation but that of the response
\* just published.
AckInv ==
  /\ Uses /\ m_pConn # NULL =>
       acks[m_pConn] = <<>> \/ (spc = "ack" /\ acks[m_pConn] = <<msg>>)
  /\ confirmed # NULL => spc = "done" /\ confirmed = msg

\* What the broker has got of the current response: nothing before its first
\* publishing, one copy at most before its second.
CopiesInv ==
  /\ \A i \in DOMAIN received : received[i] <= queued - Len(list)
  /\ spc \in {"send", "publish", "basic"} /\ ~republic => \A i \in DOMAIN received : received[i] < msg
  /\ (spc = "ack" /\ ~republic) \/ (spc \in Sending \ {"ack", "done"} /\ republic) =>
       (Len(received) >= 2 => received[Len(received) - 1] < msg)
-----------------------------------------------------------------------------
\* What the numbering of messages and connections is good for.
LEMMA Numbers == /\ NULL \notin Msgs /\ NULL \notin Conns /\ MaxMsgs \in Nat /\ 1 \in Conns
                 /\ \A q \in 0 .. MaxMsgs : q < MaxMsgs => q + 1 \in Msgs /\ q + 1 \in 0 .. MaxMsgs
                 /\ Msgs \subseteq Nat /\ Conns \subseteq Nat
BY SenderAssumption DEF NULL, Msgs, Conns

\* A failed call leads to the reconnect, or ends the attempts.
LEMMA FailedEffect ==
  ASSUME TypeOK, Failed
  PROVE  /\ republic' = TRUE /\ disconnet_ev' \in Nat
         /\ spc' = IF republic THEN "done" ELSE "send"
BY DEF Failed, TypeOK

\* push_back appends the next number; Element 0 is the oldest.
LEMMA ListSteps ==
  ASSUME TypeOK, ListInv
  PROVE  /\ queued < MaxMsgs =>
              /\ Append(list, queued + 1) \in Seq(Msgs)
              /\ Len(Append(list, queued + 1)) = Len(list) + 1
              /\ \A i \in DOMAIN Append(list, queued + 1) :
                   Append(list, queued + 1)[i] = queued - Len(list) + i
         /\ list # <<>> =>
              /\ Head(list) \in Msgs /\ Head(list) = queued - Len(list) + 1
              /\ Tail(list) \in Seq(Msgs) /\ Len(Tail(list)) = Len(list) - 1
              /\ \A i \in DOMAIN Tail(list) : Tail(list)[i] = queued - Len(list) + 1 + i
<1>1. list \in Seq(Msgs) /\ queued \in 0 .. MaxMsgs /\ Len(list) \in Nat
  BY DEF TypeOK
<1>2. \A i \in 1 .. Len(list) : list[i] = queued - Len(list) + i
  BY <1>1 DEF ListInv
<1>3. ASSUME queued < MaxMsgs
      PROVE  /\ Append(list, queued + 1) \in Seq(Msgs)
             /\ Len(Append(list, queued + 1)) = Len(list) + 1
             /\ \A i \in DOMAIN Append(list, queued + 1) :
                  Append(list, queued + 1)[i] = queued - Len(list) + i
  <2>1. queued + 1 \in Msgs
    BY <1>1, <1>3, Numbers
  <2>2. /\ Append(list, queued + 1) \in Seq(Msgs)
        /\ Len(Append(list, queued + 1)) = Len(list) + 1
        /\ \A i \in 1 .. Len(list) : Append(list, queued + 1)[i] = list[i]
        /\ Append(list, queued + 1)[Len(list) + 1] = queued + 1
    BY <1>1, <2>1
  <2>3. \A i \in 1 .. Len(list) + 1 : i \in 1 .. Len(list) \/ i = Len(list) + 1
    BY <1>1
  <2>4. queued \in Nat
    BY <1>1, Numbers
  <2>5. QED
    BY <1>1, <1>2, <2>2, <2>3, <2>4
<1>4. ASSUME list # <<>>
      PROVE  /\ Head(list) \in Msgs /\ Head(list) = queued - Len(list) + 1
             /\ Tail(list) \in Seq(Msgs) /\ Len(Tail(list)) = Len(list) - 1
             /\ \A i \in DOMAIN Tail(list) : Tail(list)[i] = queued - Len(list) + 1 + i
  <2>1. /\ Len(list) >= 1 /\ Head(list) = list[1] /\ Head(list) \in Msgs
        /\ Tail(list) \in Seq(Msgs) /\ Len(Tail(list)) = Len(list) - 1
        /\ \A i \in 1 .. Len(list) - 1 : Tail(list)[i] = list[i + 1]
    BY <1>1, <1>4
  <2>2. queued \in Nat
    BY <1>1, Numbers
  <2>3. QED
    BY <1>1, <1>2, <2>1, <2>2
<1>5. QED
  BY <1>3, <1>4
-----------------------------------------------------------------------------
(***************************************************************************)
(* Types.                                                                  *)
(***************************************************************************)
Kept == TypeOK /\ BusyInv /\ ListInv

\* The parts of the program the list is not among.
LEMMA KeptFrame ==
  ASSUME Kept, list' = list, queued' = queued, mtx' = mtx, msg' = msg,
         spc' \in SenderSteps, spc' \in Sending <=> spc \in Sending,
         spc' \in {"declare", "basic", "ack"} => m_pConn' # NULL,
         ev' \in Nat, republic' \in BOOLEAN, m_pConn' \in Conns \cup {NULL},
         channel_id' \in BOOLEAN, m_pDisConn' \in Conns \cup {NULL},
         status' \in [Conns -> {"new", "up", "down", "destroyed"}],
         opened' \subseteq Conns, confirms' \subseteq Conns,
         acks' \in [Conns -> Seq(Msgs)], disconnet_ev' \in Nat,
         dpc' \in {"wait", "channel", "close", "destroy", "forget", "crashed"},
         received' \in Seq(Msgs), confirmed' \in Msgs \cup {NULL}
  PROVE  Kept'
BY DEF Kept, TypeOK, BusyInv, ListInv

\* Every step keeps Kept: the types, the mutex and the list.
LEMMA KeptStep ==
  ASSUME Kept, [Next]_vars
  PROVE  Kept'
<1>t. /\ ev \in Nat /\ queued \in 0 .. MaxMsgs /\ spc \in SenderSteps
      /\ msg \in Msgs \cup {NULL} /\ republic \in BOOLEAN /\ m_pConn \in Conns \cup {NULL}
      /\ channel_id \in BOOLEAN /\ m_pDisConn \in Conns \cup {NULL}
      /\ status \in [Conns -> {"new", "up", "down", "destroyed"}]
      /\ opened \subseteq Conns /\ confirms \subseteq Conns
      /\ acks \in [Conns -> Seq(Msgs)] /\ disconnet_ev \in Nat
      /\ dpc \in {"wait", "channel", "close", "destroy", "forget", "crashed"}
      /\ received \in Seq(Msgs) /\ confirmed \in Msgs \cup {NULL}
      /\ list \in Seq(Msgs) /\ mtx \in {"free", "push", "send"}
  BY DEF Kept, TypeOK
<1>b. /\ spc \in Sending <=> mtx = "send"
      /\ spc \in Sending <=> msg # NULL
      /\ mtx = "push" => queued < MaxMsgs
      /\ spc \in {"declare", "basic", "ack"} => m_pConn # NULL
  BY DEF Kept, BusyInv
<1>f. Failed => /\ republic' \in BOOLEAN /\ disconnet_ev' \in Nat
                /\ spc' \in {"done", "send"}
  BY FailedEffect DEF Kept
<1> USE DEF Sending, SenderSteps
<1>1. CASE send_business_queueEx
  BY <1>1, <1>t, <1>b
  DEF send_business_queueEx, Kept, TypeOK, BusyInv, ListInv, clientVars, brokerVars, channelVars, closerVars
<1>2. CASE push_back
  <2>1. /\ spc \notin Sending /\ queued < MaxMsgs /\ queued' = queued + 1 /\ mtx' = "free"
        /\ list' = Append(list, queued + 1) /\ ev' = ev + 1
        /\ UNCHANGED <<spc, msg, republic, clientVars, brokerVars, closerVars, confirmed>>
    BY <1>2, <1>b DEF push_back
  <2>2. /\ list' \in Seq(Msgs) /\ Len(list') = Len(list) + 1
        /\ \A i \in DOMAIN list' : list'[i] = queued - Len(list) + i
    BY <2>1, ListSteps DEF Kept
  <2>3. queued' \in 0 .. MaxMsgs /\ ev' \in Nat
    BY <1>t, <2>1, Numbers
  <2>4. TypeOK'
    BY <1>t, <2>1, <2>2, <2>3 DEF TypeOK, clientVars, brokerVars, channelVars, closerVars
  <2>5. BusyInv'
    BY <1>b, <2>1 DEF BusyInv, clientVars
  <2>6. ListInv'
    <3>1. Len(list) \in Nat /\ queued \in Nat
      BY <1>t
    <3>2. queued' - Len(list') = queued - Len(list)
      BY <2>1, <2>2, <3>1
    <3>3. Len(list') <= queued'
      BY <2>1, <2>2, <3>1 DEF Kept, ListInv
    <3>4. QED
      BY <2>1, <2>2, <3>2, <3>3 DEF ListInv
  <2>7. QED
    BY <2>4, <2>5, <2>6 DEF Kept
<1>3. CASE sent_business_check
  BY <1>3, <1>t, <1>b, KeptFrame
  DEF sent_business_check, listVars, clientVars, brokerVars, channelVars, closerVars
<1>4. CASE sent_business_wait
  <2>1. ev' \in Nat
    BY <1>4, <1>t DEF sent_business_wait
  <2>2. QED
    BY <1>4, <1>t, <1>b, <2>1, KeptFrame
    DEF sent_business_wait, clientVars, brokerVars, channelVars, closerVars
<1>5. CASE sent_business_take
  <2>1. /\ list # <<>> /\ mtx' = "send" /\ msg' = Head(list) /\ list' = Tail(list) /\ spc' = "send"
        /\ UNCHANGED <<ev, queued, republic, clientVars, brokerVars, closerVars, confirmed>>
    BY <1>5 DEF sent_business_take
  <2>2. /\ Head(list) \in Msgs /\ Head(list) = queued - Len(list) + 1
        /\ Tail(list) \in Seq(Msgs) /\ Len(Tail(list)) = Len(list) - 1
        /\ \A i \in DOMAIN Tail(list) : Tail(list)[i] = queued - Len(list) + 1 + i
    BY <2>1, ListSteps DEF Kept
  <2>3. TypeOK'
    BY <1>t, <2>1, <2>2 DEF TypeOK, clientVars, brokerVars, channelVars, closerVars
  <2>4. BusyInv'
    BY <2>1, <2>2, Numbers DEF BusyInv
  <2>5. ListInv'
    <3>1. Len(list) \in Nat /\ queued \in Nat
      BY <1>t
    <3>2. queued' - Len(list') = queued - Len(list) + 1
      BY <2>1, <2>2, <3>1
    <3>3. Len(list') <= queued'
      BY <2>1, <2>2, <3>1 DEF Kept, ListInv
    <3>4. QED
      BY <2>1, <2>2, <3>2, <3>3 DEF ListInv
  <2>6. QED
    BY <2>3, <2>4, <2>5 DEF Kept
<1>6. CASE send_business_queue
  BY <1>6, <1>t, <1>b, KeptFrame
  DEF send_business_queue, listVars, clientVars, brokerVars, channelVars, closerVars
<1>7. CASE Connect
  <2>1. /\ m_pConn' \in Conns \cup {NULL} /\ republic' \in BOOLEAN /\ disconnet_ev' \in Nat
        /\ status' \in [Conns -> {"new", "up", "down", "destroyed"}]
        /\ channel_id' \in BOOLEAN
        /\ spc' \in {"done", "send"} \/ (spc' = "declare" /\ m_pConn' # NULL)
    BY <1>7, <1>t, <1>f, Numbers DEF Connect
  <2>2. <<>> \in Seq(Msgs)
    OBVIOUS
  <2>3. /\ opened' \subseteq Conns /\ confirms' \subseteq Conns
        /\ acks' \in [Conns -> Seq(Msgs)]
    BY <1>7, <1>t, <2>2 DEF Connect, channelVars
  <2>4. QED
    BY <1>7, <1>t, <1>b, <2>1, <2>3, KeptFrame DEF Connect, listVars
<1>8. CASE ExchangeDeclare
  <2>1. /\ republic' \in BOOLEAN /\ disconnet_ev' \in Nat
        /\ opened' \subseteq Conns /\ confirms' \subseteq Conns /\ channel_id' \in BOOLEAN
        /\ spc' \in {"done", "send", "publish"}
    BY <1>8, <1>t, <1>b, <1>f DEF ExchangeDeclare, channelVars
  <2>2. QED
    BY <1>8, <1>t, <1>b, <2>1, KeptFrame DEF ExchangeDeclare, listVars
<1>9. CASE Publish
  <2>1. \A ok \in BOOLEAN : m_pConn # NULL /\ channel_open(ok) =>
          /\ status' \in [Conns -> {"new", "up", "down", "destroyed"}]
          /\ opened' \subseteq Conns /\ confirms' \subseteq Conns
    BY <1>t DEF channel_open, channelVars
  <2>2. /\ republic' \in BOOLEAN /\ disconnet_ev' \in Nat
        /\ opened' \subseteq Conns /\ confirms' \subseteq Conns /\ channel_id' \in BOOLEAN
        /\ status' \in [Conns -> {"new", "up", "down", "destroyed"}]
        /\ spc' \in {"done", "send"} \/ (spc' = "basic" /\ m_pConn # NULL)
    BY <1>9, <1>t, <1>f, <2>1 DEF Publish, channelVars
  <2>3. QED
    BY <1>9, <1>t, <1>b, <2>2, KeptFrame DEF Publish, listVars
<1>10. CASE amqp_basic_publish
  <2>1. m_pConn \in Conns /\ msg \in Msgs
    BY <1>10, <1>t, <1>b DEF amqp_basic_publish
  <2>2. Append(received, msg) \in Seq(Msgs) /\ Append(acks[m_pConn], msg) \in Seq(Msgs)
    BY <1>t, <2>1
  <2>3. /\ received' \in {received, Append(received, msg)}
        /\ acks' \in {acks, [acks EXCEPT ![m_pConn] = Append(acks[m_pConn], msg)]}
        /\ opened' \subseteq opened /\ confirms' \subseteq confirms
        /\ channel_id' \in {channel_id, FALSE} /\ m_pDisConn' \in {m_pDisConn, m_pConn}
        /\ republic' \in BOOLEAN /\ disconnet_ev' \in Nat
        /\ spc' \in {"done", "send", "ack"}
    BY <1>10, <1>t, <1>f DEF amqp_basic_publish, channel_close, channelVars
  <2>4. received' \in Seq(Msgs) /\ acks' \in [Conns -> Seq(Msgs)]
    BY <1>t, <2>1, <2>2, <2>3
  <2>5. m_pConn' = m_pConn /\ spc = "basic" /\ spc' \in SenderSteps
    BY <1>10, <2>3 DEF amqp_basic_publish
  <2>6. UNCHANGED <<list, mtx, ev, queued, msg, m_pConn, status, dpc, confirmed>>
    BY <1>10 DEF amqp_basic_publish, listVars
  <2>7. QED
    BY <1>t, <1>b, <2>1, <2>3, <2>4, <2>5, <2>6, KeptFrame
<1>11. CASE wait_frame
  <2>1. m_pConn \in Conns
    BY <1>11, <1>t, <1>b DEF wait_frame
  <2>2. acks[m_pConn] # <<>> => Head(acks[m_pConn]) \in Msgs /\ Tail(acks[m_pConn]) \in Seq(Msgs)
    BY <1>t, <2>1
  <2>3. /\ \/ acks' = acks /\ confirmed' = confirmed
           \/ /\ acks[m_pConn] # <<>> /\ confirmed' = Head(acks[m_pConn])
              /\ acks' = [acks EXCEPT ![m_pConn] = Tail(acks[m_pConn])]
        /\ m_pDisConn' \in {m_pDisConn, m_pConn}
        /\ republic' \in BOOLEAN /\ disconnet_ev' \in Nat
        /\ spc' \in {"done", "send"} /\ spc = "ack"
    BY <1>11, <1>t, <1>f DEF wait_frame
  <2>4. acks' \in [Conns -> Seq(Msgs)] /\ confirmed' \in Msgs \cup {NULL}
    BY <1>t, <2>1, <2>2, <2>3
  <2>5. UNCHANGED <<list, mtx, ev, queued, msg, m_pConn, channel_id, status, opened, confirms,
                    received, dpc>>
    BY <1>11 DEF wait_frame, listVars, channelVars
  <2>6. QED
    BY <1>t, <1>b, <2>1, <2>3, <2>4, <2>5, KeptFrame
<1>12. CASE sent_business_done
  BY <1>12, <1>t, <1>b, Numbers
  DEF sent_business_done, Kept, TypeOK, BusyInv, ListInv, clientVars, brokerVars, channelVars, closerVars
<1>13. CASE DisconnectEx
  <2>1. /\ UNCHANGED <<list, mtx, ev, queued, spc, msg, republic, m_pConn, acks, received, confirmed>>
        /\ disconnet_ev' \in Nat /\ dpc' \in {"wait", "channel", "close", "destroy", "forget", "crashed"}
        /\ opened' \subseteq Conns /\ confirms' \subseteq Conns
        /\ channel_id' \in BOOLEAN /\ m_pDisConn' \in Conns \cup {NULL}
        /\ status' \in [Conns -> {"new", "up", "down", "destroyed"}]
    <3>1. CASE DisconnectEx_begin
      BY <3>1, <1>t DEF DisconnectEx_begin, listVars, clientVars, brokerVars, channelVars
    <3>2. CASE DisconnectEx_channel
      BY <3>2, <1>t DEF DisconnectEx_channel, UsesConnection, channel_close, listVars, channelVars
    <3>3. CASE DisconnectEx_close
      BY <3>3, <1>t DEF DisconnectEx_close, UsesConnection, listVars, clientVars, channelVars
    <3>4. CASE DisconnectEx_destroy
      BY <3>4, <1>t DEF DisconnectEx_destroy, UsesConnection, listVars, clientVars, channelVars
    <3>5. CASE DisconnectEx_forget
      BY <3>5, <1>t DEF DisconnectEx_forget, listVars, brokerVars, channelVars
    <3>6. QED
      BY <1>13, <3>1, <3>2, <3>3, <3>4, <3>5 DEF DisconnectEx
  <2>2. QED
    BY <1>t, <1>b, <2>1, KeptFrame
<1>14. ASSUME NEW c \in Conns, ConnectionDown(c) PROVE Kept'
  <2>1. <<>> \in Seq(Msgs)
    OBVIOUS
  <2>2. acks' \in [Conns -> Seq(Msgs)] /\ status' \in [Conns -> {"new", "up", "down", "destroyed"}]
    BY <1>14, <1>t, <2>1 DEF ConnectionDown
  <2>3. QED
    BY <1>14, <1>t, <1>b, <2>2, KeptFrame
    DEF ConnectionDown, listVars, clientVars, channelVars, closerVars
<1>15. CASE UNCHANGED vars
  BY <1>15, <1>t, <1>b, KeptFrame
  DEF vars, listVars, clientVars, brokerVars, channelVars, closerVars
<1>16. QED
  BY <1>1, <1>2, <1>3, <1>4, <1>5, <1>6, <1>7, <1>8, <1>9, <1>10, <1>11, <1>12, <1>13, <1>14, <1>15
  DEF Next, Sender

(***************************************************************************)
(* Type correctness; the responses wait in the order they were queued.     *)
(***************************************************************************)
THEOREM TypeCorrect == Spec => [](TypeOK /\ BusyInv /\ ListInv)
<1>1. Init => Kept
  <2> SUFFICES ASSUME Init PROVE Kept
    OBVIOUS
  <2>1. <<>> \in Seq(Msgs) /\ Len(<<>>) = 0 /\ 0 \in 0 .. MaxMsgs
    BY Numbers
  <2>2. /\ status \in [Conns -> {"new", "up", "down", "destroyed"}] /\ channel_id \in BOOLEAN
        /\ acks \in [Conns -> Seq(Msgs)] /\ opened \subseteq Conns
        /\ confirms \subseteq Conns /\ m_pConn \in Conns \cup {NULL}
    BY <2>1, Numbers DEF Init
  <2>3. TypeOK
    BY <2>1, <2>2 DEF Init, TypeOK, SenderSteps
  <2>4. BusyInv /\ ListInv
    BY <2>1 DEF Init, BusyInv, ListInv, Sending
  <2>5. QED
    BY <2>3, <2>4 DEF Kept
<1>2. Kept => TypeOK /\ BusyInv /\ ListInv
  BY DEF Kept
<1>3. QED
  BY <1>1, <1>2, KeptStep, PTL DEF Spec
-----------------------------------------------------------------------------
(***************************************************************************)
(* The connections.                                                        *)
(***************************************************************************)
ConnInv == NewInv /\ UseInv

\* No connection is new again, and the client's two stay or go.
LEMMA ConnFrame ==
  ASSUME TypeOK, ConnInv,
         m_pConn' \in {m_pConn, NULL}, m_pDisConn' \in {m_pDisConn, m_pConn, NULL},
         \A c \in Conns : status'[c] = "new" => status[c] = "new" /\ acks'[c] = acks[c],
         Uses' => /\ Uses /\ (m_pDisConn' # m_pDisConn => m_pDisConn' = NULL)
                  /\ status'[m_pConn] = "destroyed" =>
                       status[m_pConn] = "destroyed" \/ m_pConn = m_pDisConn
  PROVE  ConnInv'
<1>1. NULL \notin Conns
  BY Numbers
<1>2. NewInv'
  BY <1>1 DEF ConnInv, NewInv
<1>3. UseInv'
  BY DEF ConnInv, UseInv
<1>4. QED
  BY <1>2, <1>3 DEF ConnInv

\* Every step keeps ConnInv: which connection may be gone, and who knows.
LEMMA ConnStep ==
  ASSUME TypeOK, BusyInv, ConnInv, [Next]_vars
  PROVE  ConnInv'
<1>t. /\ status \in [Conns -> {"new", "up", "down", "destroyed"}]
      /\ acks \in [Conns -> Seq(Msgs)] /\ m_pConn \in Conns \cup {NULL}
      /\ m_pDisConn \in Conns \cup {NULL} /\ NULL \notin Conns /\ republic \in BOOLEAN
  BY Numbers DEF TypeOK
<1>u. /\ Uses <=> spc \in {"declare", "publish", "basic", "ack"} \/ ~republic
      /\ Uses' <=> spc' \in {"declare", "publish", "basic", "ack"} \/ ~republic'
  BY DEF Uses
<1>n. \A c \in Conns : status[c] = "new" => acks[c] = <<>> /\ m_pConn # c /\ m_pDisConn # c
  BY DEF ConnInv, NewInv
<1>f. Failed => ~Uses'
  BY <1>u, FailedEffect
<1>1. ASSUME UNCHANGED <<status, acks, m_pConn, m_pDisConn>>, Uses' => Uses PROVE ConnInv'
  BY <1>1, ConnFrame
<1>2. CASE send_business_queueEx \/ push_back
  BY <1>1, <1>2, <1>u DEF send_business_queueEx, push_back, clientVars, brokerVars
<1>3. CASE sent_business_check \/ sent_business_wait \/ sent_business_take
  BY <1>1, <1>3, <1>u
  DEF sent_business_check, sent_business_wait, sent_business_take, clientVars, brokerVars
<1>4. CASE send_business_queue \/ sent_business_done
  BY <1>1, <1>4, <1>u DEF send_business_queue, sent_business_done, clientVars, brokerVars
<1>5. CASE Connect
  <2>1. CASE m_pConn' = NULL /\ Failed /\ UNCHANGED <<status, acks>>
    BY <1>5, <1>f, <2>1, ConnFrame DEF Connect
  <2>2. ASSUME NEW c \in Conns, status[c] = "new", m_pConn' = c,
               acks' = [d \in Conns |-> <<>>],
               \/ status' = [status EXCEPT ![c] = "up"]
               \/ status' = [status EXCEPT ![c] = "down"]
        PROVE  ConnInv'
    <3>1. m_pDisConn' = m_pDisConn /\ \A d \in Conns : acks'[d] = <<>>
      BY <1>5, <2>2 DEF Connect
    <3>2. status'[c] \in {"up", "down"} /\ \A d \in Conns \ {c} : status'[d] = status[d]
      BY <1>t, <2>2
    <3>3. NewInv'
      BY <1>n, <2>2, <3>1, <3>2 DEF NewInv
    <3>4. UseInv'
      BY <1>n, <2>2, <3>1, <3>2 DEF UseInv
    <3>5. QED
      BY <3>3, <3>4 DEF ConnInv
  <2>3. QED
    BY <1>5, <2>1, <2>2 DEF Connect
<1>6. CASE ExchangeDeclare
  BY <1>1, <1>6, <1>u DEF ExchangeDeclare
<1>7. CASE Publish
  <2>1. /\ UNCHANGED <<acks, m_pConn, m_pDisConn>> /\ Uses
        /\ \/ status' = status
           \/ /\ m_pConn # NULL
              /\ status' = [status EXCEPT ![m_pConn] = IF @ = "up" THEN "down" ELSE @]
    BY <1>7, <1>u DEF Publish, channel_open
  <2>2. QED
    BY <1>t, <2>1, ConnFrame
<1>8. CASE amqp_basic_publish
  <2>1. m_pConn \in Conns /\ Uses /\ UNCHANGED <<status, m_pConn>>
    BY <1>8, <1>t, <1>u DEF amqp_basic_publish, BusyInv
  <2>2. status[m_pConn] # "new"
    BY <1>n, <2>1
  <2>3. \A c \in Conns : c # m_pConn => acks'[c] = acks[c]
    BY <1>t, <1>8 DEF amqp_basic_publish
  <2>4. m_pDisConn' = m_pDisConn \/ (m_pDisConn' = m_pConn /\ ~Uses')
    BY <1>8, <1>f DEF amqp_basic_publish
  <2>5. QED
    BY <1>t, <2>1, <2>2, <2>3, <2>4, ConnFrame
<1>9. CASE wait_frame
  <2>1. m_pConn \in Conns /\ Uses /\ UNCHANGED <<status, m_pConn>>
    BY <1>9, <1>t, <1>u DEF wait_frame, BusyInv
  <2>2. status[m_pConn] # "new"
    BY <1>n, <2>1
  <2>3. \A c \in Conns : c # m_pConn => acks'[c] = acks[c]
    BY <1>t, <1>9 DEF wait_frame
  <2>4. m_pDisConn' = m_pDisConn \/ (m_pDisConn' = m_pConn /\ ~Uses')
    BY <1>9, <1>f DEF wait_frame
  <2>5. QED
    BY <1>t, <2>1, <2>2, <2>3, <2>4, ConnFrame
<1>10. CASE DisconnectEx_begin \/ DisconnectEx_channel \/ DisconnectEx_forget
  <2>1. /\ UNCHANGED <<status, acks, m_pConn, spc, republic>>
        /\ m_pDisConn' \in {m_pDisConn, NULL}
    BY <1>10
    DEF DisconnectEx_begin, DisconnectEx_channel, DisconnectEx_forget, clientVars, brokerVars
  <2>2. QED
    BY <1>u, <2>1, ConnFrame
<1>11. CASE DisconnectEx_close
  <2>1. /\ UNCHANGED <<acks, m_pConn, m_pDisConn, spc, republic>>
        /\ \/ status' = status
           \/ m_pDisConn \in Conns /\ status' = [status EXCEPT ![m_pDisConn] = "down"]
    BY <1>11, <1>t DEF DisconnectEx_close, clientVars
  <2>2. \A c \in Conns : status'[c] = status[c] \/ status'[c] = "down"
    BY <1>t, <2>1
  <2>3. m_pConn \in Conns \/ m_pConn = NULL
    BY <1>t
  <2>4. Uses' => Uses
    BY <1>u, <2>1
  <2>5. CASE m_pConn \in Conns
    BY <2>1, <2>2, <2>4, <2>5, ConnFrame
  <2>6. CASE m_pConn = NULL
    <3>1. NewInv'
      BY <1>n, <1>t, <2>1, <2>2, <2>6 DEF NewInv
    <3>2. UseInv'
      BY <2>1, <2>6 DEF UseInv
    <3>3. QED
      BY <3>1, <3>2 DEF ConnInv
  <2>7. QED
    BY <2>3, <2>5, <2>6
<1>12. CASE DisconnectEx_destroy
  <2>1. /\ UNCHANGED <<acks, m_pConn, m_pDisConn, spc, republic>>
        /\ \/ status' = status
           \/ m_pDisConn \in Conns /\ status' = [status EXCEPT ![m_pDisConn] = "destroyed"]
    BY <1>12, <1>t DEF DisconnectEx_destroy, clientVars
  <2>2. \A c \in Conns : status'[c] = status[c] \/ (status'[c] = "destroyed" /\ c = m_pDisConn)
    BY <1>t, <2>1
  <2>3. NewInv'
    BY <1>n, <1>t, <2>1, <2>2 DEF NewInv
  <2>4. UseInv'
    BY <1>t, <1>u, <2>1, <2>2 DEF UseInv, ConnInv
  <2>5. QED
    BY <2>3, <2>4 DEF ConnInv
<1>13. ASSUME NEW c \in Conns, ConnectionDown(c) PROVE ConnInv'
  <2>1. /\ UNCHANGED <<m_pConn, m_pDisConn, spc, republic>>
        /\ status[c] = "up" /\ status' = [status EXCEPT ![c] = "down"]
        /\ \A d \in Conns \ {c} : acks'[d] = acks[d]
    BY <1>13, <1>t DEF ConnectionDown, clientVars
  <2>2. QED
    BY <1>t, <1>u, <2>1, ConnFrame
<1>14. CASE UNCHANGED vars
  BY <1>1, <1>14, <1>u DEF vars, clientVars, brokerVars
<1>15. QED
  BY <1>2, <1>3, <1>4, <1>5, <1>6, <1>7, <1>8, <1>9, <1>10, <1>11, <1>12, <1>13, <1>14
  DEF Next, Sender, DisconnectEx

\* The broker's side of a connection the send thread may use.
LEMMA ConnCorrect == Spec => []ConnInv
<1>1. Init => ConnInv
  BY Numbers DEF Init, ConnInv, NewInv, UseInv
<1>2. QED
  BY <1>1, ConnStep, TypeCorrect, PTL DEF Spec

(***************************************************************************)
(* The send thread never works on a connection that was destroyed.         *)
(***************************************************************************)
THEOREM NeverUsesDestroyedCorrect == Spec => []NeverUsesDestroyed
<1>1. ConnInv => NeverUsesDestroyed
  BY DEF ConnInv, UseInv, Uses, NeverUsesDestroyed
<1>2. QED
  BY <1>1, ConnCorrect, PTL
-----------------------------------------------------------------------------
(***************************************************************************)
(* The confirmations.                                                      *)
(***************************************************************************)
LEMMA AckFrame ==
  ASSUME TypeOK, AckInv, m_pConn' = m_pConn, acks' = acks, Uses' => Uses,
         \/ UNCHANGED <<spc, msg>>
         \/ spc # "ack" /\ spc' # "ack",
         confirmed' = NULL \/ (confirmed' = confirmed /\ spc' = spc /\ msg' = msg)
  PROVE  AckInv'
<1>1. Uses' /\ m_pConn # NULL => acks[m_pConn] = <<>> \/ (spc = "ack" /\ acks[m_pConn] = <<msg>>)
  BY DEF AckInv
<1>2. Uses' /\ m_pConn' # NULL => acks'[m_pConn'] = <<>> \/ (spc' = "ack" /\ acks'[m_pConn'] = <<msg'>>)
  BY <1>1
<1>3. confirmed' # NULL => spc' = "done" /\ confirmed' = msg'
  BY DEF AckInv
<1>4. QED
  BY <1>2, <1>3 DEF AckInv

\* Every step keeps AckInv, which pairs an acknowledgement with its delivery.
LEMMA AckStep ==
  ASSUME TypeOK, BusyInv, ConnInv, AckInv, [Next]_vars
  PROVE  AckInv'
<1>t. /\ acks \in [Conns -> Seq(Msgs)] /\ m_pConn \in Conns \cup {NULL} /\ NULL \notin Conns
      /\ msg \in Msgs \cup {NULL} /\ republic \in BOOLEAN
  BY Numbers DEF TypeOK
<1>u. /\ Uses <=> spc \in {"declare", "publish", "basic", "ack"} \/ ~republic
      /\ Uses' <=> spc' \in {"declare", "publish", "basic", "ack"} \/ ~republic'
  BY DEF Uses
<1>f. Failed => ~Uses' /\ spc' \in {"done", "send"}
  BY <1>u, FailedEffect
<1>c. spc # "done" => confirmed = NULL
  BY DEF AckInv
<1>1. CASE send_business_queueEx \/ push_back
  BY <1>1, <1>u, AckFrame DEF send_business_queueEx, push_back, clientVars, brokerVars
<1>2. CASE sent_business_check \/ sent_business_wait \/ sent_business_take
  BY <1>2, <1>u, <1>c, AckFrame DEF sent_business_check, sent_business_wait, sent_business_take,
     clientVars, brokerVars
<1>3. CASE send_business_queue \/ sent_business_done
  BY <1>3, <1>u, <1>c, AckFrame DEF send_business_queue, sent_business_done, clientVars, brokerVars
<1>4. CASE Connect
  <2>1. confirmed' = NULL
    BY <1>4, <1>c DEF Connect
  <2>2. CASE m_pConn' = NULL
    BY <2>1, <2>2 DEF AckInv
  <2>3. ASSUME NEW c \in Conns, m_pConn' = c, acks' = [d \in Conns |-> <<>>] PROVE AckInv'
    <3>1. acks'[m_pConn'] = <<>>
      BY <2>3
    <3>2. QED
      BY <2>1, <3>1 DEF AckInv
  <2>4. QED
    BY <1>4, <2>2, <2>3 DEF Connect
<1>5. CASE ExchangeDeclare \/ Publish
  <2>1. /\ UNCHANGED <<acks, m_pConn, msg, confirmed>> /\ spc \in {"declare", "publish"}
        /\ spc' \in {"publish", "basic", "done", "send"}
    BY <1>5, <1>f DEF ExchangeDeclare, Publish
  <2>2. QED
    BY <1>u, <1>c, <2>1, AckFrame
<1>6. CASE amqp_basic_publish
  <2>1. /\ spc = "basic" /\ m_pConn \in Conns /\ Uses
        /\ UNCHANGED <<m_pConn, msg, confirmed>> /\ confirmed = NULL
    BY <1>6, <1>t, <1>u, <1>c DEF amqp_basic_publish, BusyInv
  <2>2. acks[m_pConn] = <<>>
    BY <2>1, <1>t DEF AckInv
  <2>3. \/ ~Uses'
        \/ spc' = "ack" /\ acks' = acks
        \/ spc' = "ack" /\ acks' = [acks EXCEPT ![m_pConn] = Append(@, msg)]
    BY <1>6, <1>f DEF amqp_basic_publish
  <2>4. CASE ~Uses'
    BY <2>1, <2>4 DEF AckInv
  <2>5. CASE spc' = "ack" /\ acks' = acks
    BY <2>1, <2>2, <2>5 DEF AckInv
  <2>6. CASE spc' = "ack" /\ acks' = [acks EXCEPT ![m_pConn] = Append(@, msg)]
    <3>1. acks'[m_pConn] = <<msg>>
      BY <1>t, <2>1, <2>2, <2>6
    <3>2. QED
      BY <2>1, <2>6, <3>1 DEF AckInv
  <2>7. QED
    BY <2>3, <2>4, <2>5, <2>6
<1>7. CASE wait_frame
  <2>1. /\ spc = "ack" /\ m_pConn \in Conns /\ Uses
        /\ UNCHANGED <<m_pConn, msg>> /\ confirmed = NULL
    BY <1>7, <1>t, <1>u, <1>c DEF wait_frame, BusyInv
  <2>2. acks[m_pConn] \in {<<>>, <<msg>>}
    BY <2>1, <1>t DEF AckInv
  <2>3. CASE /\ acks[m_pConn] # <<>> /\ confirmed' = Head(acks[m_pConn])
             /\ acks' = [acks EXCEPT ![m_pConn] = Tail(@)] /\ spc' = "done"
    <3>1. confirmed' = msg /\ acks'[m_pConn] = <<>>
      BY <1>t, <2>1, <2>2, <2>3
    <3>2. QED
      BY <2>1, <2>3, <3>1 DEF AckInv
  <2>4. CASE ~Uses' /\ confirmed' = confirmed
    BY <2>1, <2>4 DEF AckInv
  <2>5. QED
    BY <1>7, <1>f, <2>3, <2>4 DEF wait_frame
<1>8. CASE DisconnectEx
  <2>1. UNCHANGED <<spc, msg, republic, m_pConn, acks, confirmed>>
    BY <1>8 DEF DisconnectEx, DisconnectEx_begin, DisconnectEx_channel, DisconnectEx_close,
       DisconnectEx_destroy, DisconnectEx_forget, clientVars, brokerVars
  <2>2. QED
    BY <1>u, <2>1, AckFrame
<1>9. ASSUME NEW c \in Conns, ConnectionDown(c) PROVE AckInv'
  <2>1. /\ UNCHANGED <<spc, msg, republic, m_pConn, confirmed>>
        /\ acks' \in {acks, [acks EXCEPT ![c] = <<>>]}
    BY <1>9 DEF ConnectionDown, clientVars
  <2>2. \A d \in Conns : acks'[d] \in {acks[d], <<>>}
    BY <1>t, <2>1
  <2>3. QED
    BY <1>t, <1>u, <2>1, <2>2 DEF AckInv
<1>10. CASE UNCHANGED vars
  BY <1>10, <1>u, AckFrame DEF vars, clientVars, brokerVars
<1>11. QED
  BY <1>1, <1>2, <1>3, <1>4, <1>5, <1>6, <1>7, <1>8, <1>9, <1>10 DEF Next, Sender

(***************************************************************************)
(* A confirmation that ends a send is the one of that response.            *)
(***************************************************************************)
THEOREM ConfirmsItsOwnCorrect == Spec => []ConfirmsItsOwn
<1>1. Init => AckInv
  BY Numbers DEF Init, AckInv
<1>2. AckInv => ConfirmsItsOwn
  BY DEF AckInv, ConfirmsItsOwn
<1>3. QED
  BY <1>1, <1>2, AckStep, ConnCorrect, TypeCorrect, PTL DEF Spec
-----------------------------------------------------------------------------
(***************************************************************************)
(* What the broker has got.                                                *)
(***************************************************************************)
OrderInv ==
  /\ CopiesInv
  /\ ReceivedInOrder
  /\ spc \in {"connect", "declare"} => republic

\* Before the current response's first publishing, and before its second.
First == spc \in {"send", "publish", "basic"} /\ ~republic
Second == (spc = "ack" /\ ~republic) \/ (spc \in Sending \ {"ack", "done"} /\ republic)

\* No step but amqp_basic_publish hands a response to the broker.
LEMMA OrderFrame ==
  ASSUME TypeOK, OrderInv, received' = received, queued' - Len(list') = queued - Len(list),
         First' \/ Second' => msg' = msg,
         First' => First, Second' => First \/ Second,
         spc' \in {"connect", "declare"} => republic'
  PROVE  OrderInv'
<1>1. received \in Seq(Msgs) /\ Len(received) \in Nat
  BY DEF TypeOK
<1>2. ReceivedInOrder'
  BY DEF OrderInv, ReceivedInOrder
<1>3. /\ \A i \in DOMAIN received : received[i] <= queued - Len(list)
      /\ First => \A i \in DOMAIN received : received[i] < msg
      /\ Second => (Len(received) >= 2 => received[Len(received) - 1] < msg)
  BY DEF OrderInv, CopiesInv, First, Second
<1>4. (\A i \in DOMAIN received : received[i] < msg) =>
         (Len(received) >= 2 => received[Len(received) - 1] < msg)
  BY <1>1
<1>5. /\ \A i \in DOMAIN received' : received'[i] <= queued' - Len(list')
      /\ First' => \A i \in DOMAIN received' : received'[i] < msg'
      /\ Second' => (Len(received') >= 2 => received'[Len(received') - 1] < msg')
  BY <1>3, <1>4
<1>6. /\ First' <=> spc' \in {"send", "publish", "basic"} /\ ~republic'
      /\ Second' <=> (spc' = "ack" /\ ~republic') \/ (spc' \in Sending \ {"ack", "done"} /\ republic')
  BY DEF First, Second
<1>7. CopiesInv'
  BY <1>5, <1>6 DEF CopiesInv
<1>8. QED
  BY <1>2, <1>7 DEF OrderInv

\* Every step keeps OrderInv, the order of what was sent and what still is to be sent.
LEMMA OrderStep ==
  ASSUME TypeOK, BusyInv, ListInv, OrderInv, [Next]_vars
  PROVE  OrderInv'
<1>t. /\ received \in Seq(Msgs) /\ Len(received) \in Nat /\ list \in Seq(Msgs) /\ Len(list) \in Nat
      /\ queued \in 0 .. MaxMsgs /\ republic \in BOOLEAN /\ spc \in SenderSteps
      /\ msg \in Msgs \cup {NULL}
  BY DEF TypeOK
<1>q. queued \in Nat
  BY <1>t, Numbers
<1>u. /\ First <=> spc \in {"send", "publish", "basic"} /\ ~republic
      /\ First' <=> spc' \in {"send", "publish", "basic"} /\ ~republic'
      /\ Second <=> (spc = "ack" /\ ~republic) \/ (spc \in Sending \ {"ack", "done"} /\ republic)
      /\ Second' <=> (spc' = "ack" /\ ~republic') \/ (spc' \in Sending \ {"ack", "done"} /\ republic')
  BY DEF First, Second
<1>c. spc \in {"connect", "declare"} => republic
  BY DEF OrderInv
<1>f. Failed => republic' = TRUE /\ spc' = IF republic THEN "done" ELSE "send"
  BY FailedEffect
<1>1. ASSUME UNCHANGED <<received, list, queued, msg>>,
             First' => First, Second' => First \/ Second,
             spc' \in {"connect", "declare"} => republic'
      PROVE  OrderInv'
  BY <1>1, OrderFrame
<1>2. CASE send_business_queueEx \/ sent_business_check \/ sent_business_wait
  BY <1>2, <1>1, <1>u, <1>c
  DEF send_business_queueEx, sent_business_check, sent_business_wait, listVars, brokerVars, Sending
<1>3. CASE push_back
  <2>1. Len(list') = Len(list) + 1 /\ queued' = queued + 1
    BY <1>3, <1>t, <1>q, ListSteps DEF push_back, BusyInv
  <2>2. queued' - Len(list') = queued - Len(list)
    BY <1>t, <1>q, <2>1
  <2>3. UNCHANGED <<spc, msg, republic, received>>
    BY <1>3 DEF push_back, brokerVars
  <2>4. QED
    BY <1>c, <1>u, <2>2, <2>3, OrderFrame
<1>4. CASE sent_business_take
  <2>1. /\ list # <<>> /\ msg' = Head(list) /\ list' = Tail(list) /\ spc' = "send"
        /\ UNCHANGED <<queued, republic, received>>
    BY <1>4 DEF sent_business_take, brokerVars
  <2>2. msg' = queued - Len(list) + 1 /\ Len(list') = Len(list) - 1
    BY <2>1, ListSteps
  <2>3. \A i \in DOMAIN received : received[i] <= queued - Len(list) /\ received[i] \in Nat
    <3>1. \A i \in DOMAIN received : received[i] \in Msgs
      BY <1>t
    <3>2. QED
      BY <3>1, Numbers DEF OrderInv, CopiesInv
  <2>4. \A i \in DOMAIN received : received[i] < msg' /\ received[i] <= queued - Len(list')
    BY <1>t, <1>q, <2>2, <2>3
  <2>5. Len(received) >= 2 => received[Len(received) - 1] < msg'
    BY <1>t, <2>4
  <2>6. CopiesInv'
    BY <2>1, <2>4, <2>5 DEF CopiesInv
  <2>7. ReceivedInOrder'
    BY <2>1 DEF OrderInv, ReceivedInOrder
  <2>8. QED
    BY <2>1, <2>6, <2>7 DEF OrderInv
<1>5. CASE send_business_queue
  BY <1>5, <1>1, <1>u DEF send_business_queue, listVars, brokerVars, Sending
<1>6. CASE Connect
  <2>1. /\ UNCHANGED <<received, list, queued, msg>> /\ spc = "connect"
        /\ (republic' = TRUE /\ spc' = IF republic THEN "done" ELSE "send")
              \/ (spc' = "declare" /\ republic' = republic)
    BY <1>6, <1>f DEF Connect, listVars
  <2>2. QED
    BY <1>1, <1>u, <1>c, <2>1 DEF Sending
<1>7. CASE ExchangeDeclare
  <2>1. /\ UNCHANGED <<received, list, queued, msg>> /\ spc = "declare"
        /\ (republic' = TRUE /\ spc' = IF republic THEN "done" ELSE "send")
              \/ (spc' = "publish" /\ republic' = republic)
    BY <1>7, <1>f DEF ExchangeDeclare, listVars
  <2>2. QED
    BY <1>1, <1>u, <1>c, <2>1 DEF Sending
<1>8. CASE Publish
  <2>1. /\ UNCHANGED <<received, list, queued, msg>> /\ spc = "publish"
        /\ (republic' = TRUE /\ spc' = IF republic THEN "done" ELSE "send")
              \/ (spc' = "basic" /\ republic' = republic)
    BY <1>8, <1>f DEF Publish, listVars
  <2>2. QED
    BY <1>1, <1>t, <1>u, <2>1 DEF Sending
<1>9. CASE amqp_basic_publish
  <2>1. /\ spc = "basic" /\ UNCHANGED <<list, queued, msg>>
        /\ \/ spc' = "ack" /\ UNCHANGED republic /\ received' \in {received, Append(received, msg)}
           \/ /\ republic' = TRUE /\ spc' = IF republic THEN "done" ELSE "send"
              /\ received' = received
    BY <1>9, <1>f DEF amqp_basic_publish, listVars
  <2>2. CASE received' = received
    BY <1>1, <1>t, <1>u, <2>1, <2>2 DEF Sending
  <2>3. CASE received' = Append(received, msg) /\ spc' = "ack" /\ UNCHANGED republic
    <3>1. msg = queued - Len(list) /\ msg \in Msgs /\ msg \in Nat
      BY <1>t, <2>1, Numbers DEF ListInv, BusyInv, Sending
    <3>2. \A i \in DOMAIN received : received[i] \in Nat
      <4>1. \A i \in DOMAIN received : received[i] \in Msgs
        BY <1>t
      <4>2. QED
        BY <4>1, Numbers
    <3>3. /\ Len(received') = Len(received) + 1
          /\ DOMAIN received' = 1 .. Len(received) + 1 /\ DOMAIN received = 1 .. Len(received)
          /\ \A i \in 1 .. Len(received) : received'[i] = received[i]
          /\ received'[Len(received) + 1] = msg
      BY <1>t, <2>3, <3>1
    <3>4. \A i \in 1 .. Len(received) : received[i] <= msg
      BY <3>1, <3>3 DEF OrderInv, CopiesInv
    <3>5. Len(received) >= 2 => received[Len(received) - 1] < msg
      <4>1. CASE ~republic
        BY <1>t, <2>1, <4>1, <3>3 DEF OrderInv, CopiesInv
      <4>2. CASE republic
        BY <2>1, <4>2 DEF OrderInv, CopiesInv, Sending
      <4>3. QED
        BY <1>t, <4>1, <4>2
    <3>6. \A i \in 1 .. Len(received) :
            /\ i + 1 \in 1 .. Len(received) => received[i] <= received[i + 1]
            /\ i + 2 \in 1 .. Len(received) => received[i] < received[i + 2]
      BY <3>3 DEF OrderInv, ReceivedInOrder
    <3>7. ReceivedInOrder'
      <4>1. ASSUME NEW i \in 1 .. Len(received) + 1, i + 1 \in 1 .. Len(received) + 1
            PROVE  received'[i] <= received'[i + 1]
        <5>1. i \in 1 .. Len(received)
          BY <1>t, <4>1
        <5>2. CASE i + 1 \in 1 .. Len(received)
          BY <3>3, <3>6, <5>1, <5>2
        <5>3. CASE i + 1 = Len(received) + 1
          <6>1. received'[i] = received[i] /\ received'[i + 1] = msg
            BY <3>3, <5>1, <5>3
          <6>2. QED
            BY <3>4, <5>1, <6>1
        <5>4. QED
          BY <1>t, <4>1, <5>2, <5>3
      <4>2. ASSUME NEW i \in 1 .. Len(received) + 1, i + 2 \in 1 .. Len(received) + 1
            PROVE  received'[i] < received'[i + 2]
        <5>1. i \in 1 .. Len(received)
          BY <1>t, <4>2
        <5>2. CASE i + 2 \in 1 .. Len(received)
          BY <3>3, <3>6, <5>1, <5>2
        <5>3. CASE i + 2 = Len(received) + 1
          <6>1. i = Len(received) - 1 /\ Len(received) >= 2
            BY <1>t, <5>1, <5>3
          <6>2. QED
            BY <3>3, <3>5, <5>1, <5>3, <6>1
        <5>4. QED
          BY <1>t, <4>2, <5>2, <5>3
      <4>3. QED
        BY <3>3, <4>1, <4>2 DEF ReceivedInOrder
    <3>8. \A i \in 1 .. Len(received) + 1 : received'[i] <= msg
      BY <1>t, <3>1, <3>3, <3>4
    <3>9. ~republic => (Len(received') >= 2 => received'[Len(received') - 1] < msg)
      <4>1. ~republic => \A i \in 1 .. Len(received) : received[i] < msg
        BY <2>1, <3>3 DEF OrderInv, CopiesInv
      <4>2. QED
        BY <1>t, <3>3, <4>1
    <3>10. CopiesInv'
      <4>1. \A i \in DOMAIN received' : received'[i] <= queued' - Len(list')
        BY <2>1, <3>1, <3>3, <3>8
      <4>2. QED
        BY <2>1, <2>3, <3>9, <4>1 DEF CopiesInv
    <3>11. QED
      BY <2>3, <3>7, <3>10 DEF OrderInv
  <2>4. QED
    BY <2>1, <2>2, <2>3
<1>10. CASE wait_frame
  <2>1. /\ UNCHANGED <<received, list, queued, msg>> /\ spc = "ack"
        /\ spc' = "done" \/ (republic' = TRUE /\ spc' = IF republic THEN "done" ELSE "send")
    BY <1>10, <1>f DEF wait_frame, listVars
  <2>2. QED
    BY <1>1, <1>t, <1>u, <2>1
<1>11. CASE sent_business_done
  <2>1. UNCHANGED <<received, list, queued>> /\ spc' = "check"
    BY <1>11 DEF sent_business_done, brokerVars
  <2>2. ~First' /\ ~Second'
    BY <1>u, <2>1 DEF Sending
  <2>3. QED
    BY <2>1, <2>2, OrderFrame
<1>12. CASE DisconnectEx
  <2>1. UNCHANGED <<received, list, queued, msg, spc, republic>>
    BY <1>12 DEF DisconnectEx, DisconnectEx_begin, DisconnectEx_channel, DisconnectEx_close,
       DisconnectEx_destroy, DisconnectEx_forget, listVars, brokerVars
  <2>2. QED
    BY <1>1, <1>u, <1>c, <2>1
<1>13. ASSUME NEW c \in Conns, ConnectionDown(c) PROVE OrderInv'
  BY <1>1, <1>13, <1>u, <1>c DEF ConnectionDown, listVars
<1>14. CASE UNCHANGED vars
  BY <1>1, <1>14, <1>u, <1>c DEF vars, listVars, brokerVars
<1>15. QED
  BY <1>2, <1>3, <1>4, <1>5, <1>6, <1>7, <1>8, <1>9, <1>10, <1>11, <1>12, <1>13, <1>14
  DEF Next, Sender

(***************************************************************************)
(* The broker gets the responses in the order they were queued, each at    *)
(* most twice and both copies in a row.                                    *)
(***************************************************************************)
THEOREM ReceivedInOrderCorrect == Spec => []ReceivedInOrder
<1>1. Init => OrderInv
  BY DEF Init, OrderInv, CopiesInv, ReceivedInOrder, Sending
<1>2. OrderInv => ReceivedInOrder
  BY DEF OrderInv
<1>3. QED
  BY <1>1, <1>2, OrderStep, TypeCorrect, PTL DEF Spec
=============================================================================
