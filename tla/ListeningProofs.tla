--------------------------- MODULE ListeningProofs ---------------------------
(***************************************************************************)
(* Proofs about the gateway's way in, for any bounds, producers and        *)
(* messages.  First Inbox: types, that no wakeup of handle_msg_func is     *)
(* lost although erase_task looks at the list without the mutex, and that  *)
(* the list is a first-in-first-out queue.  Then GatewaySign, whose        *)
(* listening threads feed that list: types, that requests reach the        *)
(* gateway once and in their order, and that the platform's replies stay   *)
(* where the gateway can still get them.                                   *)
(* The two modules share no variable: each theorem names its Spec.         *)
(***************************************************************************)
EXTENDS Inbox, GatewaySign, FiniteSetTheorems, SequenceTheorems, TLAPS

\* The type invariant of Inbox is preserved by every step.
LEMMA TypeStep == TypeOK /\ [Next]_vars => TypeOK'
<1> SUFFICES ASSUME TypeOK, [Next]_vars PROVE TypeOK'
  OBVIOUS
<1> USE DEF TypeOK
<1>1. ASSUME NEW p \in Producers, NEW m \in Messages, insert_task(p, m)
      PROVE  TypeOK'
  BY <1>1 DEF insert_task
<1>2. ASSUME NEW p \in Producers, push_back(p)
      PROVE  TypeOK'
  BY <1>2 DEF push_back
<1>3. ASSUME NEW p \in Producers, signal(p)
      PROVE  TypeOK'
  BY <1>3 DEF signal
<1>4. CASE erase_task_check
  BY <1>4 DEF erase_task_check, producerVars
<1>5. CASE erase_task_wait
  BY <1>5 DEF erase_task_wait, producerVars
<1>6. CASE erase_task_locked
  <2>1. CASE msg_list = <<>>
    BY <1>6, <2>1 DEF erase_task_locked, producerVars
  <2>2. CASE msg_list # <<>>
    <3>1. Tail(msg_list) \in Seq(Messages) /\ Head(msg_list) \in Messages
      BY <2>2
    <3>2. QED
      BY <1>6, <2>2, <3>1 DEF erase_task_locked, producerVars
  <2>3. QED
    BY <2>1, <2>2
<1>7. CASE handle_msg_func
  BY <1>7 DEF handle_msg_func, producerVars
<1>8. CASE UNCHANGED vars
  BY <1>8 DEF vars
<1>9. QED
  BY <1>1, <1>2, <1>3, <1>4, <1>5, <1>6, <1>7, <1>8 DEF Next, Handler

(***************************************************************************)
(* Type correctness of server_manage's message list.                       *)
(***************************************************************************)
THEOREM TypeCorrect == Spec => []TypeOK
<1>1. Init => TypeOK
  BY DEF Init, TypeOK
<1>2. QED
  BY <1>1, TypeStep, PTL DEF Spec
-----------------------------------------------------------------------------
\* The producers about to signal can be counted.
LEMMA SignallingFinite ==
  IsFiniteSet(Signalling) /\ Cardinality(Signalling) \in Nat
<1>1. IsFiniteSet(Signalling)
  BY InboxAssumption, FS_Subset, Signalling \subseteq Producers DEF Signalling
<1>2. QED
  BY <1>1, FS_CardinalityType

\* One step keeps every message covered by a count, a signal or the handler.
LEMMA CoverStep ==
  TypeOK /\ EventCoversMessages /\ [Next]_vars => EventCoversMessages'
<1> SUFFICES ASSUME TypeOK, EventCoversMessages, [Next]_vars
             PROVE  EventCoversMessages'
  OBVIOUS
<1>0. Cardinality(Signalling) \in Nat /\ Len(msg_list) \in Nat /\ msg_ev \in Nat
  BY SignallingFinite DEF TypeOK
<1>1. ASSUME NEW p \in Producers, NEW m \in Messages, insert_task(p, m)
      PROVE  EventCoversMessages'
  <2>1. Signalling' = Signalling
    BY <1>1 DEF insert_task, Signalling, TypeOK
  <2>2. QED
    BY <1>1, <2>1 DEF insert_task, EventCoversMessages
<1>2. ASSUME NEW p \in Producers, push_back(p)
      PROVE  EventCoversMessages'
  <2>1. Signalling' = Signalling \cup {p} /\ p \notin Signalling
    BY <1>2 DEF push_back, Signalling, TypeOK
  <2>2. Cardinality(Signalling') = Cardinality(Signalling) + 1
    BY <2>1, SignallingFinite, FS_AddElement
  <2>3. Len(msg_list') = Len(msg_list) + 1 /\ msg_ev' = msg_ev /\ hpc' = hpc
    BY <1>2 DEF push_back, TypeOK
  <2>4. QED
    BY <1>0, <2>2, <2>3 DEF EventCoversMessages
<1>3. ASSUME NEW p \in Producers, signal(p)
      PROVE  EventCoversMessages'
  <2>1. Signalling' = Signalling \ {p} /\ p \in Signalling
    BY <1>3 DEF signal, Signalling, TypeOK
  <2>2. Cardinality(Signalling') = Cardinality(Signalling) - 1
    BY <2>1, SignallingFinite, FS_RemoveElement
  <2>3. msg_list' = msg_list /\ msg_ev' = msg_ev + 1 /\ hpc' = hpc
    BY <1>3 DEF signal
  <2>4. QED
    BY <1>0, <2>2, <2>3 DEF EventCoversMessages
<1>4. CASE erase_task_check
  <2>1. /\ Signalling' = Signalling /\ msg_list' = msg_list /\ msg_ev' = msg_ev
        /\ hpc = "check"
    BY <1>4 DEF erase_task_check, producerVars, Signalling
  <2>2. QED
    BY <1>0, <2>1 DEF EventCoversMessages
<1>5. CASE erase_task_wait
  <2>1. /\ Signalling' = Signalling /\ msg_list' = msg_list
        /\ msg_ev > 0 /\ msg_ev' = msg_ev - 1 /\ hpc = "wait" /\ hpc' = "lock"
    BY <1>5 DEF erase_task_wait, producerVars, Signalling
  <2>2. QED
    BY <1>0, <2>1 DEF EventCoversMessages
<1>6. CASE erase_task_locked
  <2>1. Signalling' = Signalling /\ msg_ev' = msg_ev /\ hpc = "lock"
    BY <1>6 DEF erase_task_locked, producerVars, Signalling
  <2>2. CASE msg_list = <<>>
    <3>1. Len(msg_list') = 0
      BY <1>6, <2>2 DEF erase_task_locked
    <3>2. QED
      BY <1>0, <2>1, <3>1 DEF EventCoversMessages
  <2>3. CASE msg_list # <<>>
    <3>1. Len(msg_list') = Len(msg_list) - 1
      BY <1>6, <2>3 DEF erase_task_locked, TypeOK
    <3>2. QED
      BY <1>0, <2>1, <3>1 DEF EventCoversMessages
  <2>4. QED
    BY <2>2, <2>3
<1>7. CASE handle_msg_func
  <2>1. /\ Signalling' = Signalling /\ msg_list' = msg_list /\ msg_ev' = msg_ev
        /\ hpc = "dispatch" /\ hpc' = "check"
    BY <1>7 DEF handle_msg_func, producerVars, Signalling
  <2>2. QED
    BY <2>1 DEF EventCoversMessages
<1>8. CASE UNCHANGED vars
  BY <1>8 DEF vars, EventCoversMessages, Signalling
<1>9. QED
  BY <1>1, <1>2, <1>3, <1>4, <1>5, <1>6, <1>7, <1>8 DEF Next, Handler

\* Nothing is in the list before the first request.
LEMMA InitCover == Init => EventCoversMessages
<1> SUFFICES ASSUME Init PROVE EventCoversMessages
  OBVIOUS
<1>1. Signalling = {} /\ Cardinality({}) = 0
  BY FS_EmptySet DEF Init, Signalling
<1>2. Len(msg_list) = 0 /\ msg_ev = 0 /\ hpc = "check"
  BY DEF Init
<1>3. QED
  BY <1>1, <1>2 DEF EventCoversMessages

(***************************************************************************)
(* No wakeup is lost, whatever the unlocked empty() answers.               *)
(***************************************************************************)
THEOREM EventCoversCorrect == Spec => []EventCoversMessages
  BY InitCover, CoverStep, TypeCorrect, PTL DEF Spec

(***************************************************************************)
(* handle_msg_func never sleeps with a request waiting and nobody to wake  *)
(* it.                                                                     *)
(***************************************************************************)
THEOREM HandlerCorrect == Spec => []HandlerNeverStranded
<1>1. TypeOK /\ EventCoversMessages => HandlerNeverStranded
  <2> SUFFICES ASSUME TypeOK, EventCoversMessages, hpc = "wait", msg_ev = 0,
                      Signalling = {}
               PROVE  msg_list = <<>>
    BY DEF HandlerNeverStranded
  <2>1. Cardinality(Signalling) = 0
    BY FS_EmptySet
  <2>2. Len(msg_list) <= 0
    BY <2>1 DEF EventCoversMessages
  <2>3. QED
    BY <2>2 DEF TypeOK
<1>2. QED
  BY <1>1, TypeCorrect, EventCoversCorrect, PTL
-----------------------------------------------------------------------------
(***************************************************************************)
(* Where the requests are.                                                 *)
(***************************************************************************)
InHand == IF hpc = "dispatch" THEN <<msg>> ELSE <<>>

\* Every request is dispatched, in the handler's hand or in the list, in order.
OrderInv == inserted = (dispatched \o InHand) \o msg_list

\* Every step keeps OrderInv and is a step of the fifo, or none.
LEMMA OrderStep ==
  ASSUME TypeOK, OrderInv, [Next]_vars
  PROVE  OrderInv' /\ [Fifo!Next]_(Fifo!vars)
<1>t. /\ inserted \in Seq(Messages) /\ dispatched \in Seq(Messages) /\ msg_list \in Seq(Messages)
      /\ InHand \in Seq(Messages)
  BY DEF TypeOK, InHand
<1>1. ASSUME UNCHANGED <<inserted, dispatched, msg_list>>, InHand' = InHand
      PROVE  OrderInv' /\ [Fifo!Next]_(Fifo!vars)
  BY <1>1 DEF OrderInv, Fifo!vars
<1>2. ASSUME NEW p \in Producers, push_back(p)
      PROVE  OrderInv' /\ [Fifo!Next]_(Fifo!vars)
  <2>1. /\ text[p] \in Messages /\ InHand' = InHand /\ dispatched' = dispatched
        /\ msg_list' = Append(msg_list, text[p]) /\ inserted' = Append(inserted, text[p])
    BY <1>2 DEF push_back, TypeOK, InHand
  <2>2. Append((dispatched \o InHand) \o msg_list, text[p])
          = (dispatched \o InHand) \o Append(msg_list, text[p])
    <3>1. dispatched \o InHand \in Seq(Messages)
      BY <1>t
    <3>2. (dispatched \o InHand) \o msg_list \in Seq(Messages) /\ <<text[p]>> \in Seq(Messages)
      BY <1>t, <2>1, <3>1
    <3>3. Append((dispatched \o InHand) \o msg_list, text[p])
            = ((dispatched \o InHand) \o msg_list) \o <<text[p]>>
      BY <2>1, <3>2, AppendIsConcat
    <3>4. Append(msg_list, text[p]) = msg_list \o <<text[p]>>
      BY <1>t, <2>1, AppendIsConcat
    <3>5. QED
      BY <1>t, <3>1, <3>2, <3>3, <3>4, ConcatAssociative
  <2>3. OrderInv'
    BY <2>1, <2>2 DEF OrderInv
  <2>4. Fifo!Send
    BY <2>1 DEF Fifo!Send
  <2>5. QED
    BY <2>3, <2>4 DEF Fifo!Next
<1>3. ASSUME NEW p \in Producers, signal(p) \/ \E m \in Messages : insert_task(p, m)
      PROVE  OrderInv' /\ [Fifo!Next]_(Fifo!vars)
  BY <1>1, <1>3 DEF signal, insert_task, InHand
<1>4. CASE erase_task_check \/ erase_task_wait
  <2>1. hpc # "dispatch" /\ hpc' # "dispatch" /\ UNCHANGED <<inserted, dispatched, msg_list>>
    BY <1>4 DEF erase_task_check, erase_task_wait, producerVars
  <2>2. QED
    BY <1>1, <2>1 DEF InHand
<1>5. CASE erase_task_locked
  <2>1. hpc = "lock" /\ UNCHANGED <<inserted, dispatched>> /\ InHand = <<>>
    BY <1>5 DEF erase_task_locked, producerVars, InHand
  <2>2. CASE msg_list = <<>>
    <3>1. InHand' = InHand /\ msg_list' = msg_list
      BY <1>5, <2>2 DEF erase_task_locked, InHand
    <3>2. QED
      BY <1>1, <2>1, <3>1
  <2>3. CASE msg_list # <<>>
    <3>1. InHand' = <<Head(msg_list)>> /\ msg_list' = Tail(msg_list)
      BY <1>5, <2>3 DEF erase_task_locked, InHand
    <3>2. msg_list = <<Head(msg_list)>> \o Tail(msg_list)
      BY <1>t, <2>3, HeadTailProperties, ConcatProperties
    <3>3. Head(msg_list) \in Messages /\ Tail(msg_list) \in Seq(Messages)
      BY <1>t, <2>3
    <3>4. (dispatched \o <<>>) \o msg_list = (dispatched \o <<Head(msg_list)>>) \o Tail(msg_list)
      <4>1. <<Head(msg_list)>> \in Seq(Messages)
        BY <3>3
      <4>2. QED
        BY <1>t, <3>2, <3>3, <4>1, ConcatEmptySeq, ConcatAssociative
    <3>5. OrderInv'
      BY <2>1, <3>1, <3>4 DEF OrderInv
    <3>6. QED
      BY <2>1, <3>5 DEF Fifo!vars
  <2>4. QED
    BY <2>2, <2>3
<1>6. CASE handle_msg_func
  <2>1. /\ hpc = "dispatch" /\ dispatched' = Append(dispatched, msg) /\ msg \in Messages
        /\ InHand = <<msg>> /\ InHand' = <<>> /\ UNCHANGED <<inserted, msg_list>>
    BY <1>6 DEF handle_msg_func, producerVars, InHand, TypeOK
  <2>2. dispatched' = dispatched \o <<msg>> /\ dispatched' \in Seq(Messages)
    BY <1>t, <2>1, AppendIsConcat
  <2>3. OrderInv'
    BY <2>1, <2>2, ConcatEmptySeq DEF OrderInv
  <2>4. inserted = dispatched' \o msg_list
    BY <2>1, <2>2 DEF OrderInv
  <2>5. Len(dispatched) < Len(inserted) /\ inserted[Len(dispatched) + 1] = msg
    <3>1. Len(dispatched') = Len(dispatched) + 1 /\ dispatched'[Len(dispatched) + 1] = msg
      BY <1>t, <2>1
    <3>2. QED
      BY <1>t, <2>2, <2>4, <3>1, ConcatProperties
  <2>6. Fifo!Deliver
    BY <2>1, <2>5 DEF Fifo!Deliver
  <2>7. QED
    BY <2>3, <2>6 DEF Fifo!Next
<1>7. CASE UNCHANGED vars
  BY <1>1, <1>7 DEF vars, InHand
<1>8. QED
  BY <1>2, <1>3, <1>4, <1>5, <1>6, <1>7 DEF Next, Handler

(***************************************************************************)
(* The list implements MessageFifo's safety part: every request reaches    *)
(* the pool at most once and in arrival order.                             *)
(***************************************************************************)
THEOREM FifoRefinement == Spec => Fifo!Spec
<1>1. Init => OrderInv /\ Fifo!Init
  <2>1. (<<>> \o <<>>) \o <<>> = <<>>
    OBVIOUS
  <2>2. QED
    BY <2>1 DEF Init, OrderInv, InHand, Fifo!Init
<1>2. QED
  BY <1>1, OrderStep, TypeCorrect, PTL DEF Spec, Fifo!Spec
-----------------------------------------------------------------------------
(***************************************************************************)
(* GatewaySign: how many of the messages of a sequence are this gateway's. *)
(***************************************************************************)
\* The places of a sequence that hold a message for this gateway.
MyPlaces(s) == {i \in DOMAIN s : s[i] # "F"}

\* Mine counts a finite set of places.
LEMMA MineType ==
  ASSUME NEW s \in Seq(Public)
  PROVE  IsFiniteSet(MyPlaces(s)) /\ Mine(s) = Cardinality(MyPlaces(s)) /\ Mine(s) \in Nat
<1>1. DOMAIN s = 1 .. Len(s) /\ Len(s) \in Nat
  OBVIOUS
<1>2. IsFiniteSet(1 .. Len(s))
  BY <1>1, FS_Interval
<1>3. MyPlaces(s) \subseteq 1 .. Len(s)
  BY <1>1 DEF MyPlaces
<1>4. IsFiniteSet(MyPlaces(s))
  BY <1>2, <1>3, FS_Subset
<1>5. QED
  BY <1>4, FS_CardinalityType DEF Mine, MyPlaces

\* Moving a set of places along does not change how many they are.
LEMMA ShiftedPlaces ==
  ASSUME NEW S \in SUBSET Nat, IsFiniteSet(S), NEW n \in Nat
  PROVE  LET T == {n + i : i \in S} IN IsFiniteSet(T) /\ Cardinality(T) = Cardinality(S)
<1> DEFINE T == {n + i : i \in S}
           f == [i \in S |-> n + i]
<1>1. f \in [S -> T]
  OBVIOUS
<1>2. \A i, j \in S : f[i] = f[j] => i = j
  OBVIOUS
<1>3. \A t \in T : \E i \in S : f[i] = t
  OBVIOUS
<1>4. f \in Bijection(S, T)
  BY <1>1, <1>2, <1>3 DEF Bijection, Injection, Surjection, IsInjective
<1>5. ExistsBijection(S, T)
  BY <1>4 DEF ExistsBijection
<1>6. QED
  BY <1>5, FS_Bijection

\* What is counted in two sequences is counted in one after the other.
LEMMA MineConcat ==
  ASSUME NEW s \in Seq(Public), NEW t \in Seq(Public)
  PROVE  s \o t \in Seq(Public) /\ Mine(s \o t) = Mine(s) + Mine(t)
<1> DEFINE S == MyPlaces(s)
           T == {Len(s) + i : i \in MyPlaces(t)}
<1>0. s \o t \in Seq(Public)
  OBVIOUS
<1>1. /\ IsFiniteSet(S) /\ Mine(s) = Cardinality(S) /\ Mine(s) \in Nat
      /\ IsFiniteSet(MyPlaces(t)) /\ Mine(t) = Cardinality(MyPlaces(t)) /\ Mine(t) \in Nat
      /\ Mine(s \o t) = Cardinality(MyPlaces(s \o t))
  BY <1>0, MineType
<1>2. /\ Len(s) \in Nat /\ DOMAIN s = 1 .. Len(s) /\ Len(t) \in Nat /\ DOMAIN t = 1 .. Len(t)
      /\ DOMAIN (s \o t) = 1 .. Len(s) + Len(t)
      /\ \A i \in 1 .. Len(s) : (s \o t)[i] = s[i]
      /\ \A i \in 1 .. Len(t) : (s \o t)[Len(s) + i] = t[i]
  OBVIOUS
<1>3. IsFiniteSet(T) /\ Cardinality(T) = Mine(t)
  <2>1. MyPlaces(t) \in SUBSET Nat
    BY <1>2 DEF MyPlaces
  <2>2. QED
    BY <1>1, <1>2, <2>1, ShiftedPlaces
<1>4. MyPlaces(s \o t) = S \cup T
  <2>1. ASSUME NEW i \in MyPlaces(s \o t) PROVE i \in S \cup T
    <3>1. i \in 1 .. Len(s) + Len(t) /\ (s \o t)[i] # "F"
      BY <1>2 DEF MyPlaces
    <3>2. CASE i <= Len(s)
      BY <1>2, <3>1, <3>2 DEF MyPlaces
    <3>3. CASE i > Len(s)
      <4>1. i - Len(s) \in 1 .. Len(t) /\ i = Len(s) + (i - Len(s))
        BY <1>2, <3>1, <3>3
      <4>2. i - Len(s) \in MyPlaces(t)
        BY <1>2, <3>1, <4>1 DEF MyPlaces
      <4>3. QED
        BY <4>1, <4>2
    <3>4. QED
      BY <1>2, <3>1, <3>2, <3>3
  <2>2. ASSUME NEW i \in S PROVE i \in MyPlaces(s \o t)
    BY <1>2 DEF MyPlaces
  <2>3. ASSUME NEW j \in MyPlaces(t) PROVE Len(s) + j \in MyPlaces(s \o t)
    BY <1>2 DEF MyPlaces
  <2>4. QED
    BY <2>1, <2>2, <2>3
<1>5. S \cap T = {}
  BY <1>2 DEF MyPlaces
<1>6. Cardinality(S \cup T) = Cardinality(S) + Cardinality(T)
  <2> HIDE DEF S, T
  <2>1. Cardinality(S \cup T) = Cardinality(S) + Cardinality(T) - Cardinality(S \cap T)
    BY <1>1, <1>3, FS_Union
  <2>2. Cardinality(S \cap T) = 0
    BY <1>5, FS_EmptySet
  <2>3. QED
    BY <1>1, <1>3, <2>1, <2>2
<1>7. QED
  BY <1>0, <1>1, <1>3, <1>4, <1>6

\* Mine of a sequence of one message.
LEMMA MineOne ==
  ASSUME NEW m \in Public
  PROVE  <<m>> \in Seq(Public) /\ Mine(<<m>>) = (IF m = "F" THEN 0 ELSE 1)
<1>1. <<m>> \in Seq(Public) /\ DOMAIN <<m>> = {1} /\ <<m>>[1] = m
  OBVIOUS
<1>2. Cardinality({}) = 0 /\ Cardinality({1}) = 1
  BY FS_EmptySet, FS_Singleton
<1>3. CASE m = "F"
  <2>1. {i \in DOMAIN <<m>> : <<m>>[i] # "F"} = {}
    BY <1>1, <1>3
  <2>2. QED
    BY <1>1, <1>2, <1>3, <2>1 DEF Mine
<1>4. CASE m # "F"
  <2>1. {i \in DOMAIN <<m>> : <<m>>[i] # "F"} = {1}
    BY <1>1, <1>4
  <2>2. QED
    BY <1>1, <1>2, <1>4, <2>1 DEF Mine
<1>5. QED
  BY <1>3, <1>4

\* Mine of no message.
LEMMA MineNone == Mine(<<>>) = 0
<1>1. {i \in DOMAIN <<>> : <<>>[i] # "F"} = {}
  OBVIOUS
<1>2. QED
  BY <1>1, FS_EmptySet DEF Mine

\* Mine of a sequence with a message more at its end.
LEMMA MineAppend ==
  ASSUME NEW s \in Seq(Public), NEW m \in Public
  PROVE  Append(s, m) \in Seq(Public) /\ Mine(Append(s, m)) = Mine(s) + IF m = "F" THEN 0 ELSE 1
<1>1. Append(s, m) = s \o <<m>>
  BY AppendIsConcat
<1>2. QED
  BY <1>1, MineOne, MineConcat

\* Mine of a sequence and of its tail.
LEMMA MineTail ==
  ASSUME NEW s \in Seq(Public), s # <<>>
  PROVE  /\ Head(s) \in Public /\ Tail(s) \in Seq(Public)
         /\ Mine(s) = Mine(Tail(s)) + IF Head(s) = "F" THEN 0 ELSE 1
<1>1. Head(s) \in Public /\ Tail(s) \in Seq(Public)
  OBVIOUS
<1>2. s = <<Head(s)>> \o Tail(s)
  BY <1>1, HeadTailProperties, ConcatProperties
<1>3. Mine(s) = Mine(<<Head(s)>>) + Mine(Tail(s)) /\ Mine(Tail(s)) \in Nat
  BY <1>1, <1>2, MineOne, MineConcat, MineType
<1>4. QED
  BY <1>1, <1>3, MineOne
-----------------------------------------------------------------------------
(***************************************************************************)
(* The types, in parts.                                                    *)
(***************************************************************************)
Content(c) == IF c = "pub" THEN Public ELSE 1 .. MaxRequests
Queues(f) == DOMAIN f = Clients /\ \A c \in Clients : f[c] \in Seq(Content(c))

\* SignTypeOK in parts that most steps leave alone: the threads,
ThreadOK ==
  /\ main \in {"signIn", "beat", "waitPublic", "waitBusiness", "ready"}
  /\ mq \in {"none", "declare", "bind", "consume", "wait", "close", "handle",
             "sending", "connect", "exchange", "cancel"}
  /\ mc \in Clients
  /\ hb \in {"none", "sleep", "beat", "again"}
  /\ public_ev \in 0 .. 1 /\ business_ev \in 0 .. 1
  /\ signed \in BOOLEAN
  /\ handed \in Seq(1 .. MaxRequests)
\* the call of send_gateway_message,
SendOK ==
  send \in {"none", "connect", "declare", "publish"} /\ caller \in {"main", "mq", "hb"} /\ again \in BOOLEAN
\* the two connections,
ClientOK == conn \in [Clients -> {"null", "dead", "up"}] /\ chan \in [Clients -> {"null", "plain", "confirm"}]
\* the queues and what the broker delivered from them,
BrokerOK == Queues(queue) /\ Queues(out) /\ Queues(held) /\ consumers \in [Clients -> 0 .. MaxConsumers]
\* the platform,
PlatformOK ==
  /\ asked \in BOOLEAN /\ beaten \in BOOLEAN
  /\ replies \in 0 .. MaxReplies /\ requests \in 0 .. MaxRequests
\* the faults so far.
FaultsOK == faults \in 0 .. MaxFaults
\* Who consumes has a channel on a connection that is up.
Consuming == \A c \in Clients : consumers[c] > 0 => chan[c] # "null" /\ conn[c] = "up"

\* The inductive invariant of the types.
Parts == ThreadOK /\ SendOK /\ ClientOK /\ BrokerOK /\ PlatformOK /\ FaultsOK /\ Consuming

\* The parts are the whole.
LEMMA SignParts == SignTypeOK <=> Parts
<1>1. \A f : Queues(f) <=> DOMAIN f = Clients /\ f["pub"] \in Seq(Public) /\ f["recv"] \in Seq(1 .. MaxRequests)
  BY DEF Queues, Content, Clients
<1>2. QED
  BY <1>1 DEF SignTypeOK, Parts, ThreadOK, SendOK, ClientOK, BrokerOK, PlatformOK, FaultsOK, Consuming

\* What a step leaves alone keeps its type.
LEMMA Untouched ==
  ASSUME Parts
  PROVE  /\ UNCHANGED threadVars => ThreadOK'
         /\ UNCHANGED sendVars => SendOK'
         /\ UNCHANGED clientVars => ClientOK'
         /\ UNCHANGED brokerVars => BrokerOK'
         /\ UNCHANGED platformVars => PlatformOK'
         /\ UNCHANGED faults => FaultsOK'
         /\ UNCHANGED <<consumers, chan, conn>> => Consuming'
<1>1. UNCHANGED threadVars => ThreadOK'
  BY DEF threadVars, Parts, ThreadOK
<1>2. UNCHANGED sendVars => SendOK'
  BY DEF sendVars, Parts, SendOK
<1>3. UNCHANGED clientVars => ClientOK'
  BY DEF clientVars, Parts, ClientOK
<1>4. UNCHANGED brokerVars => BrokerOK'
  BY DEF brokerVars, Parts, BrokerOK, Queues
<1>5. UNCHANGED platformVars => PlatformOK'
  BY DEF platformVars, Parts, PlatformOK
<1>6. UNCHANGED faults => FaultsOK'
  BY DEF Parts, FaultsOK
<1>7. UNCHANGED <<consumers, chan, conn>> => Consuming'
  BY DEF Parts, Consuming
<1>8. QED
  BY <1>1, <1>2, <1>3, <1>4, <1>5, <1>6, <1>7

\* A fault is counted within its bound.
LEMMA FaultType ==
  ASSUME FaultsOK, Fault PROVE FaultsOK'
  BY SignAssumption DEF FaultsOK, Fault

\* A client's queue may be replaced by another one of its messages.
LEMMA SetQueue ==
  ASSUME NEW f, Queues(f), NEW c \in Clients, NEW s \in Seq(Content(c))
  PROVE  Queues([f EXCEPT ![c] = s])
  BY DEF Queues

\* A sequence stays one when it grows.
LEMMA AppendType ==
  ASSUME NEW S, NEW s \in Seq(S), NEW e \in S PROVE Append(s, e) \in Seq(S)
OBVIOUS

\* What goes back to a queue belongs there.
LEMMA RequeuedType ==
  ASSUME BrokerOK, NEW c \in Clients
  PROVE  Requeued(c) \in Seq(Content(c)) /\ <<>> \in Seq(Content(c))
<1>1. queue[c] \in Seq(Content(c)) /\ out[c] \in Seq(Content(c)) /\ held[c] \in Seq(Content(c))
  BY DEF BrokerOK, Queues
<1>2. (held[c] \o out[c]) \o queue[c] \in Seq(Content(c))
  BY <1>1
<1>3. QED
  BY <1>1, <1>2 DEF Requeued

\* The end of a channel keeps the broker's types and its consumers.
LEMMA EndsType ==
  ASSUME BrokerOK, NEW c \in Clients, ChannelEnds(c)
  PROVE  BrokerOK' /\ consumers' = [consumers EXCEPT ![c] = 0]
<1>1. Queues(queue') /\ Queues(out') /\ Queues(held')
  BY RequeuedType, SetQueue DEF BrokerOK, ChannelEnds
<1>2. consumers' = [consumers EXCEPT ![c] = 0] /\ consumers' \in [Clients -> 0 .. MaxConsumers]
  BY SignAssumption DEF BrokerOK, ChannelEnds, MaxConsumers
<1>3. QED
  BY <1>1, <1>2 DEF BrokerOK, Queues

\* A connect, whether it succeeds or not, keeps the types.
LEMMA ConnectType ==
  ASSUME Parts, NEW c \in Clients, Connect(c)
  PROVE  ClientOK' /\ BrokerOK' /\ FaultsOK' /\ Consuming'
<1>1. BrokerOK' /\ consumers' = [consumers EXCEPT ![c] = 0]
  BY EndsType DEF Parts, Connect
<1>2. /\ \/ conn' = [conn EXCEPT ![c] = "up"] /\ UNCHANGED faults
         \/ conn' = [conn EXCEPT ![c] = "dead"] /\ Fault
      /\ chan' = [chan EXCEPT ![c] = "null"]
  BY DEF Connect
<1>3. ClientOK'
  BY <1>2 DEF ClientOK, Parts
<1>4. FaultsOK'
  BY <1>2, FaultType, Untouched DEF Parts
<1>5. Consuming'
  BY <1>1, <1>2 DEF Consuming, Parts, BrokerOK, ClientOK
<1>6. QED
  BY <1>1, <1>3, <1>4, <1>5

\* An opened channel is one, in one of two modes.
LEMMA OpenedType ==
  ASSUME ClientOK, NEW c \in Clients
  PROVE  /\ Opened(c) \in [Clients -> {"null", "plain", "confirm"}] /\ Opened(c)[c] # "null"
         /\ \A d \in Clients \ {c} : Opened(c)[d] = chan[d]
BY DEF ClientOK, Opened

\* A synchronous call on the channel keeps the types.
LEMMA RpcType ==
  ASSUME Parts, NEW c \in Clients, NEW ok \in BOOLEAN, Rpc(c, ok), conn' = conn
  PROVE  ClientOK' /\ BrokerOK' /\ FaultsOK' /\ Consuming'
<1>1. CASE ok
  <2>1. chan' = Opened(c) /\ UNCHANGED <<brokerVars, faults>>
    BY <1>1 DEF Rpc
  <2>2. ClientOK' /\ BrokerOK' /\ FaultsOK'
    BY <2>1, Untouched, OpenedType DEF ClientOK, Parts
  <2>3. Consuming'
    BY <2>1, OpenedType DEF Consuming, Parts, brokerVars
  <2>4. QED
    BY <2>2, <2>3
<1>2. CASE ~ok
  <2>1. (Fault \/ UNCHANGED faults) /\ chan' = [chan EXCEPT ![c] = "null"] /\ ChannelEnds(c)
    BY <1>2 DEF Rpc
  <2>2. BrokerOK' /\ consumers' = [consumers EXCEPT ![c] = 0]
    BY <2>1, EndsType DEF Parts
  <2>3. ClientOK' /\ FaultsOK'
    BY <2>1, Untouched, FaultType DEF ClientOK, Parts
  <2>4. Consuming'
    BY <2>1, <2>2 DEF Consuming, Parts, ClientOK, BrokerOK
  <2>5. QED
    BY <2>2, <2>3, <2>4
<1>3. QED
  BY <1>1, <1>2

\* So does the declaration of an exchange.
LEMMA DeclareType ==
  ASSUME Parts, NEW c \in Clients, ExchangeDeclare(c), conn' = conn
  PROVE  ClientOK' /\ BrokerOK' /\ FaultsOK' /\ Consuming'
<1>1. CASE Rpc(c, FALSE)
  BY <1>1, RpcType
<1>2. CASE /\ conn[c] = "up" /\ UNCHANGED <<brokerVars, faults>>
           /\ chan' = IF c = "pub" THEN [chan EXCEPT ![c] = "confirm"] ELSE Opened(c)
  <2>1. /\ chan' \in [Clients -> {"null", "plain", "confirm"}] /\ chan'[c] # "null"
        /\ \A d \in Clients \ {c} : chan'[d] = chan[d]
    <3>1. CASE c = "pub"
      BY <1>2, <3>1 DEF ClientOK, Parts
    <3>2. CASE c # "pub"
      BY <1>2, <3>2, OpenedType DEF Parts
    <3>3. QED
      BY <3>1, <3>2
  <2>2. ClientOK' /\ BrokerOK' /\ FaultsOK'
    BY <1>2, <2>1, Untouched DEF ClientOK, Parts
  <2>3. Consuming'
    BY <1>2, <2>1 DEF Consuming, Parts, brokerVars
  <2>4. QED
    BY <2>2, <2>3
<1>3. QED
  BY <1>1, <1>2 DEF ExchangeDeclare

\* The return of send_gateway_message to its caller keeps the types.
LEMMA ReturnedType ==
  ASSUME Parts, NEW ok \in BOOLEAN, Returned(ok), UNCHANGED <<mc, public_ev, business_ev, signed, handed>>
  PROVE  ThreadOK' /\ SendOK'
  BY DEF Parts, ThreadOK, SendOK, Returned

\* The first message pushed to a client, and what remains.
LEMMA ReadType ==
  ASSUME BrokerOK, NEW c \in Clients, out[c] # <<>>
  PROVE  Head(out[c]) \in Content(c) /\ Tail(out[c]) \in Seq(Content(c))
<1>1. out[c] \in Seq(Content(c))
  BY DEF BrokerOK, Queues
<1>2. QED
  BY <1>1

\* What the broker keeps until it is confirmed is of the queue's type.
LEMMA HoldType ==
  ASSUME BrokerOK, NEW c \in Clients, NEW m \in Content(c), Hold(c, m)
  PROVE  Queues(held')
<1>1. held[c] \in Seq(Content(c)) /\ Append(held[c], m) \in Seq(Content(c))
  BY DEF BrokerOK, Queues
<1>2. QED
  BY <1>1, SetQueue DEF BrokerOK, Hold

\* The two clients and what they receive.
LEMMA ClientsAre == "pub" \in Clients /\ "recv" \in Clients /\ Content("pub") = Public
                    /\ Content("recv") = 1 .. MaxRequests
  BY DEF Clients, Content

(***************************************************************************)
(* Every step keeps the types.                                             *)
(***************************************************************************)
LEMMA SendingTypes == ASSUME Parts, Sending PROVE Parts'
<1> USE ClientsAre
<1>1. CASE send_connect
  <2>1. Connect("pub") /\ send' = "declare" /\ UNCHANGED <<threadVars, caller, again, platformVars>>
    BY <1>1 DEF send_connect
  <2>2. ClientOK' /\ BrokerOK' /\ FaultsOK' /\ Consuming'
    BY <2>1, ConnectType
  <2>3. SendOK' /\ ThreadOK' /\ PlatformOK'
    BY <2>1, Untouched DEF SendOK, Parts
  <2>4. QED
    BY <2>2, <2>3 DEF Parts
<1>2. CASE send_declare
  <2>1. /\ ExchangeDeclare("pub")
        /\ send' = "publish" /\ UNCHANGED <<threadVars, caller, again, conn, platformVars>>
    BY <1>2 DEF send_declare
  <2>2. ClientOK' /\ BrokerOK' /\ FaultsOK' /\ Consuming'
    BY <2>1, DeclareType
  <2>3. SendOK' /\ ThreadOK' /\ PlatformOK'
    BY <2>1, Untouched DEF SendOK, Parts
  <2>4. QED
    BY <2>2, <2>3 DEF Parts
<1>3. CASE send_publish
  <2>1. UNCHANGED <<mc, public_ev, business_ev, signed, handed, conn>>
    BY <1>3 DEF send_publish
  <2>2. CASE Publish_ok
    <3>1. Arrives /\ Returned(again) /\ UNCHANGED <<chan, brokerVars, faults>>
      BY <2>2 DEF Publish_ok
    <3>2. ThreadOK' /\ SendOK'
      <4>1. again \in BOOLEAN
        BY DEF Parts, SendOK
      <4>2. QED
        BY <2>1, <3>1, <4>1, ReturnedType
    <3>3. ClientOK' /\ BrokerOK' /\ FaultsOK' /\ Consuming'
      BY <2>1, <3>1, Untouched DEF clientVars, brokerVars
    <3>4. PlatformOK'
      BY <3>1 DEF Arrives, PlatformOK, Parts
    <3>5. QED
      BY <3>2, <3>3, <3>4 DEF Parts
  <2>3. CASE Publish_fails
    <3>1. ThreadOK' /\ SendOK'
      <4>1. CASE again
        BY <2>1, <2>3, <4>1 DEF Publish_fails, ThreadOK, SendOK, Parts
      <4>2. CASE ~again
        BY <2>1, <2>3, <4>2, ReturnedType DEF Publish_fails
      <4>3. QED
        BY <4>1, <4>2
    <3>2. Arrives => PlatformOK'
      BY DEF Arrives, PlatformOK, Parts
    <3>3. CASE /\ conn["pub"] = "up" /\ out["pub"] # <<>>
               /\ held' = [held EXCEPT !["pub"] = Append(@, Head(out["pub"]))]
               /\ out' = [out EXCEPT !["pub"] = Tail(@)]
               /\ Arrives
               /\ UNCHANGED <<chan, queue, consumers, faults>>
      <4>1. Head(out["pub"]) \in Public /\ Tail(out["pub"]) \in Seq(Public)
        BY <3>3, ReadType DEF Parts
      <4>2. held["pub"] \in Seq(Public)
        BY DEF Parts, BrokerOK, Queues
      <4>3. Append(held["pub"], Head(out["pub"])) \in Seq(Public)
        BY <4>1, <4>2
      <4>4. Queues(out') /\ Queues(held')
        BY <3>3, <4>1, <4>3, SetQueue DEF BrokerOK, Parts
      <4>5. BrokerOK'
        BY <3>3, <4>4 DEF BrokerOK, Parts, Queues
      <4>6. ClientOK' /\ FaultsOK' /\ Consuming'
        BY <2>1, <3>3, Untouched DEF clientVars
      <4>7. QED
        BY <3>1, <3>2, <3>3, <4>5, <4>6 DEF Parts
    <3>4. CASE \/ /\ conn["pub"] # "up"
                  /\ UNCHANGED <<chan, brokerVars, faults, platformVars>>
               \/ /\ conn["pub"] = "up" /\ Fault
                  /\ Arrives \/ UNCHANGED platformVars
                  /\ UNCHANGED <<chan, brokerVars>>
      <4>1. BrokerOK' /\ ClientOK' /\ Consuming'
        BY <2>1, <3>4, Untouched DEF clientVars, brokerVars
      <4>2. PlatformOK' /\ FaultsOK'
        BY <3>2, <3>4, Untouched, FaultType DEF Parts
      <4>3. QED
        BY <3>1, <4>1, <4>2 DEF Parts
    <3>5. CASE chan' = Opened("pub") /\ Arrives /\ UNCHANGED <<brokerVars, faults>>
      <4>1. BrokerOK' /\ FaultsOK' /\ PlatformOK'
        BY <3>2, <3>5, Untouched
      <4>2. ClientOK'
        BY <2>1, <3>5, OpenedType DEF ClientOK, Parts
      <4>3. Consuming'
        BY <2>1, <3>5, OpenedType DEF Consuming, Parts, brokerVars
      <4>4. QED
        BY <3>1, <4>1, <4>2, <4>3 DEF Parts
    <3>6. QED
      BY <2>3, <3>3, <3>4, <3>5 DEF Publish_fails
  <2>4. QED
    BY <1>3, <2>2, <2>3 DEF send_publish
<1>4. QED
  BY <1>1, <1>2, <1>3 DEF Sending

\* The steps of the main thread and of the heartbeat keep the types.
LEMMA MainTypes ==
  ASSUME Parts, start_server_beat \/ wait_public \/ wait_business \/ heartbeat_func
  PROVE  Parts'
<1>1. UNCHANGED <<clientVars, brokerVars, faults, mc, signed, handed>>
  BY DEF start_server_beat, wait_public, wait_business, heartbeat_func, threadVars
<1>2. ClientOK' /\ BrokerOK' /\ FaultsOK' /\ Consuming'
  BY <1>1, Untouched DEF clientVars, brokerVars
<1>3. PlatformOK'
  BY DEF start_server_beat, wait_public, wait_business, heartbeat_func, platformVars,
         PlatformOK, Parts
<1>4. SendOK'
  BY DEF start_server_beat, wait_public, wait_business, heartbeat_func, sendVars,
         send_public_queue, SendOK, Parts
<1>5. ThreadOK'
  <2>1. CASE start_server_beat
    BY <2>1, Untouched DEF start_server_beat
  <2>2. CASE wait_public
    BY <2>2 DEF wait_public, ThreadOK, Parts
  <2>3. CASE wait_business
    BY <2>3 DEF wait_business, ThreadOK, Parts
  <2>4. CASE heartbeat_func
    BY <2>4 DEF heartbeat_func, ThreadOK, Parts
  <2>5. QED
    BY <2>1, <2>2, <2>3, <2>4
<1>6. QED
  BY <1>2, <1>3, <1>4, <1>5 DEF Parts

\* The steps of the listening threads keep the types.
LEMMA ListenerTypes == ASSUME Parts, Listener PROVE Parts'
<1> USE ClientsAre
<1>0. mc \in Clients
  BY DEF Parts, ThreadOK
<1>1. CASE QueueDeclare \/ QueueBind \/ recv_ExchangeDeclare
  <2>1. /\ UNCHANGED <<main, mc, signed, handed, sendVars, conn, platformVars>>
        /\ (\E c \in Clients, ok \in BOOLEAN : Rpc(c, ok)) \/ ExchangeDeclare("recv")
    BY <1>0, <1>1 DEF QueueDeclare, QueueBind, recv_ExchangeDeclare
  <2>2. ClientOK' /\ BrokerOK' /\ FaultsOK' /\ Consuming' /\ SendOK' /\ PlatformOK'
    BY <2>1, RpcType, DeclareType, Untouched
  <2>3. ThreadOK'
    BY <1>1, <2>1 DEF QueueDeclare, QueueBind, recv_ExchangeDeclare, ThreadOK, Parts
  <2>4. QED
    BY <2>2, <2>3 DEF Parts
<1>2. CASE Consumer_begin
  <2>1. /\ UNCHANGED <<main, mc, hb, public_ev, business_ev, signed, handed, sendVars, conn, platformVars>>
        /\ mq' \in {"wait", "consume", "connect"}
    BY <1>2 DEF Consumer_begin
  <2>2. ThreadOK' /\ SendOK' /\ PlatformOK'
    BY <2>1, Untouched DEF ThreadOK, Parts
  <2>3. CASE Rpc(mc, FALSE)
    <3>1. ClientOK' /\ BrokerOK' /\ FaultsOK' /\ Consuming'
      BY <1>0, <2>1, <2>3, RpcType
    <3>2. QED
      BY <2>2, <3>1 DEF Parts
  <2>4. CASE /\ conn[mc] = "up"
             /\ chan' = Opened(mc)
             /\ consumers' = [consumers EXCEPT ![mc] = IF @ < MaxConsumers THEN @ + 1 ELSE @]
             /\ UNCHANGED <<queue, out, held, faults>>
    <3>1. ClientOK' /\ FaultsOK'
      BY <1>0, <2>1, <2>4, Untouched, OpenedType DEF ClientOK, Parts
    <3>2. consumers' \in [Clients -> 0 .. MaxConsumers]
      <4>1. consumers[mc] \in 0 .. MaxConsumers /\ MaxConsumers \in Nat
        BY <1>0, SignAssumption DEF Parts, BrokerOK, MaxConsumers
      <4>2. (IF consumers[mc] < MaxConsumers THEN consumers[mc] + 1 ELSE consumers[mc]) \in 0 .. MaxConsumers
        BY <4>1
      <4>3. QED
        BY <2>4, <4>2 DEF Parts, BrokerOK
    <3>3. BrokerOK'
      BY <2>4, <3>2 DEF BrokerOK, Queues, Parts
    <3>4. Consuming'
      BY <1>0, <2>1, <2>4, OpenedType DEF Consuming, Parts, BrokerOK
    <3>5. QED
      BY <2>2, <3>1, <3>3, <3>4 DEF Parts
  <2>5. QED
    BY <1>2, <2>3, <2>4 DEF Consumer_begin
<1>3. CASE Consumer_request \/ Consumer_mine
  <2>1. /\ out[mc] # <<>> /\ out' = [out EXCEPT ![mc] = Tail(@)]
        /\ Hold(mc, Head(out[mc])) /\ UNCHANGED <<clientVars, queue, consumers, platformVars, faults>>
    BY <1>3 DEF Consumer_request, Consumer_mine, Read
  <2>2. Head(out[mc]) \in Content(mc) /\ Tail(out[mc]) \in Seq(Content(mc))
    BY <1>0, <2>1, ReadType DEF Parts
  <2>3. Queues(out') /\ Queues(held')
    BY <1>0, <2>1, <2>2, SetQueue, HoldType DEF Parts, BrokerOK
  <2>4. BrokerOK'
    BY <2>1, <2>3 DEF BrokerOK, Queues, Parts
  <2>5. ClientOK' /\ FaultsOK' /\ Consuming' /\ PlatformOK'
    BY <2>1, Untouched DEF clientVars
  <2>6. ThreadOK'
    <3>1. CASE Consumer_request
      <4>1. mc = "recv" /\ handed \in Seq(1 .. MaxRequests)
        BY <3>1 DEF Consumer_request, Parts, ThreadOK
      <4>2. handed' \in Seq(1 .. MaxRequests)
        BY <2>2, <3>1, <4>1, AppendType DEF Consumer_request
      <4>3. QED
        BY <3>1, <4>2 DEF Consumer_request, ThreadOK, Parts
    <3>2. CASE Consumer_mine
      BY <3>2 DEF Consumer_mine, ThreadOK, Parts
    <3>3. QED
      BY <1>3, <3>1, <3>2
  <2>7. SendOK'
    BY <1>3 DEF Consumer_request, Consumer_mine, send_public_queue, sendVars, SendOK, Parts
  <2>8. QED
    BY <2>4, <2>5, <2>6, <2>7 DEF Parts
<1>4. CASE Consumer_nack
  <2>1. /\ mc = "pub" /\ out[mc] # <<>> /\ out' = [out EXCEPT ![mc] = Tail(@)]
        /\ held' = [held EXCEPT ![mc] = <<>>] /\ mq' = "consume"
        /\ \/ /\ conn[mc] = "up" /\ chan' = chan
              /\ queue' = [queue EXCEPT ![mc] = Append(held[mc], "F") \o @]
           \/ conn[mc] # "up" /\ queue' = queue /\ chan' = [chan EXCEPT ![mc] = "null"]
        /\ UNCHANGED <<main, mc, hb, public_ev, business_ev, signed, handed, sendVars, conn,
                       consumers, platformVars, faults>>
    BY <1>4 DEF Consumer_nack, Read
  <2>2. Tail(out[mc]) \in Seq(Public) /\ queue[mc] \in Seq(Public) /\ held[mc] \in Seq(Public)
    BY <2>1, ReadType DEF Parts, BrokerOK, Queues
  <2>3. Append(held[mc], "F") \o queue[mc] \in Seq(Public) /\ <<>> \in Seq(Public)
    BY <2>2 DEF Public
  <2>4. Queues(out') /\ Queues(held') /\ Queues(queue')
    <3>1. Queues(queue) /\ Queues(held) /\ Queues(out) /\ Content(mc) = Public
      BY <2>1 DEF Parts, BrokerOK
    <3>2. /\ Queues([out EXCEPT ![mc] = Tail(out[mc])]) /\ Queues([held EXCEPT ![mc] = <<>>])
          /\ Queues([queue EXCEPT ![mc] = Append(held[mc], "F") \o queue[mc]])
      BY <1>0, <2>2, <2>3, <3>1, SetQueue
    <3>3. QED
      BY <2>1, <3>1, <3>2
  <2>5. BrokerOK'
    BY <2>1, <2>4 DEF BrokerOK, Queues, Parts
  <2>6. ClientOK' /\ Consuming'
    BY <2>1 DEF ClientOK, Consuming, Parts
  <2>7. ThreadOK' /\ SendOK' /\ PlatformOK' /\ FaultsOK'
    BY <2>1, Untouched DEF ThreadOK, Parts
  <2>8. QED
    BY <2>5, <2>6, <2>7 DEF Parts
<1>5. CASE Consumer_none
  <2>1. /\ UNCHANGED faults \/ Fault
        /\ mq' = "close"
        /\ UNCHANGED <<main, mc, hb, public_ev, business_ev, signed, handed, sendVars, clientVars,
                       brokerVars, platformVars>>
    BY <1>5 DEF Consumer_none
  <2>2. SendOK' /\ ClientOK' /\ BrokerOK' /\ PlatformOK' /\ FaultsOK' /\ Consuming'
    BY <2>1, Untouched, FaultType DEF Parts, clientVars, brokerVars
  <2>3. ThreadOK'
    BY <2>1 DEF ThreadOK, Parts
  <2>4. QED
    BY <2>2, <2>3 DEF Parts
<1>6. CASE Consumer_close
  <2>1. /\ ChannelEnds(mc) /\ chan' = [chan EXCEPT ![mc] = "null"] /\ mq' \in {"consume", "connect"}
        /\ UNCHANGED <<main, mc, hb, public_ev, business_ev, signed, handed, sendVars, conn,
                       platformVars, faults>>
    BY <1>6 DEF Consumer_close
  <2>2. BrokerOK' /\ consumers' = [consumers EXCEPT ![mc] = 0]
    BY <1>0, <2>1, EndsType DEF Parts
  <2>3. ClientOK' /\ Consuming'
    BY <1>0, <2>1, <2>2 DEF ClientOK, Consuming, Parts, BrokerOK
  <2>4. SendOK' /\ PlatformOK' /\ FaultsOK' /\ ThreadOK'
    BY <2>1, Untouched DEF ThreadOK, Parts
  <2>5. QED
    BY <2>2, <2>3, <2>4 DEF Parts
<1>7. CASE recv_Connect
  <2>1. /\ Connect("recv") /\ mq' = "exchange"
        /\ UNCHANGED <<main, mc, hb, public_ev, business_ev, signed, handed, sendVars, platformVars>>
    BY <1>7 DEF recv_Connect
  <2>2. ClientOK' /\ BrokerOK' /\ FaultsOK' /\ Consuming'
    BY <2>1, ConnectType
  <2>3. SendOK' /\ PlatformOK' /\ ThreadOK'
    BY <2>1, Untouched DEF ThreadOK, Parts
  <2>4. QED
    BY <2>2, <2>3 DEF Parts
<1>8. CASE CancelConsuming
  <2>1. /\ UNCHANGED <<sendVars, clientVars, brokerVars, platformVars, faults>>
        /\ mq' = "declare" /\ mc' = "recv"
        /\ UNCHANGED <<main, hb, public_ev, business_ev, signed, handed>>
    BY <1>8 DEF CancelConsuming
  <2>2. SendOK' /\ ClientOK' /\ BrokerOK' /\ PlatformOK' /\ FaultsOK' /\ Consuming'
    BY <2>1, Untouched DEF clientVars, brokerVars
  <2>3. ThreadOK'
    BY <2>1 DEF ThreadOK, Parts
  <2>4. QED
    BY <2>2, <2>3 DEF Parts
<1>9. QED
  BY <1>1, <1>2, <1>3, <1>4, <1>5, <1>6, <1>7, <1>8 DEF Listener

\* The steps of the broker and the network keep the types.
LEMMA BrokerTypes ==
  ASSUME Parts, NEW c \in Clients, Push(c) \/ ConnectionLost(c)
  PROVE  Parts'
<1>0. queue[c] \in Seq(Content(c)) /\ out[c] \in Seq(Content(c)) /\ <<>> \in Seq(Content(c))
  BY DEF Parts, BrokerOK, Queues
<1>1. CASE Push(c)
  <2>1. /\ queue[c] # <<>>
        /\ out' = [out EXCEPT ![c] = Append(@, Head(queue[c]))]
        /\ queue' = [queue EXCEPT ![c] = Tail(@)]
        /\ UNCHANGED <<threadVars, sendVars, clientVars, consumers, held, platformVars, faults>>
    BY <1>1 DEF Push
  <2>2. Append(out[c], Head(queue[c])) \in Seq(Content(c)) /\ Tail(queue[c]) \in Seq(Content(c))
    BY <1>0, <2>1
  <2>3. Queues(out') /\ Queues(queue')
    BY <2>1, <2>2, SetQueue DEF Parts, BrokerOK
  <2>4. BrokerOK'
    BY <2>1, <2>3 DEF BrokerOK, Queues, Parts
  <2>5. QED
    BY <2>1, <2>4, Untouched DEF clientVars, Parts
<1>2. CASE ConnectionLost(c)
  <2>1. /\ Fault
        /\ conn' = [conn EXCEPT ![c] = "dead"]
        /\ queue' = [queue EXCEPT ![c] = Requeued(c)]
        /\ held' = [held EXCEPT ![c] = <<>>]
        /\ consumers' = [consumers EXCEPT ![c] = 0]
        /\ out' = out \/ out' = [out EXCEPT ![c] = <<>>]
        /\ UNCHANGED <<threadVars, sendVars, chan, platformVars>>
    BY <1>2 DEF ConnectionLost
  <2>2. Queues(queue') /\ Queues(held') /\ Queues(out')
    <3>1. BrokerOK /\ Queues(queue) /\ Queues(held) /\ Queues(out)
      BY DEF Parts, BrokerOK
    <3>2. Requeued(c) \in Seq(Content(c))
      BY <3>1, RequeuedType
    <3>3. Queues([queue EXCEPT ![c] = Requeued(c)]) /\ Queues([held EXCEPT ![c] = <<>>])
          /\ Queues([out EXCEPT ![c] = <<>>])
      BY <1>0, <3>1, <3>2, SetQueue
    <3>4. QED
      BY <2>1, <3>1, <3>3
  <2>3. BrokerOK'
    BY <2>1, <2>2, SignAssumption DEF BrokerOK, Queues, Parts, MaxConsumers
  <2>4. ClientOK' /\ Consuming'
    BY <2>1 DEF ClientOK, Consuming, Parts, BrokerOK
  <2>5. ThreadOK' /\ SendOK' /\ PlatformOK' /\ FaultsOK'
    BY <2>1, Untouched, FaultType DEF Parts
  <2>6. QED
    BY <2>3, <2>4, <2>5 DEF Parts
<1>3. QED
  BY <1>1, <1>2

\* The platform's steps keep the types.
LEMMA PlatformTypes ==
  ASSUME Parts, PlatformReply \/ PlatformRequest
  PROVE  Parts'
<1>1. /\ UNCHANGED <<threadVars, sendVars, clientVars, consumers, out, held, asked, beaten, faults>>
      /\ \/ /\ replies < MaxReplies /\ replies' = replies + 1 /\ requests' = requests
            /\ \E m \in {"SI", "RE"} : queue' = [queue EXCEPT !["pub"] = Append(@, m)]
         \/ /\ requests < MaxRequests /\ requests' = requests + 1 /\ replies' = replies
            /\ queue' = [queue EXCEPT !["recv"] = Append(@, requests + 1)]
  BY DEF PlatformReply, PlatformRequest
<1>2. queue["pub"] \in Seq(Public) /\ queue["recv"] \in Seq(1 .. MaxRequests)
  BY ClientsAre DEF Parts, BrokerOK, Queues
<1>3. PlatformOK'
  BY <1>1, SignAssumption DEF PlatformOK, Parts
<1>4. Queues(queue')
  <2>1. CASE \E m \in {"SI", "RE"} : queue' = [queue EXCEPT !["pub"] = Append(@, m)]
    <3>1. PICK m \in Public : queue' = [queue EXCEPT !["pub"] = Append(@, m)]
      BY <2>1 DEF Public
    <3>2. Append(queue["pub"], m) \in Seq(Content("pub"))
      BY <1>2, ClientsAre
    <3>3. QED
      BY <3>1, <3>2, ClientsAre, SetQueue DEF Parts, BrokerOK
  <2>2. CASE requests < MaxRequests /\ queue' = [queue EXCEPT !["recv"] = Append(@, requests + 1)]
    <3>1. requests + 1 \in 1 .. MaxRequests
      BY <2>2, SignAssumption DEF Parts, PlatformOK
    <3>2. Append(queue["recv"], requests + 1) \in Seq(Content("recv"))
      BY <1>2, <3>1, ClientsAre, AppendType
    <3>3. QED
      BY <2>2, <3>2, ClientsAre, SetQueue DEF Parts, BrokerOK
  <2>3. QED
    BY <1>1, <2>1, <2>2
<1>5. BrokerOK'
  BY <1>1, <1>4 DEF BrokerOK, Queues, Parts
<1>6. ThreadOK' /\ SendOK' /\ ClientOK' /\ FaultsOK' /\ Consuming'
  BY <1>1, Untouched DEF clientVars
<1>7. QED
  BY <1>3, <1>5, <1>6 DEF Parts

\* Every step keeps the types.
LEMMA SignTypeStep == Parts /\ [SignNext]_signVars => Parts'
<1> SUFFICES ASSUME Parts, [SignNext]_signVars PROVE Parts'
  OBVIOUS
<1>1. CASE UNCHANGED signVars
  BY <1>1, Untouched DEF signVars, clientVars, brokerVars, Parts
<1>2. CASE SignNext
  BY <1>2, SendingTypes, MainTypes, ListenerTypes, BrokerTypes, PlatformTypes DEF SignNext
<1>3. QED
  BY <1>1, <1>2

\* The initial states have the types.
LEMMA SignPartsInit == SignInit => Parts
<1> SUFFICES ASSUME SignInit PROVE Parts
  OBVIOUS
<1>1. PICK left \in {<<>>, <<"F">>} : queue = [c \in Clients |-> IF c = "pub" THEN left ELSE <<>>]
  BY DEF SignInit
<1>2. <<"F">> \in Seq(Public) /\ <<>> \in Seq(Public) /\ <<>> \in Seq(1 .. MaxRequests)
  BY DEF Public
<1>3. Queues(queue) /\ Queues(out) /\ Queues(held)
  BY <1>1, <1>2 DEF SignInit, Queues, Content
<1>4. BrokerOK /\ Consuming
  BY <1>3, SignAssumption DEF SignInit, BrokerOK, Consuming, MaxConsumers
<1>5. ThreadOK /\ SendOK /\ ClientOK /\ PlatformOK /\ FaultsOK
  <2>1. ThreadOK
    <3>1. /\ main = "signIn" /\ mq = "none" /\ mc = "pub" /\ hb = "none"
          /\ public_ev = 0 /\ business_ev = 0 /\ signed = FALSE /\ handed = <<>>
      BY Zenon DEF SignInit
    <3>2. 0 \in 0 .. 1
      OBVIOUS
    <3>3. QED
      BY <1>2, <3>1, <3>2, ClientsAre, Zenon DEF ThreadOK
  <2>2. SendOK /\ ClientOK
    BY DEF SignInit, SendOK, ClientOK
  <2>3. PlatformOK /\ FaultsOK
    <3>1. asked = FALSE /\ replies = 0 /\ requests = 0 /\ beaten = FALSE /\ faults = 0
      BY Zenon DEF SignInit
    <3>2. 0 \in 0 .. MaxReplies /\ 0 \in 0 .. MaxRequests /\ 0 \in 0 .. MaxFaults
      BY SignAssumption
    <3>3. QED
      BY <3>1, <3>2, Zenon DEF PlatformOK, FaultsOK
  <2>4. QED
    BY <2>1, <2>2, <2>3
<1>6. QED
  BY <1>4, <1>5 DEF Parts
-----------------------------------------------------------------------------
(***************************************************************************)
(* What a step does to the messages: nothing, or one of a few moves.       *)
(***************************************************************************)
Ends(c) == ChannelEnds(c) /\ \E x : conn' = [conn EXCEPT ![c] = x]

\* A message for this gateway is read in place of a confirmation.
Dropped ==
  /\ conn["pub"] = "up" /\ out["pub"] # <<>>
  /\ held' = [held EXCEPT !["pub"] = Append(@, Head(out["pub"]))]
  /\ out' = [out EXCEPT !["pub"] = Tail(@)]
  /\ UNCHANGED <<queue, conn>>

\* A step moves messages in one of these ways.
Delivery ==
  \/ /\ UNCHANGED <<handed, replies, requests>>
     /\ UNCHANGED <<queue, out, held, conn>> \/ (\E c \in Clients : Ends(c)) \/ Dropped
  \/ \E c \in Clients : Push(c) \/ ConnectionLost(c)
  \/ Consumer_request \/ Consumer_mine \/ Consumer_nack \/ PlatformReply \/ PlatformRequest

\* A failed call and a new connection end the channel, other calls leave it.
LEMMA CallsEnd ==
  ASSUME Parts, NEW c \in Clients
  PROVE  /\ Connect(c) => Ends(c)
         /\ \A ok \in BOOLEAN : Rpc(c, ok) /\ conn' = conn =>
              UNCHANGED <<queue, out, held, conn>> \/ Ends(c)
         /\ ExchangeDeclare(c) /\ conn' = conn => UNCHANGED <<queue, out, held, conn>> \/ Ends(c)
<1>1. Connect(c) => Ends(c)
  BY DEF Connect, Ends
<1>2. conn' = conn => \E x : conn' = [conn EXCEPT ![c] = x]
  <2>1. [conn EXCEPT ![c] = conn[c]] = conn
    BY DEF Parts, ClientOK
  <2>2. QED
    BY <2>1
<1>3. ASSUME NEW ok \in BOOLEAN, Rpc(c, ok), conn' = conn
      PROVE  UNCHANGED <<queue, out, held, conn>> \/ Ends(c)
  BY <1>2, <1>3 DEF Rpc, brokerVars, Ends
<1>4. ExchangeDeclare(c) /\ conn' = conn => UNCHANGED <<queue, out, held, conn>> \/ Ends(c)
  BY <1>3 DEF ExchangeDeclare, brokerVars
<1>5. QED
  BY <1>1, <1>3, <1>4

\* Every step is one of those.
LEMMA StepDelivers ==
  ASSUME Parts, [SignNext]_signVars
  PROVE  Delivery
<1> USE ClientsAre
<1>0. mc \in Clients
  BY DEF Parts, ThreadOK
<1>1. CASE Sending
  <2>1. UNCHANGED <<handed, replies, requests>>
    BY <1>1 DEF Sending, send_connect, send_declare, send_publish, threadVars, platformVars,
       Publish_ok, Publish_fails, Arrives
  <2>2. CASE send_connect
    BY <2>1, <2>2, CallsEnd DEF send_connect, Delivery
  <2>3. CASE send_declare
    BY <2>1, <2>3, CallsEnd DEF send_declare, Delivery
  <2>4. CASE send_publish
    <3>1. UNCHANGED brokerVars \/ Dropped
      BY <2>4 DEF send_publish, Publish_ok, Publish_fails, Dropped
    <3>2. conn' = conn
      BY <2>4 DEF send_publish
    <3>3. QED
      BY <2>1, <3>1, <3>2 DEF brokerVars, Delivery
  <2>5. QED
    BY <1>1, <2>2, <2>3, <2>4 DEF Sending
<1>2. CASE start_server_beat \/ wait_public \/ wait_business \/ heartbeat_func
  BY <1>2 DEF start_server_beat, wait_public, wait_business, heartbeat_func, threadVars,
     clientVars, brokerVars, platformVars, Delivery
<1>3. CASE QueueDeclare \/ QueueBind \/ recv_ExchangeDeclare
  <2>1. /\ UNCHANGED <<handed, conn, platformVars>>
        /\ (\E c \in Clients, ok \in BOOLEAN : Rpc(c, ok)) \/ ExchangeDeclare("recv")
    BY <1>0, <1>3 DEF QueueDeclare, QueueBind, recv_ExchangeDeclare
  <2>2. UNCHANGED <<queue, out, held, conn>> \/ \E c \in Clients : Ends(c)
    BY <2>1, CallsEnd
  <2>3. QED
    BY <2>1, <2>2 DEF Delivery, platformVars
<1>4. CASE Consumer_begin
  <2>1. UNCHANGED <<handed, conn, platformVars>> /\ (UNCHANGED <<queue, out, held>> \/ Rpc(mc, FALSE))
    BY <1>4 DEF Consumer_begin
  <2>2. UNCHANGED <<queue, out, held, conn>> \/ \E c \in Clients : Ends(c)
    BY <1>0, <2>1, CallsEnd
  <2>3. QED
    BY <2>1, <2>2 DEF Delivery, platformVars
<1>5. CASE Consumer_none \/ CancelConsuming
  BY <1>5 DEF Consumer_none, CancelConsuming, clientVars, brokerVars, platformVars, Delivery
<1>6. CASE Consumer_close
  <2>1. UNCHANGED <<handed, conn, platformVars>> /\ ChannelEnds(mc)
    BY <1>6 DEF Consumer_close
  <2>2. [conn EXCEPT ![mc] = conn[mc]] = conn
    BY DEF Parts, ClientOK
  <2>3. Ends(mc)
    BY <2>1, <2>2 DEF Ends
  <2>4. QED
    BY <1>0, <2>1, <2>3 DEF Delivery, platformVars
<1>7. CASE recv_Connect
  BY <1>7, CallsEnd DEF recv_Connect, Delivery, platformVars
<1>8. CASE Consumer_request \/ Consumer_mine \/ Consumer_nack \/ PlatformReply \/ PlatformRequest
  BY <1>8 DEF Delivery
<1>9. CASE \E c \in Clients : Push(c) \/ ConnectionLost(c)
  BY <1>9 DEF Delivery
<1>10. CASE UNCHANGED signVars
  BY <1>10 DEF signVars, threadVars, clientVars, brokerVars, platformVars, Delivery
<1>11. QED
  BY <1>1, <1>2, <1>3, <1>4, <1>5, <1>6, <1>7, <1>8, <1>9, <1>10 DEF SignNext, Listener
-----------------------------------------------------------------------------
(***************************************************************************)
(* The requests: those handed on, pushed and queued are in the order the   *)
(* platform numbered them.                                                 *)
(***************************************************************************)
Increasing(s) == \A i, j \in DOMAIN s : i < j => s[i] < s[j]
\* Every number of s is below every number of t.
Before(s, t) == \A i \in DOMAIN s : \A j \in DOMAIN t : s[i] < t[j]
\* s has no request the platform has not sent yet.
Numbered(s) == \A i \in DOMAIN s : s[i] <= requests

\* The inductive invariant of the order: handed over, delivered, still queued.
OnTheWay ==
  LET q == queue["recv"]
      o == out["recv"] IN
  /\ Increasing(handed) /\ Increasing(o) /\ Increasing(q)
  /\ Before(handed, o) /\ Before(handed, q) /\ Before(o, q)
  /\ Numbered(handed) /\ Numbered(o) /\ Numbered(q)

\* The first of t goes to the end of s.
LEMMA PassOn ==
  ASSUME NEW s \in Seq(Nat), NEW t \in Seq(Nat), t # <<>>, Increasing(s), Increasing(t), Before(s, t)
  PROVE  LET a == Append(s, Head(t))
             b == Tail(t) IN
         /\ Increasing(a) /\ Increasing(b) /\ Before(a, b)
         /\ \A i \in DOMAIN a : (\E j \in DOMAIN s : a[i] = s[j]) \/ (\E j \in DOMAIN t : a[i] = t[j])
         /\ \A i \in DOMAIN b : \E j \in DOMAIN t : b[i] = t[j]
<1> DEFINE a == Append(s, Head(t))
           b == Tail(t)
<1>1. /\ Len(s) \in Nat /\ Len(t) \in Nat /\ Len(t) > 0
      /\ DOMAIN s = 1 .. Len(s) /\ DOMAIN t = 1 .. Len(t)
      /\ DOMAIN a = 1 .. Len(s) + 1 /\ DOMAIN b = 1 .. Len(t) - 1
  OBVIOUS
<1>2. \A i \in 1 .. Len(s) : a[i] = s[i]
  OBVIOUS
<1>3. a[Len(s) + 1] = t[1]
  OBVIOUS
<1>4. \A i \in 1 .. Len(t) - 1 : b[i] = t[i + 1]
  OBVIOUS
<1>5. (\A i \in 1 .. Len(s) : s[i] \in Nat) /\ (\A i \in 1 .. Len(t) : t[i] \in Nat)
  OBVIOUS
<1>a. \A i \in 1 .. Len(s) + 1 : i \in 1 .. Len(s) \/ i = Len(s) + 1
  <2>1. ASSUME NEW n \in Nat, NEW k \in 1 .. n + 1 PROVE k \in 1 .. n \/ k = n + 1
    OBVIOUS
  <2>2. QED
    BY <1>1, <2>1
<1> HIDE DEF a, b
<1>6. Increasing(a)
  <2> SUFFICES ASSUME NEW i \in 1 .. Len(s) + 1, NEW j \in 1 .. Len(s) + 1, i < j
               PROVE  a[i] < a[j]
    BY <1>1 DEF Increasing
  <2>1. i \in 1 .. Len(s)
    BY <1>1
  <2>2. CASE j \in 1 .. Len(s)
    <3>1. s[i] < s[j]
      BY <1>1, <2>1, <2>2 DEF Increasing
    <3>2. QED
      BY <1>2, <2>1, <2>2, <3>1
  <2>3. CASE j = Len(s) + 1
    <3>1. 1 \in 1 .. Len(t)
      BY <1>1
    <3>2. s[i] < t[1]
      BY <1>1, <2>1, <3>1 DEF Before
    <3>3. QED
      BY <1>2, <1>3, <2>1, <2>3, <3>2
  <2>4. QED
    BY <1>a, <2>2, <2>3
<1>7. Increasing(b)
  <2> SUFFICES ASSUME NEW i \in 1 .. Len(t) - 1, NEW j \in 1 .. Len(t) - 1, i < j
               PROVE  b[i] < b[j]
    BY <1>1 DEF Increasing
  <2>1. i + 1 \in 1 .. Len(t) /\ j + 1 \in 1 .. Len(t) /\ i + 1 < j + 1
    BY <1>1
  <2>2. t[i + 1] < t[j + 1]
    BY <1>1, <2>1 DEF Increasing
  <2>3. QED
    BY <1>4, <2>2
<1>8. Before(a, b)
  <2> SUFFICES ASSUME NEW i \in 1 .. Len(s) + 1, NEW j \in 1 .. Len(t) - 1
               PROVE  a[i] < b[j]
    BY <1>1 DEF Before
  <2>1. 1 \in 1 .. Len(t) /\ j + 1 \in 1 .. Len(t) /\ 1 < j + 1
    BY <1>1
  <2>2. CASE i \in 1 .. Len(s)
    <3>1. s[i] < t[j + 1]
      BY <1>1, <2>1, <2>2 DEF Before
    <3>2. QED
      BY <1>2, <1>4, <2>2, <3>1
  <2>3. CASE i = Len(s) + 1
    <3>1. t[1] < t[j + 1]
      BY <1>1, <2>1 DEF Increasing
    <3>2. QED
      BY <1>3, <1>4, <2>3, <3>1
  <2>4. QED
    BY <1>a, <2>2, <2>3
<1>9. \A i \in DOMAIN a : (\E j \in DOMAIN s : a[i] = s[j]) \/ (\E j \in DOMAIN t : a[i] = t[j])
  <2> TAKE i \in DOMAIN a
  <2>1. CASE i \in 1 .. Len(s)
    BY <1>1, <1>2, <2>1
  <2>2. CASE i = Len(s) + 1
    BY <1>1, <1>3, <2>2
  <2>3. QED
    BY <1>1, <1>a, <2>1, <2>2
<1>10. \A i \in DOMAIN b : \E j \in DOMAIN t : b[i] = t[j]
  <2> SUFFICES ASSUME NEW i \in 1 .. Len(t) - 1 PROVE \E j \in DOMAIN t : b[i] = t[j]
    BY <1>1
  <2>1. i + 1 \in 1 .. Len(t) /\ b[i] = t[i + 1]
    BY <1>1, <1>4
  <2>2. QED
    BY <1>1, <2>1
<1>11. QED
  BY <1>6, <1>7, <1>8, <1>9, <1>10 DEF a, b

\* The requests on their way are numbers.
LEMMA RequestTypes ==
  ASSUME Parts
  PROVE  /\ queue["recv"] \in Seq(Nat) /\ out["recv"] \in Seq(Nat) /\ handed \in Seq(Nat)
         /\ requests \in Nat
<1>1. \A s \in Seq(1 .. MaxRequests) : s \in Seq(Nat)
  <2>1. 1 .. MaxRequests \subseteq Nat
    OBVIOUS
  <2>2. QED
    BY <2>1, SeqMonotonic
<1>2. QED
  BY <1>1, ClientsAre, SignAssumption DEF Parts, BrokerOK, Queues, ThreadOK, PlatformOK

\* What was pushed may be lost with the channel; the rest stays in order.
LEMMA OrderKept ==
  ASSUME OnTheWay, UNCHANGED <<handed, requests>>, queue'["recv"] = queue["recv"],
         out'["recv"] = out["recv"] \/ out'["recv"] = <<>>
  PROVE  OnTheWay'
  BY DEF OnTheWay, Increasing, Before, Numbered

\* Every step keeps the order.
LEMMA SignOrderStep ==
  ASSUME Parts, OnTheWay, Delivery
  PROVE  OnTheWay'
<1> USE ClientsAre
<1>0. "pub" # "recv" /\ DOMAIN queue = Clients /\ DOMAIN out = Clients
  BY DEF Parts, BrokerOK, Queues
<1>t. /\ queue["recv"] \in Seq(Nat) /\ out["recv"] \in Seq(Nat) /\ handed \in Seq(Nat)
      /\ requests \in Nat
  BY RequestTypes
<1>1. CASE /\ UNCHANGED <<handed, replies, requests>>
           /\ UNCHANGED <<queue, out, held, conn>> \/ (\E c \in Clients : Ends(c)) \/ Dropped
  <2>1. queue'["recv"] = queue["recv"] /\ (out'["recv"] = out["recv"] \/ out'["recv"] = <<>>)
    BY <1>0, <1>1 DEF Ends, ChannelEnds, Dropped, Requeued, no_ack
  <2>2. QED
    BY <1>1, <2>1, OrderKept
<1>2. CASE \E c \in Clients : ConnectionLost(c)
  <2>1. queue'["recv"] = queue["recv"] /\ (out'["recv"] = out["recv"] \/ out'["recv"] = <<>>)
    BY <1>0, <1>2 DEF ConnectionLost, Requeued, no_ack
  <2>2. QED
    BY <1>2, <2>1, OrderKept DEF ConnectionLost, threadVars, platformVars
<1>3. CASE Push("pub") \/ Consumer_mine \/ Consumer_nack \/ PlatformReply
  <2>1. queue'["recv"] = queue["recv"] /\ out'["recv"] = out["recv"]
    BY <1>0, <1>3 DEF Push, Consumer_mine, Consumer_nack, PlatformReply, Read
  <2>2. UNCHANGED <<handed, requests>>
    BY <1>3 DEF Push, Consumer_mine, Consumer_nack, PlatformReply, threadVars, platformVars
  <2>3. QED
    BY <2>1, <2>2, OrderKept
<1>4. CASE Push("recv")
  <2> DEFINE q == queue["recv"]
             o == out["recv"]
  <2>1. /\ q # <<>> /\ queue'["recv"] = Tail(q) /\ out'["recv"] = Append(o, Head(q))
        /\ handed' = handed /\ requests' = requests
    BY <1>0, <1>4 DEF Push, threadVars, platformVars
  <2>2. /\ Increasing(handed) /\ Increasing(o) /\ Increasing(q)
        /\ Before(handed, o) /\ Before(handed, q) /\ Before(o, q)
        /\ Numbered(handed) /\ Numbered(o) /\ Numbered(q)
    BY DEF OnTheWay
  <2> DEFINE a == Append(o, Head(q))
             b == Tail(q)
  <2>3. /\ Increasing(a) /\ Increasing(b) /\ Before(a, b)
        /\ \A i \in DOMAIN a : (\E j \in DOMAIN o : a[i] = o[j]) \/ (\E j \in DOMAIN q : a[i] = q[j])
        /\ \A i \in DOMAIN b : \E j \in DOMAIN q : b[i] = q[j]
    BY <1>t, <2>1, <2>2, PassOn
  <2> HIDE DEF a, b, o, q
  <2>4. Before(handed, a) /\ Before(handed, b)
    BY <2>2, <2>3 DEF Before
  <2>5. Numbered(a) /\ Numbered(b)
    BY <2>2, <2>3 DEF Numbered
  <2>6. queue'["recv"] = b /\ out'["recv"] = a
    BY <2>1 DEF a, b
  <2>7. QED
    BY <2>1, <2>2, <2>3, <2>4, <2>5, <2>6 DEF OnTheWay, Numbered
<1>5. CASE Consumer_request
  <2> DEFINE q == queue["recv"]
             o == out["recv"]
  <2>1. /\ o # <<>> /\ out'["recv"] = Tail(o) /\ handed' = Append(handed, Head(o))
        /\ queue' = queue /\ requests' = requests
    BY <1>0, <1>5 DEF Consumer_request, Read, platformVars
  <2>2. /\ Increasing(handed) /\ Increasing(o) /\ Increasing(q)
        /\ Before(handed, o) /\ Before(handed, q) /\ Before(o, q)
        /\ Numbered(handed) /\ Numbered(o) /\ Numbered(q)
    BY DEF OnTheWay
  <2> DEFINE a == Append(handed, Head(o))
             b == Tail(o)
  <2>3. /\ Increasing(a) /\ Increasing(b) /\ Before(a, b)
        /\ \A i \in DOMAIN a : (\E j \in DOMAIN handed : a[i] = handed[j]) \/ (\E j \in DOMAIN o : a[i] = o[j])
        /\ \A i \in DOMAIN b : \E j \in DOMAIN o : b[i] = o[j]
    BY <1>t, <2>1, <2>2, PassOn
  <2> HIDE DEF a, b, o, q
  <2>4. Before(a, q) /\ Before(b, q)
    BY <2>2, <2>3 DEF Before
  <2>5. Numbered(a) /\ Numbered(b)
    BY <2>2, <2>3 DEF Numbered
  <2>6. queue'["recv"] = q /\ out'["recv"] = b /\ handed' = a
    BY <2>1 DEF a, b, q
  <2>7. QED
    BY <2>1, <2>2, <2>3, <2>4, <2>5, <2>6 DEF OnTheWay, Numbered
<1>6. CASE PlatformRequest
  <2> DEFINE q == queue["recv"]
             o == out["recv"]
             a == Append(q, requests + 1)
  <2>1. /\ requests' = requests + 1 /\ queue'["recv"] = a
        /\ out' = out /\ handed' = handed
    BY <1>0, <1>6 DEF PlatformRequest, threadVars
  <2>2. /\ Increasing(handed) /\ Increasing(o) /\ Increasing(q)
        /\ Before(handed, o) /\ Before(handed, q) /\ Before(o, q)
        /\ Numbered(handed) /\ Numbered(o) /\ Numbered(q)
    BY DEF OnTheWay
  <2>3. DOMAIN q = 1 .. Len(q) /\ Len(q) \in Nat /\ DOMAIN a = 1 .. Len(q) + 1
        /\ (\A i \in 1 .. Len(q) : a[i] = q[i]) /\ a[Len(q) + 1] = requests + 1
    BY <1>t
  <2>4. /\ \A i \in DOMAIN q : q[i] \in Nat
        /\ \A i \in DOMAIN o : o[i] \in Nat
        /\ \A i \in DOMAIN handed : handed[i] \in Nat
    BY <1>t
  <2> HIDE DEF a, q, o
  <2>5. Increasing(a)
    BY <1>t, <2>2, <2>3, <2>4 DEF Increasing, Numbered
  <2>6. /\ \A i \in DOMAIN handed : handed[i] < requests + 1
        /\ \A i \in DOMAIN o : o[i] < requests + 1
        /\ \A i \in DOMAIN q : q[i] < requests + 1
    BY <1>t, <2>2, <2>4 DEF Numbered
  <2>a. Before(handed, a) /\ Before(o, a)
    <3>1. ASSUME NEW s, Before(s, q), \A i \in DOMAIN s : s[i] < requests + 1 PROVE Before(s, a)
      <4> SUFFICES ASSUME NEW i \in DOMAIN s, NEW j \in 1 .. Len(q) + 1 PROVE s[i] < a[j]
        BY <2>3 DEF Before
      <4>1. CASE j \in 1 .. Len(q)
        BY <2>3, <3>1, <4>1 DEF Before
      <4>2. CASE j = Len(q) + 1
        BY <2>3, <3>1, <4>2
      <4>3. QED
        BY <2>3, <4>1, <4>2
    <3>2. QED
      BY <2>2, <2>6, <3>1
  <2>7. /\ \A i \in DOMAIN o : o[i] <= requests + 1
        /\ \A i \in DOMAIN handed : handed[i] <= requests + 1
    BY <1>t, <2>4, <2>6
  <2>b. \A i \in DOMAIN a : a[i] <= requests + 1
    <3> SUFFICES ASSUME NEW i \in 1 .. Len(q) + 1 PROVE a[i] <= requests + 1
      BY <2>3
    <3>1. CASE i \in 1 .. Len(q)
      BY <1>t, <2>3, <2>4, <2>6, <3>1
    <3>2. CASE i = Len(q) + 1
      BY <1>t, <2>3, <3>2
    <3>3. QED
      BY <2>3, <3>1, <3>2
  <2>8. out'["recv"] = o
    BY <2>1 DEF o
  <2>9. QED
    BY <2>1, <2>2, <2>5, <2>a, <2>7, <2>b, <2>8 DEF OnTheWay, Numbered
<1>7. QED
  BY <1>1, <1>2, <1>3, <1>4, <1>5, <1>6 DEF Delivery, Clients
-----------------------------------------------------------------------------
(***************************************************************************)
(* The platform's messages: each is in one place that counts.              *)
(***************************************************************************)
\* What the client held, the broker took back when the connection was lost.
HeldInv == conn["pub"] # "up" => held["pub"] = <<>>

\* The public queue and its client: the types the counting needs.
LEMMA PubTypes ==
  ASSUME Parts
  PROVE  /\ queue["pub"] \in Seq(Public) /\ out["pub"] \in Seq(Public) /\ held["pub"] \in Seq(Public)
         /\ Mine(queue["pub"]) \in Nat /\ Mine(out["pub"]) \in Nat /\ Mine(held["pub"]) \in Nat
         /\ replies \in Nat
<1>1. queue["pub"] \in Seq(Public) /\ out["pub"] \in Seq(Public) /\ held["pub"] \in Seq(Public)
  BY ClientsAre DEF Parts, BrokerOK, Queues
<1>2. replies \in Nat
  BY DEF Parts, PlatformOK
<1>3. QED
  BY <1>1, <1>2, MineType

\* A step that leaves the public queue and its client alone.
LEMMA RepliesKept ==
  ASSUME HeldInv, RepliesNotLost, replies' = replies, conn'["pub"] = conn["pub"],
         queue'["pub"] = queue["pub"], out'["pub"] = out["pub"], held'["pub"] = held["pub"]
  PROVE  HeldInv' /\ RepliesNotLost'
<1>1. \A s : Mine(s)' = Mine(s)
  BY DEF Mine
<1>2. QED
  BY DEF HeldInv, RepliesNotLost, Mine

\* The channel ends or the connection is lost: all goes back to the queue.
LEMMA RepliesReturn ==
  ASSUME Parts, HeldInv, RepliesNotLost, replies' = replies, queue'["pub"] = Requeued("pub"),
         held'["pub"] = <<>>, out'["pub"] = <<>> \/ conn'["pub"] # "up"
  PROVE  HeldInv' /\ RepliesNotLost'
<1> DEFINE q == queue["pub"]
           o == out["pub"]
           h == held["pub"]
<1>1. /\ q \in Seq(Public) /\ o \in Seq(Public) /\ h \in Seq(Public)
      /\ Mine(q) \in Nat /\ Mine(o) \in Nat /\ Mine(h) \in Nat /\ replies \in Nat
  BY PubTypes
<1>2. replies = Mine(q) + Mine(h) + IF conn["pub"] = "up" THEN Mine(o) ELSE 0
  BY DEF RepliesNotLost
<1>3. replies' = Mine(queue'["pub"]) + Mine(held'["pub"])
                   + IF conn'["pub"] = "up" THEN Mine(out'["pub"]) ELSE 0
  <2>1. Mine(queue'["pub"]) = replies
    <3>1. CASE conn["pub"] = "up"
      <4>1. queue'["pub"] = (h \o o) \o q
        BY <3>1 DEF Requeued, no_ack
      <4>2. h \o o \in Seq(Public) /\ Mine(h \o o) = Mine(h) + Mine(o)
        BY <1>1, MineConcat
      <4>3. Mine((h \o o) \o q) = Mine(h \o o) + Mine(q)
        BY <1>1, <4>2, MineConcat
      <4>4. Mine(queue'["pub"]) = Mine((h \o o) \o q)
        BY <4>1
      <4>5. (IF conn["pub"] = "up" THEN Mine(o) ELSE 0) = Mine(o)
        BY <3>1
      <4> HIDE DEF q, o, h
      <4>6. replies = Mine(q) + Mine(h) + Mine(o)
        BY <1>2, <4>5
      <4>7. Mine((h \o o) \o q) = replies
        BY <1>1, <4>2, <4>3, <4>6
      <4>8. QED
        BY <4>4, <4>7
    <3>2. CASE conn["pub"] # "up"
      <4>1. queue'["pub"] = q /\ h = <<>>
        BY <3>2 DEF Requeued, HeldInv
      <4>2. Mine(h) = 0
        BY <4>1, MineNone
      <4> HIDE DEF q, o, h
      <4>3. (IF conn["pub"] = "up" THEN Mine(o) ELSE 0) = 0
        BY <3>2
      <4>4. Mine(queue'["pub"]) = Mine(q)
        BY <4>1
      <4>5. replies = Mine(q) + 0 + 0
        BY <1>2, <4>2, <4>3
      <4>6. replies = Mine(q)
        BY <1>1, <4>5
      <4>7. QED
        BY <4>4, <4>6
    <3>3. QED
      BY <3>1, <3>2
  <2>2. Mine(held'["pub"]) = 0
    BY MineNone
  <2>3. (IF conn'["pub"] = "up" THEN Mine(out'["pub"]) ELSE 0) = 0
    BY MineNone
  <2>4. QED
    BY <1>1, <2>1, <2>2, <2>3
<1>4. RepliesNotLost'
  BY <1>3 DEF RepliesNotLost, Mine
<1>5. QED
  BY <1>4 DEF HeldInv

\* The same messages in other places.
LEMMA RepliesMoved ==
  ASSUME HeldInv', replies' = replies, conn' = conn, RepliesNotLost,
         Mine(queue'["pub"]) + Mine(held'["pub"]) + (IF conn["pub"] = "up" THEN Mine(out'["pub"]) ELSE 0)
           = Mine(queue["pub"]) + Mine(held["pub"]) + (IF conn["pub"] = "up" THEN Mine(out["pub"]) ELSE 0)
  PROVE  HeldInv' /\ RepliesNotLost'
  BY DEF RepliesNotLost, Mine

\* Every step keeps HeldInv and loses no reply.
LEMMA RepliesStep ==
  ASSUME Parts, HeldInv, RepliesNotLost, Delivery
  PROVE  HeldInv' /\ RepliesNotLost'
<1> USE ClientsAre
<1> DEFINE q == queue["pub"]
           o == out["pub"]
           h == held["pub"]
<1>0. /\ "pub" # "recv" /\ DOMAIN queue = Clients /\ DOMAIN out = Clients /\ DOMAIN held = Clients
      /\ DOMAIN conn = Clients
  BY DEF Parts, BrokerOK, Queues, ClientOK
<1>t. /\ q \in Seq(Public) /\ o \in Seq(Public) /\ h \in Seq(Public)
      /\ Mine(q) \in Nat /\ Mine(o) \in Nat /\ Mine(h) \in Nat /\ replies \in Nat
  BY PubTypes
<1>1. CASE replies' = replies /\ UNCHANGED <<queue, out, held, conn>>
  BY <1>1, RepliesKept
<1>2. CASE replies' = replies /\ (Ends("recv") \/ ConnectionLost("recv") \/ Push("recv") \/ Consumer_request
                                  \/ PlatformRequest)
  <2>1. /\ queue'["pub"] = queue["pub"] /\ out'["pub"] = out["pub"] /\ held'["pub"] = held["pub"]
        /\ conn'["pub"] = conn["pub"]
    BY <1>0, <1>2 DEF Ends, ChannelEnds, ConnectionLost, Push, Consumer_request, Read, Hold, no_ack,
       PlatformRequest, clientVars
  <2>2. QED
    BY <1>2, <2>1, RepliesKept
<1>3. CASE replies' = replies /\ (Ends("pub") \/ ConnectionLost("pub"))
  <2>1. /\ queue'["pub"] = Requeued("pub") /\ held'["pub"] = <<>>
        /\ out'["pub"] = <<>> \/ conn'["pub"] # "up"
    BY <1>0, <1>3 DEF Ends, ChannelEnds, ConnectionLost
  <2>2. QED
    BY <1>3, <2>1, RepliesReturn
<1>4. CASE replies' = replies /\ Push("pub")
  <2>1. /\ q # <<>> /\ conn["pub"] = "up" /\ conn' = conn
        /\ out'["pub"] = Append(o, Head(q)) /\ queue'["pub"] = Tail(q) /\ held'["pub"] = h
    BY <1>0, <1>4 DEF Push, clientVars, Parts, Consuming
  <2>2. /\ Head(q) \in Public /\ Tail(q) \in Seq(Public)
        /\ Mine(q) = Mine(Tail(q)) + IF Head(q) = "F" THEN 0 ELSE 1
    BY <1>t, <2>1, MineTail
  <2>3. Mine(Append(o, Head(q))) = Mine(o) + IF Head(q) = "F" THEN 0 ELSE 1
    BY <1>t, <2>2, MineAppend
  <2>4. Mine(Tail(q)) \in Nat
    BY <2>2, MineType
  <2>5. HeldInv'
    BY <2>1 DEF HeldInv
  <2> HIDE DEF q, o, h
  <2>6. Mine(Tail(q)) + Mine(h) + Mine(Append(o, Head(q))) = Mine(q) + Mine(h) + Mine(o)
    BY <1>t, <2>2, <2>3, <2>4
  <2>7. QED
    BY <1>4, <2>1, <2>5, <2>6, RepliesMoved DEF q, o, h
<1>5. CASE replies' = replies /\ (Dropped \/ (Consumer_mine /\ conn["pub"] = "up"))
  <2>1. /\ o # <<>> /\ conn["pub"] = "up" /\ conn' = conn
        /\ out'["pub"] = Tail(o) /\ held'["pub"] = Append(h, Head(o)) /\ queue'["pub"] = q
    BY <1>0, <1>5 DEF Dropped, Consumer_mine, Read, Hold, no_ack, clientVars
  <2>2. /\ Head(o) \in Public /\ Tail(o) \in Seq(Public)
        /\ Mine(o) = Mine(Tail(o)) + IF Head(o) = "F" THEN 0 ELSE 1
    BY <1>t, <2>1, MineTail
  <2>3. Mine(Append(h, Head(o))) = Mine(h) + IF Head(o) = "F" THEN 0 ELSE 1
    BY <1>t, <2>2, MineAppend
  <2>4. Mine(Tail(o)) \in Nat
    BY <2>2, MineType
  <2>5. HeldInv'
    BY <2>1 DEF HeldInv
  <2> HIDE DEF q, o, h
  <2>6. Mine(q) + Mine(Append(h, Head(o))) + Mine(Tail(o)) = Mine(q) + Mine(h) + Mine(o)
    BY <1>t, <2>2, <2>3, <2>4
  <2>7. QED
    BY <1>5, <2>1, <2>5, <2>6, RepliesMoved DEF q, o, h
<1>6. CASE replies' = replies /\ Consumer_mine /\ conn["pub"] # "up"
  <2>1. conn' = conn /\ held'["pub"] = h /\ queue'["pub"] = q
    BY <1>0, <1>6 DEF Consumer_mine, Read, Hold, no_ack, clientVars
  <2>2. HeldInv'
    BY <2>1 DEF HeldInv
  <2>3. QED
    BY <1>6, <2>1, <2>2, RepliesMoved
<1>7. CASE replies' = replies /\ Consumer_nack /\ conn["pub"] = "up"
  <2>1. /\ o # <<>> /\ Head(o) = "F" /\ conn' = conn
        /\ out'["pub"] = Tail(o) /\ held'["pub"] = <<>> /\ queue'["pub"] = Append(h, "F") \o q
    BY <1>0, <1>7 DEF Consumer_nack, Read
  <2>2. Mine(o) = Mine(Tail(o)) /\ Tail(o) \in Seq(Public)
    <3>1. Tail(o) \in Seq(Public) /\ Mine(o) = Mine(Tail(o)) + 0
      BY <1>t, <2>1, MineTail
    <3>2. Mine(Tail(o)) \in Nat
      BY <3>1, MineType
    <3>3. QED
      BY <3>1, <3>2
  <2>3. Mine(Append(h, "F") \o q) = Mine(h) + Mine(q)
    <3>1. "F" \in Public
      BY DEF Public
    <3>2. Append(h, "F") \in Seq(Public) /\ Mine(Append(h, "F")) = Mine(h) + 0
      BY <1>t, <3>1, MineAppend
    <3>3. Mine(Append(h, "F") \o q) = Mine(Append(h, "F")) + Mine(q)
      BY <1>t, <3>2, MineConcat
    <3> HIDE DEF q, o, h
    <3>4. QED
      BY <1>t, <3>2, <3>3
  <2>4. HeldInv' /\ Mine(<<>>) = 0
    BY <2>1, MineNone DEF HeldInv
  <2> HIDE DEF q, o, h
  <2>5. Mine(Append(h, "F") \o q) + Mine(<<>>) + Mine(Tail(o)) = Mine(q) + Mine(h) + Mine(o)
    BY <1>t, <2>2, <2>3, <2>4
  <2>6. QED
    BY <1>7, <2>1, <2>4, <2>5, RepliesMoved DEF q, o, h
<1>8. CASE replies' = replies /\ Consumer_nack /\ conn["pub"] # "up"
  <2>1. conn' = conn /\ held'["pub"] = <<>> /\ queue'["pub"] = q /\ h = <<>>
    BY <1>0, <1>8 DEF Consumer_nack, HeldInv
  <2>2. HeldInv'
    BY <2>1 DEF HeldInv
  <2>3. QED
    BY <1>8, <2>1, <2>2, RepliesMoved
<1>9. CASE PlatformReply
  <2>1. PICK m \in {"SI", "RE"} : queue' = [queue EXCEPT !["pub"] = Append(@, m)]
    BY <1>9 DEF PlatformReply
  <2>2. /\ replies' = replies + 1 /\ conn' = conn /\ out' = out /\ held' = held
        /\ queue'["pub"] = Append(q, m)
    BY <1>0, <1>9, <2>1 DEF PlatformReply, clientVars
  <2>3. Mine(Append(q, m)) = Mine(q) + 1
    <3>1. m \in Public /\ m # "F"
      BY DEF Public
    <3>2. QED
      BY <1>t, <3>1, MineAppend
  <2>4. replies = Mine(q) + Mine(h) + IF conn["pub"] = "up" THEN Mine(o) ELSE 0
    BY DEF RepliesNotLost
  <2> HIDE DEF q, o, h
  <2>5. replies + 1 = Mine(Append(q, m)) + Mine(h) + IF conn["pub"] = "up" THEN Mine(o) ELSE 0
    BY <1>t, <2>3, <2>4
  <2>6. RepliesNotLost'
    BY <2>2, <2>5 DEF RepliesNotLost, Mine, q, o, h
  <2>7. HeldInv'
    BY <2>2 DEF HeldInv
  <2>8. QED
    BY <2>6, <2>7
<1>10. replies' = replies \/ PlatformReply
  BY DEF Delivery, Push, ConnectionLost, Consumer_request, Consumer_mine, Consumer_nack,
     PlatformRequest, platformVars
<1>11. QED
  <2>1. \/ UNCHANGED <<queue, out, held, conn>> \/ Ends("pub") \/ Ends("recv") \/ Dropped
        \/ Push("pub") \/ Push("recv") \/ ConnectionLost("pub") \/ ConnectionLost("recv")
        \/ Consumer_request \/ Consumer_mine \/ Consumer_nack \/ PlatformReply \/ PlatformRequest
    BY DEF Delivery, Clients
  <2>2. QED
    BY <1>1, <1>2, <1>3, <1>4, <1>5, <1>6, <1>7, <1>8, <1>9, <1>10, <2>1
-----------------------------------------------------------------------------
(***************************************************************************)
(* The theorems.                                                           *)
(***************************************************************************)
(***************************************************************************)
(* The threads of client_manage, their clients and the broker keep their   *)
(* types, and a channel the client takes for closed has no consumers.      *)
(***************************************************************************)
THEOREM SignTypeCorrect == SignSpec => []SignTypeOK
<1>1. SignSpec => []Parts
  BY SignPartsInit, SignTypeStep, PTL DEF SignSpec
<1>2. Parts => SignTypeOK
  BY SignParts
<1>3. QED
  BY <1>1, <1>2, PTL

(***************************************************************************)
(* Requests reach insert_task in the platform's order and at most once,    *)
(* over closed channels, lost connections and restarts.                    *)
(***************************************************************************)
THEOREM RequestsInOrderCorrect == SignSpec => []RequestsOnceInOrder
<1>1. SignInit => OnTheWay
  <2> SUFFICES ASSUME SignInit PROVE OnTheWay
    OBVIOUS
  <2>1. handed = <<>> /\ out["recv"] = <<>> /\ queue["recv"] = <<>>
    BY DEF SignInit, Clients
  <2>2. QED
    BY <2>1 DEF OnTheWay, Increasing, Before, Numbered
<1>2. Parts /\ OnTheWay /\ [SignNext]_signVars => OnTheWay'
  BY StepDelivers, SignOrderStep
<1>3. SignSpec => []Parts
  BY SignPartsInit, SignTypeStep, PTL DEF SignSpec
<1>4. OnTheWay => RequestsOnceInOrder
  BY DEF OnTheWay, Increasing, RequestsOnceInOrder
<1>5. QED
  BY <1>1, <1>2, <1>3, <1>4, PTL DEF SignSpec

(***************************************************************************)
(* The platform's messages to this gateway are not lost in the public      *)
(* queue: each is queued, pushed or held on a living channel.              *)
(***************************************************************************)
THEOREM RepliesCorrect == SignSpec => []RepliesNotLost
<1>1. SignInit => HeldInv /\ RepliesNotLost
  <2> SUFFICES ASSUME SignInit PROVE HeldInv /\ RepliesNotLost
    OBVIOUS
  <2>1. /\ queue["pub"] \in {<<>>, <<"F">>} /\ held["pub"] = <<>> /\ replies = 0
        /\ conn["pub"] = "null"
    BY DEF SignInit, Clients
  <2>2. Mine(<<>>) = 0 /\ Mine(<<"F">>) = 0
    BY MineNone, MineOne DEF Public
  <2>3. QED
    BY <2>1, <2>2 DEF HeldInv, RepliesNotLost
<1>2. Parts /\ HeldInv /\ RepliesNotLost /\ [SignNext]_signVars => HeldInv' /\ RepliesNotLost'
  BY StepDelivers, RepliesStep
<1>3. SignSpec => []Parts
  BY SignPartsInit, SignTypeStep, PTL DEF SignSpec
<1>4. QED
  BY <1>1, <1>2, <1>3, PTL DEF SignSpec
=============================================================================
