------------------------------- MODULE Inbox --------------------------------
(***************************************************************************)
(* server_manage's message list: the RabbitMQ listening thread appends     *)
(* every request with insert_task, the thread handle_msg_func takes them   *)
(* with erase_task and hands each one to the thread pool.  The list is a   *)
(* std::vector under _msg_mux with the counting event _msg_ev; erase_task  *)
(* looks at the list once without the mutex.                               *)
(***************************************************************************)
EXTENDS Naturals, Sequences, FiniteSets

CONSTANTS Producers,    \* threads that call insert_task
          Messages,     \* request texts, as opaque values
          MaxInserts    \* bound: how many requests arrive

Free == "free"      \* nobody holds the mutex
Empty == ""         \* a default-constructed std::string

ASSUME InboxAssumption ==
  /\ IsFiniteSet(Producers)
  /\ Free \notin Producers
  /\ MaxInserts \in Nat

VARIABLES msg_list,    \* _msg_list
          msg_mux,     \* the producer that holds _msg_mux, or Free
          msg_ev,      \* _msg_ev._count
          ppc,         \* each producer: "idle", "push", "signal"
          text,        \* the message each producer is inserting
          hpc,         \* handle_msg_func: "check", "wait", "lock", "dispatch"
          msg,         \* the local msg_ of handle_msg_func
          inserted,    \* history: messages in the order of the appends
          dispatched   \* history: messages handed to sdk_thread.input_task

vars == <<msg_list, msg_mux, msg_ev, ppc, text, hpc, msg, inserted, dispatched>>
producerVars == <<ppc, text, inserted>>

TypeOK ==
  /\ msg_list \in Seq(Messages)
  /\ msg_mux \in Producers \cup {Free}
  /\ msg_ev \in Nat
  /\ ppc \in [Producers -> {"idle", "push", "signal"}]
  /\ text \in [Producers -> Messages \cup {Empty}]
  /\ hpc \in {"check", "wait", "lock", "dispatch"}
  /\ msg \in Messages \cup {Empty}
  /\ \A p \in Producers : ppc[p] = "push" => text[p] \in Messages
  /\ hpc = "dispatch" => msg \in Messages
  /\ inserted \in Seq(Messages)
  /\ dispatched \in Seq(Messages)
-----------------------------------------------------------------------------
Init ==
  /\ msg_list = <<>>
  /\ msg_mux = Free
  /\ msg_ev = 0
  /\ ppc = [p \in Producers |-> "idle"]
  /\ text = [p \in Producers |-> Empty]
  /\ hpc = "check"
  /\ msg = Empty
  /\ inserted = <<>>
  /\ dispatched = <<>>

Pushing == {p \in Producers : ppc[p] = "push"}
Signalling == {p \in Producers : ppc[p] = "signal"}

\* insert_task takes _msg_mux and is inside vector::push_back.
insert_task(p, m) ==
  /\ ppc[p] = "idle"
  /\ Len(inserted) + Cardinality(Pushing) < MaxInserts
  /\ msg_mux = Free
  /\ msg_mux' = p
  /\ text' = [text EXCEPT ![p] = m]
  /\ ppc' = [ppc EXCEPT ![p] = "push"]
  /\ UNCHANGED <<msg_list, msg_ev, hpc, msg, inserted, dispatched>>

\* Mutant: the event is never signalled.
push_back_NoSignal(p) ==
  /\ ppc[p] = "push"
  /\ msg_list' = Append(msg_list, text[p])
  /\ inserted' = Append(inserted, text[p])
  /\ msg_mux' = Free
  /\ ppc' = [ppc EXCEPT ![p] = "idle"]
  /\ UNCHANGED <<msg_ev, text, hpc, msg, dispatched>>

\* push_back is over and the guard releases the mutex.
push_back(p) ==
  /\ ppc[p] = "push"
  /\ msg_list' = Append(msg_list, text[p])
  /\ inserted' = Append(inserted, text[p])
  /\ msg_mux' = Free
  /\ ppc' = [ppc EXCEPT ![p] = "signal"]
  /\ UNCHANGED <<msg_ev, text, hpc, msg, dispatched>>

\* event_condition_variable::signal, after the mutex is released.
signal(p) ==
  /\ ppc[p] = "signal"
  /\ msg_ev' = msg_ev + 1
  /\ ppc' = [ppc EXCEPT ![p] = "idle"]
  /\ UNCHANGED <<msg_list, msg_mux, text, hpc, msg, inserted, dispatched>>

(***************************************************************************)
(* _msg_list.empty() without the mutex: while a push_back is moving the    *)
(* vector's pointers the answer can be either one.                         *)
(***************************************************************************)
SeesEmpty(answer) == Pushing = {} => answer = (msg_list = <<>>)

erase_task_check ==
  /\ hpc = "check"
  /\ \E answer \in BOOLEAN :
       SeesEmpty(answer) /\ hpc' = IF answer THEN "wait" ELSE "lock"
  /\ UNCHANGED <<msg_list, msg_mux, msg_ev, msg, dispatched, producerVars>>

\* Mutant: "if" instead of "while" around the condition wait.
erase_task_wait_Underflow ==
  /\ hpc = "wait"
  /\ msg_ev' = msg_ev - 1
  /\ hpc' = "lock"
  /\ UNCHANGED <<msg_list, msg_mux, msg, dispatched, producerVars>>

\* event_condition_variable::wait.
erase_task_wait ==
  /\ hpc = "wait"
  /\ msg_ev > 0
  /\ msg_ev' = msg_ev - 1
  /\ hpc' = "lock"
  /\ UNCHANGED <<msg_list, msg_mux, msg, dispatched, producerVars>>

\* Mutant: the last element is taken instead of the first.
erase_task_locked_Back ==
  /\ hpc = "lock"
  /\ msg_mux = Free
  /\ IF msg_list = <<>>
     THEN hpc' = "check" /\ UNCHANGED <<msg_list, msg>>
     ELSE /\ msg' = msg_list[Len(msg_list)]
          /\ msg_list' = SubSeq(msg_list, 1, Len(msg_list) - 1)
          /\ hpc' = "dispatch"
  /\ UNCHANGED <<msg_mux, msg_ev, dispatched, producerVars>>

\* The locked section: take the first message, or return false.
erase_task_locked ==
  /\ hpc = "lock"
  /\ msg_mux = Free
  /\ IF msg_list = <<>>
     THEN hpc' = "check" /\ UNCHANGED <<msg_list, msg>>
     ELSE /\ msg' = Head(msg_list)
          /\ msg_list' = Tail(msg_list)
          /\ hpc' = "dispatch"
  /\ UNCHANGED <<msg_mux, msg_ev, dispatched, producerVars>>

\* handle_msg_func hands the message to the pool and starts the next round
\* with a new, empty msg_.
handle_msg_func ==
  /\ hpc = "dispatch"
  /\ dispatched' = Append(dispatched, msg)
  /\ msg' = Empty
  /\ hpc' = "check"
  /\ UNCHANGED <<msg_list, msg_mux, msg_ev, producerVars>>

Handler == erase_task_check \/ erase_task_wait \/ erase_task_locked \/ handle_msg_func

Next ==
  \/ \E p \in Producers : push_back(p) \/ signal(p) \/ \E m \in Messages : insert_task(p, m)
  \/ Handler

\* Both threads run whenever they can; requests need not arrive.
Fairness ==
  /\ \A p \in Producers : WF_vars(push_back(p)) /\ WF_vars(signal(p))
  /\ WF_vars(Handler)

Spec == Init /\ [][Next]_vars
FairSpec == Spec /\ Fairness
-----------------------------------------------------------------------------
(***************************************************************************)
(* No wakeup is lost: a message in the list always has a count of the      *)
(* event for it, a producer about to signal, or the handler already on its *)
(* way to the lock.  So the handler cannot sleep with a message waiting,   *)
(* whatever the unlocked empty() answered.                                 *)
(***************************************************************************)
EventCoversMessages ==
  Len(msg_list) <= msg_ev + Cardinality(Signalling) + (IF hpc = "lock" THEN 1 ELSE 0)

\* The situation EventCoversMessages excludes: asleep, messages waiting, and
\* nobody left who would signal.
HandlerNeverStranded ==
  ~(hpc = "wait" /\ msg_ev = 0 /\ msg_list # <<>> /\ Signalling = {})

Fifo == INSTANCE MessageFifo WITH sent <- inserted, delivered <- dispatched

(***************************************************************************)
(* insert_task / erase_task / handle_msg_func implement MessageFifo: every *)
(* request reaches the pool once, in arrival order, and eventually.        *)
(***************************************************************************)
ImplementsFifo == Fifo!FairSpec
=============================================================================
