----------------------------- MODULE ThreadPool -----------------------------
(***************************************************************************)
(* dc_thread_pool: a task list guarded by a mutex, a counting semaphore    *)
(* and a fixed group of worker threads (thread_pool.h, task_queue.h,       *)
(* thread_group.h, semaphore.h).  Every message handler of the gateway     *)
(* runs as a task of the one pool sdk_thread(5).                           *)
(*                                                                         *)
(* A thread is either a worker of the pool or a caller from outside it.    *)
(* Steps: the locked section of push_task, its sem.post, sem.wait, the     *)
(* locked section of get_task, and the end of a task are separate steps,   *)
(* so any other thread may run between them.                               *)
(***************************************************************************)
EXTENDS Naturals, Sequences, FiniteSets

CONSTANTS Workers,    \* the threads that thread_pool::strat creates
          Callers,    \* threads outside the pool that submit tasks
          Tasks       \* the tasks; each is submitted at most once

ASSUME ThreadPoolAssumption ==
  /\ IsFiniteSet(Workers)
  /\ IsFiniteSet(Callers)
  /\ Workers \cap Callers = {}

VARIABLES queue,      \* task_queue::_queue
          sem,        \* task_queue::_sem._count
          pc,         \* where each thread is
          stack,      \* the tasks a thread is executing, innermost last
          submitted,  \* history: the tasks handed to the pool
          finished    \* history: the tasks that returned or threw

vars == <<queue, sem, pc, stack, submitted, finished>>

Threads == Workers \cup Callers

ElementsOf(s) == {s[i] : i \in DOMAIN s}
Running == UNION {ElementsOf(stack[t]) : t \in Threads}

(***************************************************************************)
(* "wait": blocked in semaphore::wait;  "get": past the wait, about to     *)
(* lock the list;  "run": executing code of its own (for a worker, the     *)
(* tasks on its stack);  "post": a task is in the list, sem.post is next;  *)
(* "exited": run() returned;  "join": in ~thread_pool, waiting for the     *)
(* workers.                                                                *)
(***************************************************************************)
TypeOK ==
  /\ queue \in Seq(Tasks)
  /\ sem \in Nat
  /\ pc \in [Threads -> {"wait", "get", "run", "post", "exited", "join"}]
  /\ stack \in [Threads -> Seq(Tasks)]
  /\ submitted \subseteq Tasks
  /\ finished \subseteq Tasks
-----------------------------------------------------------------------------
Init ==
  /\ queue = <<>>
  /\ sem = 0
  /\ pc = [t \in Threads |-> IF t \in Workers THEN "wait" ELSE "run"]
  /\ stack = [t \in Threads |-> <<>>]
  /\ submitted = {}
  /\ finished = {}

is_this_thread_in(t) == t \in Workers

\* A thread that executes user code hands over a task it has not handed before.
Submits(t, k) ==
  /\ pc[t] = "run"
  /\ k \in Tasks \ submitted
  /\ submitted' = submitted \cup {k}

RunInline(t, k) ==
  /\ stack' = [stack EXCEPT ![t] = Append(@, k)]
  /\ UNCHANGED <<queue, sem, pc, finished>>

\* The locked section of push_task; sem.post follows outside the lock.
push_task(t, k) ==
  /\ queue' = Append(queue, k)
  /\ pc' = [pc EXCEPT ![t] = "post"]
  /\ UNCHANGED <<sem, stack, finished>>

\* Mutant: the high-priority push forgets its sem.post.
push_task_first_NoPost(t, k) ==
  /\ queue' = <<k>> \o queue
  /\ UNCHANGED <<sem, pc, stack, finished>>

push_task_first(t, k) ==
  /\ queue' = <<k>> \o queue
  /\ pc' = [pc EXCEPT ![t] = "post"]
  /\ UNCHANGED <<sem, stack, finished>>

input_task(t, k, may_sync) ==
  /\ Submits(t, k)
  /\ IF may_sync /\ is_this_thread_in(t) THEN RunInline(t, k) ELSE push_task(t, k)

\* may_sync runs the task in the calling thread, whichever thread that is.
input_task_first(t, k, may_sync) ==
  /\ Submits(t, k)
  /\ IF may_sync THEN RunInline(t, k) ELSE push_task_first(t, k)

post(t) ==
  /\ pc[t] = "post"
  /\ sem' = sem + 1
  /\ pc' = [pc EXCEPT ![t] = "run"]
  /\ UNCHANGED <<queue, stack, submitted, finished>>

\* Mutant: "if" instead of "while" around the condition wait.
wait_SpuriousWakeup(w) ==
  /\ pc[w] = "wait"
  /\ sem' = sem - 1
  /\ pc' = [pc EXCEPT ![w] = "get"]
  /\ UNCHANGED <<queue, stack, submitted, finished>>

\* Mutant: the permit is seen but not taken.
wait_KeepsPermit(w) ==
  /\ pc[w] = "wait"
  /\ sem > 0
  /\ pc' = [pc EXCEPT ![w] = "get"]
  /\ UNCHANGED <<queue, sem, stack, submitted, finished>>

wait(w) ==
  /\ pc[w] = "wait"
  /\ sem > 0
  /\ sem' = sem - 1
  /\ pc' = [pc EXCEPT ![w] = "get"]
  /\ UNCHANGED <<queue, stack, submitted, finished>>

\* Mutant: pop_front is missing.
get_task_NoPop(w) ==
  /\ pc[w] = "get"
  /\ IF queue = <<>>
     THEN pc' = [pc EXCEPT ![w] = "exited"] /\ UNCHANGED stack
     ELSE /\ stack' = [stack EXCEPT ![w] = <<Head(queue)>>]
          /\ pc' = [pc EXCEPT ![w] = "run"]
  /\ UNCHANGED <<queue, sem, submitted, finished>>

\* The locked section of get_task; an empty list makes run() break.
get_task(w) ==
  /\ pc[w] = "get"
  /\ IF queue = <<>>
     THEN /\ pc' = [pc EXCEPT ![w] = "exited"]
          /\ UNCHANGED <<queue, stack>>
     ELSE /\ queue' = Tail(queue)
          /\ stack' = [stack EXCEPT ![w] = <<Head(queue)>>]
          /\ pc' = [pc EXCEPT ![w] = "run"]
  /\ UNCHANGED <<sem, submitted, finished>>

\* A worker whose last task is over goes back to get_task.
ResumeAt(t, s) == IF t \in Workers /\ s = <<>> THEN "wait" ELSE "run"

\* The innermost task returns to its caller.
Return(t) ==
  /\ pc[t] = "run"
  /\ stack[t] # <<>>
  /\ LET rest == SubSeq(stack[t], 1, Len(stack[t]) - 1)
     IN /\ stack' = [stack EXCEPT ![t] = rest]
        /\ finished' = finished \cup {stack[t][Len(stack[t])]}
        /\ pc' = [pc EXCEPT ![t] = ResumeAt(t, rest)]
  /\ UNCHANGED <<queue, sem, submitted>>

\* Mutant: run() does not catch, and the worker is gone.
Throw_Uncaught(t) ==
  /\ pc[t] = "run"
  /\ stack[t] # <<>>
  /\ finished' = finished \cup ElementsOf(stack[t])
  /\ stack' = [stack EXCEPT ![t] = <<>>]
  /\ pc' = [pc EXCEPT ![t] = "exited"]
  /\ UNCHANGED <<queue, sem, submitted>>

\* A std::exception unwinds every task on the stack; run() catches it and the
\* worker survives.  (A caller from outside gets the exception itself.)
Throw(t) ==
  /\ pc[t] = "run"
  /\ stack[t] # <<>>
  /\ finished' = finished \cup ElementsOf(stack[t])
  /\ stack' = [stack EXCEPT ![t] = <<>>]
  /\ pc' = [pc EXCEPT ![t] = ResumeAt(t, <<>>)]
  /\ UNCHANGED <<queue, sem, submitted>>

Submit(t) ==
  \E k \in Tasks, may_sync \in BOOLEAN :
    input_task(t, k, may_sync) \/ input_task_first(t, k, may_sync)

(***************************************************************************)
(* ~thread_pool: join_all comes before push_exit, which would make the     *)
(* workers leave.  WorkersStay says that none has left before, so the      *)
(* thread never gets past the join (and push_exit is not modelled); the    *)
(* workers go on with what is submitted.                                   *)
(***************************************************************************)
stop(t) ==
  /\ t \in Callers /\ pc[t] = "run" /\ stack[t] = <<>>
  /\ pc' = [pc EXCEPT ![t] = "join"]
  /\ UNCHANGED <<queue, sem, stack, submitted, finished>>

Next ==
  \/ \E t \in Threads : Submit(t) \/ post(t) \/ Return(t) \/ Throw(t)
  \/ \E w \in Workers : wait(w) \/ get_task(w)
  \/ \E t \in Callers : stop(t)

(***************************************************************************)
(* A thread that can run does; a task comes to an end (the SDK calls it    *)
(* makes have timeouts).  Nothing obliges anybody to submit.               *)
(***************************************************************************)
Fairness ==
  /\ \A t \in Threads : WF_vars(post(t)) /\ WF_vars(Return(t) \/ Throw(t))
  /\ \A w \in Workers : WF_vars(wait(w)) /\ WF_vars(get_task(w))

Spec == Init /\ [][Next]_vars
FairSpec == Spec /\ Fairness
-----------------------------------------------------------------------------
At(l) == {t \in Threads : pc[t] = l}

(***************************************************************************)
(* task_queue.h: the list and the semaphore agree.  Every task in the list *)
(* has exactly one permit: still in the semaphore, already taken by a      *)
(* worker that has not locked the list yet, or owed by a thread that has   *)
(* not posted yet.  Fewer permits strand a task; more make get_task find   *)
(* an empty list.                                                          *)
(***************************************************************************)
PermitsMatchTasks ==
  Len(queue) = sem + Cardinality(At("get")) + Cardinality(At("post"))

(***************************************************************************)
(* thread_pool.h run(): "no task, leave the thread" is meant for push_exit *)
(* only.  No order of submissions, posts and waits makes a worker leave.   *)
(***************************************************************************)
WorkersStay == \A w \in Workers : pc[w] # "exited"

Pool == INSTANCE TaskPool
          WITH pending <- ElementsOf(queue), running <- Running, done <- finished

(***************************************************************************)
(* The pool implements TaskPool: each task is executed exactly once.       *)
(***************************************************************************)
ImplementsTaskPool == Pool!Spec

(***************************************************************************)
(* No submitted task is forgotten, also when others are pushed before it,  *)
(* throw, or are executed inline by the worker that could have taken it.   *)
(***************************************************************************)
EveryTaskFinishes == \A k \in Tasks : (k \in submitted) ~> (k \in finished)
=============================================================================
