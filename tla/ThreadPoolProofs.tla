-------------------------- MODULE ThreadPoolProofs --------------------------
(***************************************************************************)
(* Proofs about ThreadPool for every set of workers, callers and tasks:    *)
(* its type invariant, the agreement of the semaphore with the task list,  *)
(* that no worker ever leaves run(), and that it implements TaskPool: a    *)
(* task is in one place, and goes from one to the next.                    *)
(***************************************************************************)
EXTENDS ThreadPool, FiniteSetTheorems, TLAPS

\* What every proof of this module assumes of the constants.
LEMMA ThreadsFinite == IsFiniteSet(Threads)
  BY ThreadPoolAssumption, FS_Union DEF Threads

\* The set of threads at a place of the program is finite, so it can be counted.
LEMMA AtFinite ==
  ASSUME NEW l
  PROVE  IsFiniteSet(At(l)) /\ Cardinality(At(l)) \in Nat
<1>1. IsFiniteSet(At(l))
  BY ThreadsFinite, FS_Subset, At(l) \subseteq Threads DEF At
<1>2. QED
  BY <1>1, FS_CardinalityType

(***************************************************************************)
(* How the counts change when thread t moves from one place to another.    *)
(***************************************************************************)
LEMMA Leaves ==
  ASSUME NEW t \in Threads, NEW l, TypeOK, pc[t] = l,
         NEW m, m # l, pc' = [pc EXCEPT ![t] = m]
  PROVE  /\ Cardinality(At(l)') = Cardinality(At(l)) - 1
         /\ Cardinality(At(l)) >= 1
<1>1. At(l)' = At(l) \ {t} /\ t \in At(l)
  BY DEF At, TypeOK
<1>2. Cardinality(At(l) \ {t}) = Cardinality(At(l)) - 1
  BY <1>1, AtFinite, FS_RemoveElement
<1>3. Cardinality(At(l) \ {t}) \in Nat
  BY <1>1, AtFinite, FS_RemoveElement, FS_CardinalityType
<1>4. QED
  BY <1>1, <1>2, <1>3, AtFinite

\* A thread that goes to m is one more there.
LEMMA Arrives ==
  ASSUME NEW t \in Threads, NEW m, TypeOK, pc[t] # m,
         pc' = [pc EXCEPT ![t] = m]
  PROVE  Cardinality(At(m)') = Cardinality(At(m)) + 1
<1>1. At(m)' = At(m) \cup {t} /\ t \notin At(m)
  BY DEF At, TypeOK
<1>2. QED
  BY <1>1, AtFinite, FS_AddElement

\* A thread that goes elsewhere changes nothing at l.
LEMMA StaysAway ==
  ASSUME NEW t \in Threads, NEW l, NEW m, TypeOK, pc[t] # l, m # l,
         pc' = [pc EXCEPT ![t] = m]
  PROVE  At(l)' = At(l)
  BY DEF At, TypeOK

\* A helper of the type proof: dropping the last task of a stack.
LEMMA FrontType ==
  ASSUME NEW S, NEW s \in Seq(S), s # <<>>
  PROVE  /\ SubSeq(s, 1, Len(s) - 1) \in Seq(S)
         /\ s[Len(s)] \in S
  OBVIOUS

\* The elements of a sequence of tasks are tasks.
LEMMA ElementsType ==
  ASSUME NEW S, NEW s \in Seq(S)
  PROVE  ElementsOf(s) \subseteq S
  BY DEF ElementsOf
-----------------------------------------------------------------------------
(***************************************************************************)
(* The type invariant of ThreadPool is preserved by every step.            *)
(***************************************************************************)
LEMMA TypeStep == TypeOK /\ [Next]_vars => TypeOK'
<1> SUFFICES ASSUME TypeOK, [Next]_vars PROVE TypeOK'
  OBVIOUS
<1>1. ASSUME NEW t \in Threads, NEW k \in Tasks, Submits(t, k), RunInline(t, k)
      PROVE  TypeOK'
  BY <1>1 DEF TypeOK, Submits, RunInline
<1>2. ASSUME NEW t \in Threads, NEW k \in Tasks, Submits(t, k), push_task(t, k)
      PROVE  TypeOK'
  BY <1>2 DEF TypeOK, Submits, push_task
<1>3. ASSUME NEW t \in Threads, NEW k \in Tasks, Submits(t, k), push_task_first(t, k)
      PROVE  TypeOK'
  BY <1>3 DEF TypeOK, Submits, push_task_first
<1>4. ASSUME NEW t \in Threads, Submit(t)
      PROVE  TypeOK'
  BY <1>1, <1>2, <1>3, <1>4 DEF Submit, input_task, input_task_first
<1>5. ASSUME NEW t \in Threads, post(t)
      PROVE  TypeOK'
  BY <1>5 DEF TypeOK, post
<1>6. ASSUME NEW t \in Threads, Return(t)
      PROVE  TypeOK'
  <2>1. /\ SubSeq(stack[t], 1, Len(stack[t]) - 1) \in Seq(Tasks)
        /\ stack[t][Len(stack[t])] \in Tasks
    BY <1>6, FrontType DEF TypeOK, Return
  <2>2. QED
    BY <1>6, <2>1 DEF TypeOK, Return, ResumeAt
<1>7. ASSUME NEW t \in Threads, Throw(t)
      PROVE  TypeOK'
  <2>1. ElementsOf(stack[t]) \subseteq Tasks
    BY ElementsType DEF TypeOK
  <2>2. QED
    BY <1>7, <2>1 DEF TypeOK, Throw, ResumeAt
<1>8. ASSUME NEW w \in Workers, wait(w)
      PROVE  TypeOK'
  BY <1>8 DEF TypeOK, wait, Threads
<1>9. ASSUME NEW w \in Workers, get_task(w)
      PROVE  TypeOK'
  <2>1. CASE queue = <<>>
    BY <1>9, <2>1 DEF TypeOK, get_task, Threads
  <2>2. CASE queue # <<>>
    <3>1. Tail(queue) \in Seq(Tasks) /\ <<Head(queue)>> \in Seq(Tasks)
      BY <2>2 DEF TypeOK
    <3>2. QED
      BY <1>9, <2>2, <3>1 DEF TypeOK, get_task, Threads
  <2>3. QED
    BY <2>1, <2>2
<1>10. ASSUME NEW t \in Callers, stop(t)
       PROVE  TypeOK'
  BY <1>10 DEF TypeOK, stop, Threads
<1>11. CASE UNCHANGED vars
  BY <1>11 DEF TypeOK, vars
<1>12. QED
  BY <1>4, <1>5, <1>6, <1>7, <1>8, <1>9, <1>10, <1>11 DEF Next

(***************************************************************************)
(* Type correctness of dc_thread_pool.                                     *)
(***************************************************************************)
THEOREM TypeCorrect == Spec => []TypeOK
<1>1. Init => TypeOK
  BY DEF Init, TypeOK
<1>2. QED
  BY <1>1, TypeStep, PTL DEF Spec
-----------------------------------------------------------------------------
\* The permits and the list agree, and no worker has left: inductive together.
PoolInv == PermitsMatchTasks /\ WorkersStay

(***************************************************************************)
(* A worker past the wait holds a permit, so the list is not empty and     *)
(* get_task hands it a task: the empty branch is unreachable.              *)
(***************************************************************************)
LEMMA PermitMeansTask ==
  ASSUME TypeOK, PermitsMatchTasks, NEW w \in Threads, pc[w] = "get"
  PROVE  Len(queue) >= 1 /\ queue # <<>>
<1>1. w \in At("get")
  BY DEF At
<1>2. Cardinality(At("get")) # 0
  BY <1>1, AtFinite, FS_EmptySet
<1>3. Len(queue) >= 1
  BY <1>2, AtFinite DEF PermitsMatchTasks, TypeOK
<1>4. QED
  BY <1>3

\* PoolInv holds before the first task: no permit, no task, nobody in between.
LEMMA InitPool == Init => PoolInv
<1> SUFFICES ASSUME Init PROVE PoolInv
  OBVIOUS
<1>1. Cardinality(At("get")) = 0 /\ Cardinality(At("post")) = 0
  <2>1. At("get") = {} /\ At("post") = {}
    BY DEF Init, At
  <2>2. QED
    BY <2>1, FS_EmptySet
<1>2. Len(queue) = 0 /\ sem = 0
  BY DEF Init
<1>3. WorkersStay
  BY DEF Init, WorkersStay, Threads
<1>4. QED
  BY <1>1, <1>2, <1>3 DEF PoolInv, PermitsMatchTasks

\* One step of the pool preserves PoolInv.
LEMMA PoolStep == TypeOK /\ PoolInv /\ [Next]_vars => PoolInv'
<1> SUFFICES ASSUME TypeOK, PoolInv, [Next]_vars PROVE PoolInv'
  OBVIOUS
<1> USE DEF PoolInv
<1>0. /\ Cardinality(At("get")) \in Nat
      /\ Cardinality(At("post")) \in Nat
      /\ Len(queue) \in Nat
  BY AtFinite DEF TypeOK
<1>1. ASSUME NEW t \in Threads, NEW k \in Tasks, Submits(t, k), RunInline(t, k)
      PROVE  PoolInv'
  BY <1>1 DEF RunInline, PermitsMatchTasks, WorkersStay, At
<1>2. ASSUME NEW t \in Threads, NEW k \in Tasks, Submits(t, k),
             push_task(t, k) \/ push_task_first(t, k)
      PROVE  PoolInv'
  <2>1. Len(queue') = Len(queue) + 1 /\ sem' = sem
    BY <1>2 DEF push_task, push_task_first, TypeOK
  <2>2. pc[t] = "run" /\ pc' = [pc EXCEPT ![t] = "post"]
    BY <1>2 DEF push_task, push_task_first, Submits
  <2>3. /\ Cardinality(At("post")') = Cardinality(At("post")) + 1
        /\ At("get")' = At("get")
    BY <2>2, Arrives, StaysAway
  <2>4. WorkersStay'
    BY <2>2 DEF WorkersStay, TypeOK
  <2>5. QED
    BY <1>0, <2>1, <2>3, <2>4 DEF PermitsMatchTasks, TypeOK
<1>3. ASSUME NEW t \in Threads, Submit(t)
      PROVE  PoolInv'
  BY <1>1, <1>2, <1>3 DEF Submit, input_task, input_task_first
<1>4. ASSUME NEW t \in Threads, post(t)
      PROVE  PoolInv'
  <2>1. pc[t] = "post" /\ pc' = [pc EXCEPT ![t] = "run"]
        /\ sem' = sem + 1 /\ queue' = queue
    BY <1>4 DEF post
  <2>2. /\ Cardinality(At("post")') = Cardinality(At("post")) - 1
        /\ At("get")' = At("get")
    BY <2>1, Leaves, StaysAway
  <2>3. WorkersStay'
    BY <2>1 DEF WorkersStay, TypeOK
  <2>4. QED
    BY <1>0, <2>1, <2>2, <2>3 DEF PermitsMatchTasks, TypeOK
<1>5. ASSUME NEW t \in Threads, Return(t) \/ Throw(t)
      PROVE  PoolInv'
  <2>1. PICK m \in {"wait", "run"} : pc' = [pc EXCEPT ![t] = m]
    BY <1>5 DEF Return, Throw, ResumeAt
  <2>2. pc[t] = "run" /\ sem' = sem /\ queue' = queue
    BY <1>5 DEF Return, Throw
  <2>3. At("post")' = At("post") /\ At("get")' = At("get")
    BY <2>1, <2>2, StaysAway
  <2>4. WorkersStay'
    BY <2>1 DEF WorkersStay, TypeOK
  <2>5. QED
    BY <2>2, <2>3, <2>4 DEF PermitsMatchTasks
<1>6. ASSUME NEW w \in Workers, wait(w)
      PROVE  PoolInv'
  <2>1. w \in Threads /\ pc[w] = "wait" /\ pc' = [pc EXCEPT ![w] = "get"]
        /\ sem > 0 /\ sem' = sem - 1 /\ queue' = queue
    BY <1>6 DEF wait, Threads
  <2>2. /\ Cardinality(At("get")') = Cardinality(At("get")) + 1
        /\ At("post")' = At("post")
    BY <2>1, Arrives, StaysAway
  <2>3. WorkersStay'
    BY <2>1 DEF WorkersStay, TypeOK
  <2>4. QED
    BY <1>0, <2>1, <2>2, <2>3 DEF PermitsMatchTasks, TypeOK
<1>7. ASSUME NEW w \in Workers, get_task(w)
      PROVE  PoolInv'
  <2>1. w \in Threads /\ pc[w] = "get"
    BY <1>7 DEF get_task, Threads
  <2>2. queue # <<>> /\ Len(queue) >= 1
    BY <2>1, PermitMeansTask
  <2>3. queue' = Tail(queue) /\ sem' = sem /\ pc' = [pc EXCEPT ![w] = "run"]
    BY <1>7, <2>2 DEF get_task
  <2>4. Len(queue') = Len(queue) - 1
    BY <2>2, <2>3 DEF TypeOK
  <2>5. /\ Cardinality(At("get")') = Cardinality(At("get")) - 1
        /\ At("post")' = At("post")
    BY <2>1, <2>3, Leaves, StaysAway
  <2>6. WorkersStay'
    BY <2>1, <2>3 DEF WorkersStay, TypeOK
  <2>7. QED
    BY <1>0, <2>3, <2>4, <2>5, <2>6 DEF PermitsMatchTasks, TypeOK
<1>8. ASSUME NEW t \in Callers, stop(t)
      PROVE  PoolInv'
  <2>1. t \in Threads /\ pc[t] = "run" /\ pc' = [pc EXCEPT ![t] = "join"]
        /\ sem' = sem /\ queue' = queue
    BY <1>8 DEF stop, Threads
  <2>2. At("post")' = At("post") /\ At("get")' = At("get")
    BY <2>1, StaysAway
  <2>3. WorkersStay'
    BY <2>1 DEF WorkersStay, TypeOK
  <2>4. QED
    BY <2>1, <2>2, <2>3 DEF PermitsMatchTasks
<1>9. CASE UNCHANGED vars
  BY <1>9 DEF vars, PermitsMatchTasks, WorkersStay, At
<1>10. QED
  BY <1>3, <1>4, <1>5, <1>6, <1>7, <1>8, <1>9 DEF Next

(***************************************************************************)
(* task_queue.h: list and semaphore agree in every reachable state, for    *)
(* any number of workers, callers and tasks.                               *)
(***************************************************************************)
THEOREM PermitsCorrect == Spec => []PermitsMatchTasks
<1>1. PoolInv => PermitsMatchTasks
  BY DEF PoolInv
<1>2. QED
  BY <1>1, InitPool, TypeCorrect, PoolStep, PTL DEF Spec

(***************************************************************************)
(* thread_pool.h run(): no worker of the pool ever exits while the pool is *)
(* not being stopped.                                                      *)
(***************************************************************************)
THEOREM WorkersNeverExit == Spec => []WorkersStay
<1>1. PoolInv => WorkersStay
  BY DEF PoolInv
<1>2. QED
  BY <1>1, InitPool, TypeCorrect, PoolStep, PTL DEF Spec
-----------------------------------------------------------------------------
(***************************************************************************)
(* Where the tasks are.                                                    *)
(***************************************************************************)
Once(s) == \A i, j \in DOMAIN s : s[i] = s[j] => i = j

\* A task is in one place: once in the list, or once on one stack; and a worker
\* that looks for a task has none.
PlaceInv ==
  /\ Once(queue) /\ \A t \in Threads : Once(stack[t])
  /\ \A t, u \in Threads : t # u => ElementsOf(stack[t]) \cap ElementsOf(stack[u]) = {}
  /\ ElementsOf(queue) \cap Running = {}
  /\ ElementsOf(queue) \cup Running \cup finished \subseteq submitted
  /\ \A w \in Workers : pc[w] \in {"wait", "get"} => stack[w] = <<>>

\* What the operations of the lists do to their elements.
LEMMA FewElements ==
  /\ ElementsOf(<<>>) = {} /\ Once(<<>>)
  /\ \A k : ElementsOf(<<k>>) = {k} /\ Once(<<k>>)
BY DEF ElementsOf, Once

\* The elements of a queue with a task more at its end.
LEMMA AppendElements ==
  ASSUME NEW S, NEW s \in Seq(S), NEW k \in S
  PROVE  /\ ElementsOf(Append(s, k)) = ElementsOf(s) \cup {k}
         /\ Once(s) /\ k \notin ElementsOf(s) => Once(Append(s, k))
<1>1. /\ Len(s) \in Nat /\ DOMAIN s = 1 .. Len(s)
      /\ DOMAIN Append(s, k) = 1 .. Len(s) + 1
      /\ \A i \in 1 .. Len(s) : Append(s, k)[i] = s[i]
      /\ Append(s, k)[Len(s) + 1] = k
  OBVIOUS
<1>2. \A i : i \in 1 .. Len(s) + 1 <=> i \in 1 .. Len(s) \/ i = Len(s) + 1
  BY <1>1
<1>3. QED
  BY <1>1, <1>2 DEF ElementsOf, Once

\* The elements of a queue with a task more at its head.
LEMMA PrependElements ==
  ASSUME NEW S, NEW s \in Seq(S), NEW k \in S
  PROVE  /\ ElementsOf(<<k>> \o s) = ElementsOf(s) \cup {k}
         /\ Once(s) /\ k \notin ElementsOf(s) => Once(<<k>> \o s)
<1> DEFINE n == <<k>> \o s
<1>1. /\ Len(s) \in Nat /\ DOMAIN s = 1 .. Len(s)
      /\ DOMAIN n = 1 .. Len(s) + 1 /\ n[1] = k
      /\ \A i \in 2 .. Len(s) + 1 : n[i] = s[i - 1]
  OBVIOUS
<1>2. /\ \A i \in 1 .. Len(s) : n[i + 1] = s[i] /\ i + 1 \in 1 .. Len(s) + 1
      /\ \A i \in 1 .. Len(s) + 1 : i = 1 \/ (i - 1 \in 1 .. Len(s) /\ n[i] = s[i - 1])
      /\ 1 \in 1 .. Len(s) + 1
  BY <1>1
<1> HIDE DEF n
<1>3. ElementsOf(n) = ElementsOf(s) \cup {k}
  <2>1. ASSUME NEW x \in ElementsOf(n) PROVE x \in ElementsOf(s) \cup {k}
    BY <1>1, <1>2, <2>1 DEF ElementsOf
  <2>2. ASSUME NEW x \in ElementsOf(s) PROVE x \in ElementsOf(n)
    <3>1. PICK i \in 1 .. Len(s) : x = s[i]
      BY <1>1, <2>2 DEF ElementsOf
    <3>2. i + 1 \in DOMAIN n /\ n[i + 1] = x
      BY <1>1, <1>2, <3>1
    <3>3. QED
      BY <3>2 DEF ElementsOf
  <2>3. k \in ElementsOf(n)
    BY <1>1, <1>2 DEF ElementsOf
  <2>4. QED
    BY <2>1, <2>2, <2>3
<1>4. ASSUME Once(s), k \notin ElementsOf(s) PROVE Once(n)
  <2>1. \A i \in 1 .. Len(s) : s[i] # k
    BY <1>1, <1>4 DEF ElementsOf
  <2>2. ASSUME NEW i \in 1 .. Len(s) + 1, NEW j \in 1 .. Len(s) + 1, n[i] = n[j] PROVE i = j
    <3>1. CASE i = 1 /\ j # 1
      BY <1>1, <1>2, <2>1, <2>2, <3>1
    <3>2. CASE j = 1 /\ i # 1
      BY <1>1, <1>2, <2>1, <2>2, <3>2
    <3>3. CASE i # 1 /\ j # 1
      <4>1. i - 1 = j - 1
        BY <1>1, <1>2, <1>4, <2>2, <3>3 DEF Once
      <4>2. QED
        BY <1>1, <4>1
    <3>4. QED
      BY <3>1, <3>2, <3>3
  <2>3. QED
    BY <1>1, <2>2 DEF Once
<1>5. QED
  BY <1>3, <1>4 DEF n

\* The elements of a queue with one less at its head.
LEMMA TailElements ==
  ASSUME NEW S, NEW s \in Seq(S), s # <<>>, Once(s)
  PROVE  /\ Head(s) \in ElementsOf(s)
         /\ ElementsOf(Tail(s)) = ElementsOf(s) \ {Head(s)} /\ Once(Tail(s))
<1>1. /\ Len(s) \in Nat \ {0} /\ DOMAIN s = 1 .. Len(s) /\ Head(s) = s[1]
      /\ DOMAIN Tail(s) = 1 .. Len(s) - 1
      /\ \A i \in 1 .. Len(s) - 1 : Tail(s)[i] = s[i + 1]
  OBVIOUS
<1>2. \A i \in 1 .. Len(s) : i = 1 \/ (i - 1 \in 1 .. Len(s) - 1 /\ Tail(s)[i - 1] = s[i])
  BY <1>1
<1>3. \A i \in 1 .. Len(s) - 1 : i + 1 \in 1 .. Len(s) /\ i + 1 # 1
  BY <1>1
<1>4. Head(s) \in ElementsOf(s)
  BY <1>1 DEF ElementsOf
<1>5. \A x \in ElementsOf(Tail(s)) : x \in ElementsOf(s) \ {Head(s)}
  BY <1>1, <1>3 DEF ElementsOf, Once
<1>6. ASSUME NEW x \in ElementsOf(s) \ {Head(s)} PROVE x \in ElementsOf(Tail(s))
  <2>1. PICK i \in 1 .. Len(s) : x = s[i] /\ i # 1
    BY <1>1 DEF ElementsOf
  <2>2. i - 1 \in DOMAIN Tail(s) /\ Tail(s)[i - 1] = x
    BY <1>1, <1>2, <2>1
  <2>3. QED
    BY <2>2 DEF ElementsOf
<1>7. Once(Tail(s))
  <2>1. ASSUME NEW i \in 1 .. Len(s) - 1, NEW j \in 1 .. Len(s) - 1, Tail(s)[i] = Tail(s)[j]
        PROVE  i = j
    <3>1. i + 1 = j + 1
      BY <1>1, <1>3, <2>1 DEF Once
    <3>2. QED
      BY <1>1, <3>1
  <2>2. QED
    BY <1>1, <2>1 DEF Once
<1>8. QED
  BY <1>4, <1>5, <1>6, <1>7

\* The elements of a queue with one less at its end.
LEMMA FrontElements ==
  ASSUME NEW S, NEW s \in Seq(S), s # <<>>, Once(s)
  PROVE  /\ s[Len(s)] \in ElementsOf(s)
         /\ ElementsOf(SubSeq(s, 1, Len(s) - 1)) = ElementsOf(s) \ {s[Len(s)]}
         /\ Once(SubSeq(s, 1, Len(s) - 1))
<1> DEFINE f == SubSeq(s, 1, Len(s) - 1)
<1>1. /\ Len(s) \in Nat \ {0} /\ DOMAIN s = 1 .. Len(s)
      /\ DOMAIN f = 1 .. Len(s) - 1
      /\ \A i \in 1 .. Len(s) - 1 : f[i] = s[i]
  OBVIOUS
<1> HIDE DEF f
<1>2. \A i : i \in 1 .. Len(s) <=> i \in 1 .. Len(s) - 1 \/ i = Len(s)
  BY <1>1
<1>3. Len(s) \notin 1 .. Len(s) - 1
  BY <1>1
<1>4. s[Len(s)] \in ElementsOf(s)
  BY <1>1, <1>2 DEF ElementsOf
<1>5. ElementsOf(f) = ElementsOf(s) \ {s[Len(s)]}
  BY <1>1, <1>2, <1>3 DEF ElementsOf, Once
<1>6. Once(f)
  BY <1>1, <1>2 DEF Once
<1>7. QED
  BY <1>4, <1>5, <1>6 DEF f

\* What runs, when one stack changes.
LEMMA RunningGains ==
  ASSUME TypeOK, NEW t \in Threads, NEW k, NEW s, stack' = [stack EXCEPT ![t] = s],
         ElementsOf(s) = ElementsOf(stack[t]) \cup {k}
  PROVE  Running' = Running \cup {k}
<1>1. stack'[t] = s /\ \A u \in Threads \ {t} : stack'[u] = stack[u]
  BY DEF TypeOK
<1>2. Running' = UNION {ElementsOf(stack'[u]) : u \in Threads}
  BY DEF Running
<1>3. QED
  BY <1>1, <1>2 DEF Running

\* What leaves a thread's stack is no longer running.
LEMMA RunningLoses ==
  ASSUME TypeOK, PlaceInv, NEW t \in Threads, NEW K \in SUBSET ElementsOf(stack[t]), NEW s,
         stack' = [stack EXCEPT ![t] = s], ElementsOf(s) = ElementsOf(stack[t]) \ K
  PROVE  Running' = Running \ K
<1>1. stack'[t] = s /\ \A u \in Threads \ {t} : stack'[u] = stack[u]
  BY DEF TypeOK
<1>2. Running' = UNION {ElementsOf(stack'[u]) : u \in Threads}
  BY DEF Running
<1>3. \A u \in Threads \ {t} : ElementsOf(stack[u]) \cap K = {}
  BY DEF PlaceInv
<1>4. QED
  BY <1>1, <1>2, <1>3 DEF Running

\* One stack and the list change; the other places stay.
LEMMA PlaceFrame ==
  ASSUME TypeOK, PlaceInv, NEW t \in Threads,
         \A u \in Threads \ {t} : stack'[u] = stack[u], Once(stack'[t]), Once(queue'),
         \A u \in Threads \ {t} : ElementsOf(stack'[t]) \cap ElementsOf(stack[u]) = {},
         ElementsOf(queue') \cap Running' = {},
         ElementsOf(queue') \cup Running' \cup finished' \subseteq submitted',
         \A w \in Workers : pc'[w] \in {"wait", "get"} => stack'[w] = <<>>
  PROVE  PlaceInv'
<1>1. \A u \in Threads : Once(stack'[u])
  BY DEF PlaceInv
<1>2. \A u, v \in Threads : u # v => ElementsOf(stack'[u]) \cap ElementsOf(stack'[v]) = {}
  BY DEF PlaceInv
<1>3. QED
  BY <1>1, <1>2 DEF PlaceInv

\* The places the refinement is about, as TaskPool sees them.
LEMMA PoolParts ==
  /\ Pool!Next <=>
       \/ \E k \in Tasks : Pool!Submit(k) \/ Pool!SubmitInline(k) \/ Pool!Start(k)
       \/ \E K \in (SUBSET Tasks) \ {{}} : Pool!Finish(K)
  /\ \A k : k \in Tasks \ submitted /\ PlaceInv => k \in Pool!Fresh
BY DEF Pool!Next, Pool!Fresh, PlaceInv

\* A task is pushed, executed inline, taken or ended: a step of TaskPool each.
LEMMA PushStep ==
  ASSUME TypeOK, PlaceInv, NEW t \in Threads, NEW k \in Tasks, Submits(t, k),
         push_task(t, k) \/ push_task_first(t, k)
  PROVE  PlaceInv' /\ Pool!Next
<1>1. /\ k \notin submitted /\ submitted' = submitted \cup {k}
      /\ pc' = [pc EXCEPT ![t] = "post"] /\ UNCHANGED <<stack, finished>>
      /\ queue' = Append(queue, k) \/ queue' = <<k>> \o queue
  BY DEF Submits, push_task, push_task_first
<1>2. k \notin ElementsOf(queue) /\ k \notin Running
  BY <1>1 DEF PlaceInv
<1>3. ElementsOf(queue') = ElementsOf(queue) \cup {k} /\ Once(queue')
  <2>1. queue \in Seq(Tasks) /\ Once(queue)
    BY DEF TypeOK, PlaceInv
  <2>2. CASE queue' = Append(queue, k)
    BY <1>2, <2>1, <2>2, AppendElements
  <2>3. CASE queue' = <<k>> \o queue
    BY <1>2, <2>1, <2>3, PrependElements
  <2>4. QED
    BY <1>1, <2>2, <2>3
<1>4. Running' = Running
  BY <1>1 DEF Running
<1>5. \A w \in Workers : pc'[w] \in {"wait", "get"} => pc[w] = pc'[w]
  BY <1>1 DEF TypeOK, Threads
<1>6. PlaceInv'
  <2>1. /\ ElementsOf(queue') \cap Running' = {}
        /\ ElementsOf(queue') \cup Running' \cup finished' \subseteq submitted'
    BY <1>1, <1>2, <1>3, <1>4 DEF PlaceInv
  <2>2. \A w \in Workers : pc'[w] \in {"wait", "get"} => stack'[w] = <<>>
    BY <1>1, <1>5 DEF PlaceInv
  <2>3. QED
    BY <1>1, <1>3, <2>1, <2>2, PlaceFrame DEF PlaceInv
<1>7. Pool!Submit(k)
  BY <1>1, <1>3, <1>4, PoolParts DEF Pool!Submit
<1>8. QED
  BY <1>6, <1>7, PoolParts

\* A task run by the thread that submits it starts.
LEMMA InlineStep ==
  ASSUME TypeOK, PlaceInv, NEW t \in Threads, NEW k \in Tasks, Submits(t, k), RunInline(t, k)
  PROVE  PlaceInv' /\ Pool!Next
<1>1. /\ pc[t] = "run" /\ k \notin submitted /\ submitted' = submitted \cup {k}
      /\ stack' = [stack EXCEPT ![t] = Append(stack[t], k)] /\ UNCHANGED <<queue, pc, finished>>
  BY DEF Submits, RunInline
<1>2. k \notin ElementsOf(queue) /\ k \notin Running
  BY <1>1 DEF PlaceInv
<1>3. \A u \in Threads : k \notin ElementsOf(stack[u])
  BY <1>2 DEF Running
<1>4. /\ stack'[t] = Append(stack[t], k) /\ stack[t] \in Seq(Tasks)
      /\ \A u \in Threads \ {t} : stack'[u] = stack[u]
  BY <1>1 DEF TypeOK
<1>5. ElementsOf(stack'[t]) = ElementsOf(stack[t]) \cup {k} /\ Once(stack'[t])
  BY <1>3, <1>4, AppendElements DEF PlaceInv
<1>6. Running' = Running \cup {k}
  BY <1>1, <1>4, <1>5, RunningGains
<1>7. PlaceInv'
  <2>1. /\ ElementsOf(queue') \cap Running' = {}
        /\ ElementsOf(queue') \cup Running' \cup finished' \subseteq submitted'
    BY <1>1, <1>2, <1>6 DEF PlaceInv
  <2>2. \A w \in Workers : pc'[w] \in {"wait", "get"} => stack'[w] = <<>>
    BY <1>1, <1>4 DEF PlaceInv, Threads
  <2>3. \A u \in Threads \ {t} : ElementsOf(stack'[t]) \cap ElementsOf(stack[u]) = {}
    BY <1>3, <1>5 DEF PlaceInv
  <2>4. Once(queue')
    BY <1>1 DEF PlaceInv
  <2>5. QED
    BY <1>4, <1>5, <2>1, <2>2, <2>3, <2>4, PlaceFrame
<1>8. Pool!SubmitInline(k)
  BY <1>1, <1>6, PoolParts DEF Pool!SubmitInline
<1>9. QED
  BY <1>7, <1>8, PoolParts

\* A task that a worker takes from the queue starts.
LEMMA TakeStep ==
  ASSUME TypeOK, PlaceInv, PermitsMatchTasks, NEW w \in Workers, get_task(w)
  PROVE  PlaceInv' /\ Pool!Next
<1> DEFINE k == Head(queue)
<1>0. w \in Threads
  BY DEF Threads
<1>1. /\ pc[w] = "get" /\ queue # <<>> /\ queue' = Tail(queue)
      /\ stack' = [stack EXCEPT ![w] = <<k>>] /\ pc' = [pc EXCEPT ![w] = "run"]
      /\ UNCHANGED <<submitted, finished>>
  BY <1>0, PermitMeansTask DEF get_task
<1>2. /\ k \in Tasks /\ k \in ElementsOf(queue) /\ Once(queue')
      /\ ElementsOf(queue') = ElementsOf(queue) \ {k}
  BY <1>1, TailElements DEF TypeOK, PlaceInv
<1> HIDE DEF k
<1>3. \A u \in Threads : k \notin ElementsOf(stack[u])
  BY <1>2 DEF PlaceInv, Running
<1>4. /\ stack'[w] = <<k>> /\ stack[w] = <<>> /\ \A u \in Threads \ {w} : stack'[u] = stack[u]
  BY <1>0, <1>1 DEF TypeOK, PlaceInv
<1>5. ElementsOf(stack'[w]) = {k} /\ Once(stack'[w]) /\ ElementsOf(stack[w]) = {}
  BY <1>4, FewElements
<1>6. Running' = Running \cup {k}
  <2>1. ElementsOf(<<k>>) = ElementsOf(stack[w]) \cup {k}
    BY <1>5, FewElements
  <2>2. QED
    BY <1>0, <1>1, <2>1, RunningGains
<1>7. PlaceInv'
  <2>1. /\ ElementsOf(queue') \cap Running' = {}
        /\ ElementsOf(queue') \cup Running' \cup finished' \subseteq submitted'
    BY <1>1, <1>2, <1>6 DEF PlaceInv
  <2>2. \A v \in Workers : pc'[v] \in {"wait", "get"} => v # w /\ pc[v] = pc'[v]
    BY <1>0, <1>1 DEF TypeOK, Threads
  <2>3. \A v \in Workers : pc'[v] \in {"wait", "get"} => stack'[v] = <<>>
    BY <1>4, <2>2 DEF PlaceInv, Threads
  <2>4. \A u \in Threads \ {w} : ElementsOf(stack'[w]) \cap ElementsOf(stack[u]) = {}
    BY <1>3, <1>5
  <2>5. QED
    BY <1>0, <1>2, <1>4, <1>5, <2>1, <2>3, <2>4, PlaceFrame
<1>8. Pool!Start(k)
  BY <1>1, <1>2, <1>6 DEF Pool!Start
<1>9. QED
  BY <1>2, <1>7, <1>8, PoolParts

\* The tasks K of t's stack are over, and s is what is left of it.
Ends(t, K, s, l) ==
  /\ K \subseteq ElementsOf(stack[t]) /\ K # {}
  /\ ElementsOf(s) = ElementsOf(stack[t]) \ K /\ Once(s)
  /\ stack' = [stack EXCEPT ![t] = s] /\ finished' = finished \cup K
  /\ pc' = [pc EXCEPT ![t] = l] /\ l \in {"wait", "run"} /\ (l = "wait" => s = <<>>)
  /\ UNCHANGED <<queue, submitted>>

\* What a thread drops from its stack ends.
LEMMA EndPlace ==
  ASSUME TypeOK, PlaceInv, NEW t \in Threads, NEW K, NEW s, NEW l, Ends(t, K, s, l)
  PROVE  PlaceInv' /\ Pool!Next
<1> USE DEF Ends
<1>1. stack[t] \in Seq(Tasks)
  BY DEF TypeOK
<1>2. Running' = Running \ K
  BY RunningLoses
<1>3. stack'[t] = s /\ pc'[t] = l /\ \A u \in Threads \ {t} : stack'[u] = stack[u] /\ pc'[u] = pc[u]
  BY DEF TypeOK
<1>4. K \subseteq Running /\ K \subseteq Tasks
  <2>1. ElementsOf(stack[t]) \subseteq Tasks
    BY <1>1, ElementsType
  <2>2. QED
    BY <2>1 DEF Running
<1>5. PlaceInv'
  <2>1. /\ ElementsOf(queue') \cap Running' = {}
        /\ ElementsOf(queue') \cup Running' \cup finished' \subseteq submitted'
    BY <1>2, <1>4 DEF PlaceInv
  <2>2. \A v \in Workers : pc'[v] \in {"wait", "get"} => stack'[v] = <<>>
    BY <1>3 DEF PlaceInv, Threads
  <2>3. \A u \in Threads \ {t} : ElementsOf(stack'[t]) \cap ElementsOf(stack[u]) = {}
    BY <1>3 DEF PlaceInv
  <2>4. Once(queue') /\ Once(stack'[t])
    BY <1>3 DEF PlaceInv
  <2>5. QED
    BY <1>3, <2>1, <2>2, <2>3, <2>4, PlaceFrame
<1>6. Pool!Finish(K)
  BY <1>2, <1>4 DEF Pool!Finish
<1>7. K \in (SUBSET Tasks) \ {{}}
  BY <1>4
<1>8. Pool!Next
  BY <1>6, <1>7 DEF Pool!Next
<1>9. QED
  BY <1>5, <1>8

\* A task that returns or throws ends.
LEMMA EndStep ==
  ASSUME TypeOK, PlaceInv, NEW t \in Threads, Return(t) \/ Throw(t)
  PROVE  PlaceInv' /\ Pool!Next
<1>0. stack[t] \in Seq(Tasks) /\ stack[t] # <<>> /\ Once(stack[t])
  BY DEF TypeOK, PlaceInv, Return, Throw
<1>1. ASSUME NEW s
      PROVE  ResumeAt(t, s) \in {"wait", "run"} /\ (ResumeAt(t, s) = "wait" => s = <<>>)
  BY DEF ResumeAt
<1>2. CASE Return(t)
  <2> DEFINE s == SubSeq(stack[t], 1, Len(stack[t]) - 1)
             k == stack[t][Len(stack[t])]
  <2>1. k \in ElementsOf(stack[t]) /\ ElementsOf(s) = ElementsOf(stack[t]) \ {k} /\ Once(s)
    BY <1>0, FrontElements
  <2>2. /\ stack' = [stack EXCEPT ![t] = s] /\ finished' = finished \cup {k}
        /\ pc' = [pc EXCEPT ![t] = ResumeAt(t, s)] /\ UNCHANGED <<queue, submitted>>
    BY <1>2 DEF Return
  <2> HIDE DEF s, k
  <2>3. Ends(t, {k}, s, ResumeAt(t, s))
    BY <1>1, <2>1, <2>2 DEF Ends
  <2>4. QED
    BY <2>3, EndPlace
<1>3. CASE Throw(t)
  <2>1. ElementsOf(stack[t]) # {}
    BY <1>0, FrontElements
  <2>2. /\ stack' = [stack EXCEPT ![t] = <<>>] /\ finished' = finished \cup ElementsOf(stack[t])
        /\ pc' = [pc EXCEPT ![t] = ResumeAt(t, <<>>)] /\ UNCHANGED <<queue, submitted>>
    BY <1>3 DEF Throw
  <2>3. ElementsOf(<<>>) = ElementsOf(stack[t]) \ ElementsOf(stack[t]) /\ Once(<<>>)
    BY FewElements
  <2>4. Ends(t, ElementsOf(stack[t]), <<>>, ResumeAt(t, <<>>))
    BY <1>1, <2>1, <2>2, <2>3 DEF Ends
  <2>5. QED
    BY <2>4, EndPlace
<1>4. QED
  BY <1>2, <1>3

\* Every step of the pool is one of TaskPool, or none.
LEMMA PlaceStep ==
  ASSUME TypeOK, PlaceInv, PermitsMatchTasks, [Next]_vars
  PROVE  PlaceInv' /\ [Pool!Next]_(Pool!vars)
<1>1. ASSUME UNCHANGED <<queue, stack, submitted, finished>>, NEW t \in Threads, NEW l,
             pc' = [pc EXCEPT ![t] = l] \/ pc' = pc, l = "get" => pc[t] = "wait", l # "wait"
      PROVE  PlaceInv' /\ [Pool!Next]_(Pool!vars)
  <2>1. Running' = Running
    BY <1>1 DEF Running
  <2>2. \A w \in Workers : pc'[w] \in {"wait", "get"} => stack'[w] = <<>>
    BY <1>1 DEF TypeOK, PlaceInv, Threads
  <2>3. PlaceInv'
    BY <1>1, <2>1, <2>2, PlaceFrame DEF PlaceInv
  <2>4. UNCHANGED Pool!vars
    BY <1>1, <2>1 DEF Pool!vars
  <2>5. QED
    BY <2>3, <2>4
<1>2. ASSUME NEW t \in Threads, Submit(t) PROVE PlaceInv' /\ Pool!Next
  BY <1>2, PushStep, InlineStep DEF Submit, input_task, input_task_first
<1>3. ASSUME NEW t \in Threads, Return(t) \/ Throw(t) PROVE PlaceInv' /\ Pool!Next
  BY <1>3, EndStep
<1>4. ASSUME NEW w \in Workers, get_task(w) PROVE PlaceInv' /\ Pool!Next
  BY <1>4, TakeStep
<1>5. ASSUME NEW t \in Threads, post(t) PROVE PlaceInv' /\ [Pool!Next]_(Pool!vars)
  BY <1>1, <1>5 DEF post
<1>6. ASSUME NEW w \in Workers, wait(w) PROVE PlaceInv' /\ [Pool!Next]_(Pool!vars)
  BY <1>1, <1>6 DEF wait, Threads
<1>7. ASSUME NEW t \in Callers, stop(t) PROVE PlaceInv' /\ [Pool!Next]_(Pool!vars)
  BY <1>1, <1>7 DEF stop, Threads
<1>8. CASE UNCHANGED vars
  <2>1. Running' = Running
    BY <1>8 DEF vars, Running
  <2>2. PlaceInv'
    BY <1>8, <2>1 DEF vars, PlaceInv
  <2>3. QED
    BY <1>8, <2>1, <2>2 DEF vars, Pool!vars
<1>9. QED
  BY <1>2, <1>3, <1>4, <1>5, <1>6, <1>7, <1>8 DEF Next

(***************************************************************************)
(* The pool implements TaskPool: every task is executed exactly once,      *)
(* whoever submits it, by whichever of the four ways.                      *)
(***************************************************************************)
THEOREM TaskPoolRefinement == Spec => ImplementsTaskPool
<1>1. Init => PlaceInv /\ Pool!Init
  <2> SUFFICES ASSUME Init PROVE PlaceInv /\ Pool!Init
    OBVIOUS
  <2>1. Running = {} /\ ElementsOf(queue) = {}
    BY FewElements DEF Init, Running
  <2>2. Pool!Init
    BY <2>1 DEF Init, Pool!Init
  <2>3. \A t \in Threads : stack[t] = <<>> /\ Once(stack[t]) /\ ElementsOf(stack[t]) = {}
    BY FewElements DEF Init
  <2>4. Once(queue) /\ finished = {} /\ Workers \subseteq Threads
    BY FewElements DEF Init, Threads
  <2>5. PlaceInv
    BY <2>1, <2>3, <2>4 DEF PlaceInv
  <2>6. QED
    BY <2>2, <2>5
<1>2. QED
  BY <1>1, PlaceStep, TypeCorrect, PermitsCorrect, PTL DEF Spec, ImplementsTaskPool, Pool!Spec
=============================================================================
