------------------------------ MODULE TaskPool ------------------------------
(***************************************************************************)
(* What a thread pool promises its callers: a task that was handed over is *)
(* executed exactly once.  A task waits (pending), is being executed       *)
(* (running) and is over (done), in this order, and is never in two of     *)
(* these places, dropped, or executed again.  dc_thread_pool (module       *)
(* ThreadPool) is shown to implement this.                                 *)
(***************************************************************************)
CONSTANT Tasks      \* the tasks that callers may hand to the pool

VARIABLES pending, running, done
vars == <<pending, running, done>>

Fresh == Tasks \ (pending \cup running \cup done)

Init == pending = {} /\ running = {} /\ done = {}

Submit(k) ==
  /\ k \in Fresh
  /\ pending' = pending \cup {k}
  /\ UNCHANGED <<running, done>>

\* The caller's own thread executes the task at once.
SubmitInline(k) ==
  /\ k \in Fresh
  /\ running' = running \cup {k}
  /\ UNCHANGED <<pending, done>>

Start(k) ==
  /\ k \in pending
  /\ pending' = pending \ {k}
  /\ running' = running \cup {k}
  /\ UNCHANGED done

\* A task returns, or an exception unwinds it with the tasks it called inline.
Finish(K) ==
  /\ K \subseteq running
  /\ running' = running \ K
  /\ done' = done \cup K
  /\ UNCHANGED pending

Next ==
  \/ \E k \in Tasks : Submit(k) \/ SubmitInline(k) \/ Start(k)
  \/ \E K \in (SUBSET Tasks) \ {{}} : Finish(K)

Spec == Init /\ [][Next]_vars
=============================================================================
