------------------------------ MODULE TaskPool ------------------------------
(***************************************************************************)
(* What util/thread_pool promises about the tasks it is given: a task is   *)
(* accepted into a bounded queue, started in the order of acceptance, run  *)
(* at most once, by at most MaxRunning threads at a time, and never        *)
(* started once the pool is shut down (it is dropped instead).             *)
(***************************************************************************)
EXTENDS Integers, Sequences, FiniteSets

CONSTANTS Tasks, Capacity, MaxRunning

VARIABLES
  pending,    \* tasks accepted and not started, oldest first
  running,    \* tasks whose handler has been entered and has not returned
  finished,   \* tasks whose handler and callback have returned
  accepting   \* FALSE once the pool is shut down

vars == <<pending, running, finished, accepting>>

Pending == {pending[i] : i \in DOMAIN pending}

Init ==
  /\ pending = <<>>
  /\ running = {}
  /\ finished = {}
  /\ accepting = TRUE

Accept(t) ==
  /\ accepting
  /\ Len(pending) < Capacity
  /\ t \notin Pending \cup running \cup finished
  /\ pending' = Append(pending, t)
  /\ UNCHANGED <<running, finished, accepting>>

Start ==
  /\ accepting
  /\ pending # <<>>
  /\ Cardinality(running) < MaxRunning
  /\ running' = running \cup {Head(pending)}
  /\ pending' = Tail(pending)
  /\ UNCHANGED <<finished, accepting>>

Finish(t) ==
  /\ t \in running
  /\ running' = running \ {t}
  /\ finished' = finished \cup {t}
  /\ UNCHANGED <<pending, accepting>>

Shutdown ==
  /\ accepting' = FALSE
  /\ UNCHANGED <<pending, running, finished>>

Next ==
  \/ \E t \in Tasks : Accept(t) \/ Finish(t)
  \/ Start
  \/ Shutdown

Spec == Init /\ [][Next]_vars
=============================================================================
