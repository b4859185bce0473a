------------------------------ MODULE LockOrder ------------------------------
(***************************************************************************)
(* thread/deadblock2_solve.c: main takes mutex 1 then mutex 2, its thread  *)
(* the other way round; under both each adds 1 to var1 and to var2. The    *)
(* first lock is a trylock in a loop, the second a blocking lock, which    *)
(* never returns EBUSY: the branch that gives the first back is dead code. *)
(***************************************************************************)
EXTENDS Integers

CONSTANTS
  Threads, NoOne,
  Main,         \* the thread that starts with mutex 1
  MaxRounds     \* bound: how often var1 and var2 are incremented

VARIABLES holder, var1, var2, pc

vars == <<holder, var1, var2, pc>>

Init ==
  /\ holder = [m \in {1, 2} |-> NoOne]
  /\ var1 = 10 /\ var2 = 20
  /\ pc = [t \in Threads |-> "first"]

Goes(t, from, to) == pc[t] = from /\ pc' = [pc EXCEPT ![t] = to]

(* Either kind of lock takes the mutex once nobody holds it.               *)
Takes(t, m) ==
  /\ holder[m] = NoOne
  /\ holder' = [holder EXCEPT ![m] = t]
  /\ UNCHANGED <<var1, var2>>

FirstOf(t) == IF t = Main THEN 1 ELSE 2

TakesFirst(t) == Goes(t, "first", "second") /\ Takes(t, FirstOf(t))

TakesSecond(t) == Goes(t, "second", "add1") /\ Takes(t, 3 - FirstOf(t))

Adds1(t) ==
  /\ Goes(t, "add1", "add2")
  /\ var1 < 10 + MaxRounds
  /\ var1' = var1 + 1
  /\ UNCHANGED <<holder, var2>>

Adds2(t) ==
  /\ Goes(t, "add2", "unlock1")
  /\ var2' = var2 + 1
  /\ UNCHANGED <<holder, var1>>

(* Both unlock mutex 1 first.                                              *)
Unlocks(t) ==
  /\ \/ Goes(t, "unlock1", "unlock2") /\ holder' = [holder EXCEPT ![1] = NoOne]
     \/ Goes(t, "unlock2", "first") /\ holder' = [holder EXCEPT ![2] = NoOne]
  /\ UNCHANGED <<var1, var2>>

Next ==
  \E t \in Threads :
    TakesFirst(t) \/ TakesSecond(t) \/ Adds1(t) \/ Adds2(t) \/ Unlocks(t)

Spec == Init /\ [][Next]_vars

-----------------------------------------------------------------------------
(***************************************************************************)
(* The two threads never wait for each other, each with its first mutex.   *)
(* The code breaks it: only the first of the two locks is a trylock.       *)
(***************************************************************************)
NoEmbrace == ~ \A t \in Threads : pc[t] = "second"
=============================================================================
