------------------------------ MODULE SemMutex ------------------------------
(***************************************************************************)
(* process_func/IPC/POSIX_SEMAPHORE/semaphore_mutex.c: a mutex made of a   *)
(* binary semaphore and the kernel thread id lwp of the locking thread.    *)
(* One action per access to shared memory: a system call or the reading or *)
(* writing of lwp. Strays are callers that unlock a mutex they did not     *)
(* lock, which the tests in sem_mutex_unlock are there to stop.            *)
(***************************************************************************)
EXTENDS Naturals

CONSTANTS
  Threads,    \* the producer and consumer threads
  NoTid,      \* the 0 that lwp holds when nobody is recorded
  Strays      \* the threads that also unlock without having locked

ASSUME ThreadsAssumption == NoTid \notin Threads /\ Strays \subseteq Threads

VARIABLES
  sem,      \* the value of the semaphore
  lwp,      \* the recorded thread
  pc,       \* where each thread is in lock, section or unlock
  owner     \* history: the thread whose sem_wait took the semaphore last,
            \* until somebody posts it

vars == <<sem, lwp, pc, owner>>

(* sem_mutex_init, before the threads are created.                         *)
Init ==
  /\ sem = 1
  /\ lwp = NoTid
  /\ pc = [t \in Threads |-> "outside"]
  /\ owner = NoTid

Goes(t, from, to) == pc[t] = from /\ pc' = [pc EXCEPT ![t] = to]

(* sem_wait returns; the thread id is not yet recorded.                    *)
LockWaits(t) ==
  /\ Goes(t, "outside", "record")
  /\ sem > 0
  /\ sem' = sem - 1
  /\ owner' = t
  /\ UNCHANGED lwp

LockRecords(t) ==
  /\ Goes(t, "record", "section")
  /\ lwp' = t
  /\ UNCHANGED <<sem, owner>>

(* The thread has printed its lines and calls sem_mutex_unlock, or, a      *)
(* stray, calls it from outside.                                           *)
CallsUnlock(t) ==
  /\ \/ Goes(t, "section", "getvalue")
     \/ t \in Strays /\ Goes(t, "outside", "getvalue")
  /\ UNCHANGED <<sem, lwp, owner>>

UnlockFindsFree(t) ==
  /\ Goes(t, "getvalue", "outside")
  /\ sem > 0
  /\ UNCHANGED <<sem, lwp, owner>>

UnlockFindsLocked(t) ==
  /\ Goes(t, "getvalue", "compare")
  /\ sem = 0
  /\ UNCHANGED <<sem, lwp, owner>>

(* An unlock that forgets to compare, for mutation.                        *)
AnyCaller(t) == TRUE

(* sys_gettid() == sem_mutex->lwp.                                         *)
IsRecorded(t) == lwp = t

UnlockRefuses(t) ==
  /\ Goes(t, "compare", "outside")
  /\ ~ IsRecorded(t)
  /\ UNCHANGED <<sem, lwp, owner>>

UnlockAccepts(t) ==
  /\ Goes(t, "compare", "post")
  /\ IsRecorded(t)
  /\ UNCHANGED <<sem, lwp, owner>>

UnlockPosts(t) ==
  /\ Goes(t, "post", "clear")
  /\ sem' = sem + 1
  /\ owner' = NoTid
  /\ UNCHANGED lwp

(* An unlock that leaves its record behind, for mutation.                  *)
KeepsRecord(t) ==
  /\ Goes(t, "clear", "outside")
  /\ UNCHANGED <<sem, lwp, owner>>

UnlockClears(t) ==
  /\ Goes(t, "clear", "outside")
  /\ lwp' = NoTid
  /\ UNCHANGED <<sem, owner>>

Thread(t) ==
  \/ LockWaits(t) \/ LockRecords(t)
  \/ CallsUnlock(t)
  \/ UnlockFindsFree(t) \/ UnlockFindsLocked(t)
  \/ UnlockRefuses(t) \/ UnlockAccepts(t)
  \/ UnlockPosts(t) \/ UnlockClears(t)

Next == \E t \in Threads : Thread(t)

Spec == Init /\ [][Next]_vars

-----------------------------------------------------------------------------
Places ==
  {"outside", "record", "section", "getvalue", "compare", "post", "clear"}

(* sem never exceeds 1: no unlock posts a semaphore nobody holds.          *)
TypeOK ==
  /\ sem \in {0, 1}
  /\ lwp \in Threads \union {NoTid}
  /\ pc \in [Threads -> Places]
  /\ owner \in Threads \union {NoTid}

InSection(t) == pc[t] \in {"record", "section"}

(***************************************************************************)
(* Two threads never print their lines at the same time, whatever unlock   *)
(* calls and late clearings of lwp go on around them.                      *)
(***************************************************************************)
MutualExclusion ==
  \A s, t \in Threads : InSection(s) /\ InSection(t) => s = t

(***************************************************************************)
(* Only the thread that holds the mutex releases it: a post is made by the *)
(* thread whose sem_wait was the last to return.                           *)
(***************************************************************************)
ReleasedByOwner ==
  [][\A t \in Threads : pc[t] = "post" /\ pc'[t] # "post" => owner = t]_vars

(***************************************************************************)
(* A thread that has gone through lock and unlock does not hold the mutex  *)
(* any more. The code breaks it: lwp is cleared after the post, and then   *)
(* may erase the record of the next owner, whose unlock is refused.        *)
(***************************************************************************)
UnlockReleases == \A t \in Threads : pc[t] = "outside" => owner # t
=============================================================================
