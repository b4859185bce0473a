----------------------------- MODULE ThreadPool -----------------------------
(***************************************************************************)
(* util/thread_pool/thread_pool.c: the worker threads, the control thread  *)
(* that resizes and shuts down the pool, and the callers of                *)
(* thread_pool_add_task, all synchronised by global_lock and the condition *)
(* variables queue_not_empty and queue_not_full.                           *)
(*                                                                         *)
(* One action is one critical section: from taking global_lock (or from    *)
(* the return of pthread_cond_wait, which takes it again) to the unlock or *)
(* to the next pthread_cond_wait. What a thread does without the lock      *)
(* touches only its own variables.                                         *)
(***************************************************************************)
EXTENDS QueueOps, FiniteSets

CONSTANTS
  Min, Max,      \* the arguments of thread_pool_init
  ExpandMax,     \* defaultCnt in ExpandStrategy, 5 in the source
  Tids,          \* values of pthread_t
  NoTid,         \* the 0 that marks a free entry of tid_list
  Adders,        \* threads that call thread_pool_add_task
  NTasks,        \* bound on the number of tasks ever created
  ExitBound,     \* bound on wait_exit_thread_cnt, which repeated shrinks grow
  Unsettled      \* when the control thread may find workers unsettled

Tasks == 1 .. NTasks

ASSUME PoolAssumption ==
  /\ Min \in Nat \ {0} /\ Max \in Nat /\ Min <= Max
  /\ ExpandMax \in Nat \ {0}
  /\ IsFiniteSet(Tids) /\ Cardinality(Tids) >= Max
  /\ NoTid \notin Tids
  /\ NTasks \in Nat /\ ExitBound \in Nat
  /\ Unsettled \subseteq {"sleep", "tick"}
  /\ NULL \notin Tasks /\ INDET \notin Tasks

VARIABLES
  task_queue,            \* struct queue_t of 2 * Max task pointers
  tid_list,              \* the array of Max thread ids
  cur_thread_cnt,
  act_thread_cnt,
  wait_exit_thread_cnt,
  shutdown_flag,
  sigquit,    \* SIGQUIT is pending for the process
  ctrl,       \* control thread: "sleep", "tick" (about to lock) or "exited"
  wpc,        \* where each worker is, see WorkerPlaces
  taskp,      \* each worker's local taskp, NULL when it holds no task
  apc,        \* each caller: "idle", "wait" on queue_not_full, or "woken"
  atask,      \* the task each caller is adding
  created,    \* number of tasks created; task i is the i-th
  finished,   \* history: the tasks that ran to the end
  fatal       \* history: a thread reached exit(EXIT_FAILURE)

counters == <<cur_thread_cnt, act_thread_cnt, wait_exit_thread_cnt>>
addVars == <<apc, atask, created>>
vars == <<task_queue, tid_list, counters, shutdown_flag, sigquit, ctrl, wpc,
          taskp, addVars, finished, fatal>>

(***************************************************************************)
(* "none": no thread has this id. "ready": before the lock at the top of   *)
(* the loop. "wait": in pthread_cond_wait. "woken": out of it, before the  *)
(* lock is taken again. "run": in the task's handler or its callback.      *)
(* "reset": before the lock that clears its busy mark.                     *)
(***************************************************************************)
WorkerPlaces == {"none", "ready", "wait", "woken", "run", "reset"}
AdderPlaces == {"idle", "wait", "woken"}

At(place) == {w \in Tids : wpc[w] = place}
Live == Tids \ At("none")
Busy == At("run") \cup At("reset")
AddersAt(place) == {a \in Adders : apc[a] = place}
Slots == 0 .. Max - 1

(* A signal that is lost, for mutation.                                    *)
SignalNone(pc) == {pc}

(* pthread_cond_signal wakes one waiting thread, if there is one.          *)
Signalled(pc) ==
  LET waiting == {x \in DOMAIN pc : pc[x] = "wait"}
  IN  IF waiting = {} THEN {pc}
      ELSE {[pc EXCEPT ![x] = "woken"] : x \in waiting}

(* pthread_cond_broadcast wakes them all.                                  *)
Broadcast(pc) ==
  [x \in DOMAIN pc |-> IF pc[x] = "wait" THEN "woken" ELSE pc[x]]

-----------------------------------------------------------------------------
(* The static helpers of thread_pool.c, called with global_lock held.      *)

FindTidIdx(tid) ==
  IF \E idx \in Slots : tid_list[idx] = tid
  THEN CHOOSE idx \in Slots : tid_list[idx] = tid
  ELSE -1

(* The first entries, taken or not, for mutation.                          *)
FirstEntries(cnt) == {idx \in Slots : idx < cnt}

(* The entries that cnt calls of GetUnusedTidIdx hand out, one at a time.  *)
Unused == {idx \in Slots : tid_list[idx] = NoTid}
FirstUnused(cnt) ==
  {idx \in Unused : Cardinality({i \in Unused : i < idx}) < cnt}

(***************************************************************************)
(* The busy share act * 1.0 / cur, rounded to float, against the doubles   *)
(* 0.7 and 0.3: for every count of threads below 10^6 this is the exact    *)
(* comparison, except that the float nearest to 0.7 is below 0.7, so that  *)
(* a share of exactly 70% does not expand. With cur = 0 the share is NaN   *)
(* and both are false, as here.                                            *)
(***************************************************************************)
IsNeedExpand == 10 * act_thread_cnt > 7 * cur_thread_cnt
IsNeedShrink == 10 * act_thread_cnt < 3 * cur_thread_cnt

ExpandStrategy ==
  IF Max - cur_thread_cnt > ExpandMax THEN ExpandMax ELSE Max - cur_thread_cnt

(* A shrink that ignores the lower limit, for mutation.                    *)
ShrinkNoFloor ==
  IF cur_thread_cnt > 2 * act_thread_cnt
  THEN cur_thread_cnt - 2 * act_thread_cnt ELSE 0

ShrinkStrategy ==
  LET resCnt == IF 2 * act_thread_cnt < Min THEN Min ELSE 2 * act_thread_cnt
  IN  IF cur_thread_cnt > resCnt THEN cur_thread_cnt - resCnt ELSE 0

-----------------------------------------------------------------------------
(***************************************************************************)
(* thread_pool_init, which holds global_lock until the first Min workers   *)
(* exist: every new thread then stops at its first lock.                   *)
(***************************************************************************)
Init ==
  /\ task_queue = queue_init(2 * Max)
  /\ tid_list \in [Slots -> Tids \cup {NoTid}]
  /\ \A i \in Slots : tid_list[i] = NoTid <=> i >= Min
  /\ \A i, j \in 0 .. Min - 1 : tid_list[i] = tid_list[j] => i = j
  /\ cur_thread_cnt = Min
  /\ act_thread_cnt = 0
  /\ wait_exit_thread_cnt = 0
  /\ shutdown_flag = FALSE
  /\ sigquit = FALSE
  /\ ctrl = "sleep"
  /\ wpc = [w \in Tids |-> IF \E i \in Slots : tid_list[i] = w
                           THEN "ready" ELSE "none"]
  /\ taskp = [w \in Tids |-> NULL]
  /\ apc = [a \in Adders |-> "idle"]
  /\ atask = [a \in Adders |-> NULL]
  /\ created = 0
  /\ finished = {}
  /\ fatal = FALSE

-----------------------------------------------------------------------------
(* thread_pool_add_task. One section each for a full queue, for a pool     *)
(* shut down, and for the enqueue.                                         *)

(* The task caller a holds: one it has just created, or the one it waits   *)
(* with.                                                                   *)
EntersWith(a, t) ==
  \/ apc[a] = "idle" /\ created < NTasks /\ t = created + 1
  \/ apc[a] = "woken" /\ t = atask[a]

Entered(t) == created' = IF t > created THEN t ELSE created

(* The caller waits on queue_not_full, or again after a wake-up.           *)
AddWaits(a, t) ==
  /\ EntersWith(a, t)
  /\ ~queue_is_not_full(task_queue)
  /\ ~shutdown_flag
  /\ apc' = [apc EXCEPT ![a] = "wait"]
  /\ atask' = [atask EXCEPT ![a] = t]
  /\ Entered(t)
  /\ UNCHANGED <<task_queue, tid_list, counters, shutdown_flag, sigquit, ctrl,
                 wpc, taskp, finished, fatal>>

(* The caller returns THREAD_POOL_SUCCESS without adding the task.         *)
AddDrops(a, t) ==
  /\ EntersWith(a, t)
  /\ shutdown_flag
  /\ apc' = [apc EXCEPT ![a] = "idle"]
  /\ atask' = [atask EXCEPT ![a] = NULL]
  /\ Entered(t)
  /\ UNCHANGED <<task_queue, tid_list, counters, shutdown_flag, sigquit, ctrl,
                 wpc, taskp, finished, fatal>>

AddEnqueues(a, t) ==
  /\ EntersWith(a, t)
  /\ ~shutdown_flag
  /\ queue_is_not_full(task_queue)
  /\ task_queue' = queue_push(task_queue, t)
  /\ wpc' \in Signalled(wpc)
  /\ apc' = [apc EXCEPT ![a] = "idle"]
  /\ atask' = [atask EXCEPT ![a] = NULL]
  /\ Entered(t)
  /\ UNCHANGED <<tid_list, counters, shutdown_flag, sigquit, ctrl, taskp,
                 finished, fatal>>

(* POSIX lets pthread_cond_wait return with no signal.                     *)
AddWakesSpuriously(a) ==
  /\ apc[a] = "wait"
  /\ apc' = [apc EXCEPT ![a] = "woken"]
  /\ UNCHANGED <<task_queue, tid_list, counters, shutdown_flag, sigquit, ctrl,
                 wpc, taskp, atask, created, finished, fatal>>

-----------------------------------------------------------------------------
(* work_thread_handler.                                                    *)

(* The worker holds the lock at the loop test, or just after a wake-up.    *)
InSection(w) == wpc[w] \in {"ready", "woken"}

(* A wait not repeated after a wake-up (if for while), for mutation.       *)
WaitOnce(w) ==
  queue_is_empty(task_queue) /\ ~shutdown_flag /\ wpc[w] = "ready"

(***************************************************************************)
(* The inner while loop stops at pthread_cond_wait: the queue is empty and *)
(* the worker did not break out. Only a worker that has been woken looks   *)
(* at wait_exit_thread_cnt before it waits.                                *)
(***************************************************************************)
MustWait(w) ==
  /\ queue_is_empty(task_queue)
  /\ ~shutdown_flag
  /\ wpc[w] = "woken" => wait_exit_thread_cnt = 0

(* An exit test without the shutdown_flag, for mutation.                   *)
ToldToExit == wait_exit_thread_cnt # 0

MustExit == shutdown_flag \/ wait_exit_thread_cnt # 0

WorkerWaits(w) ==
  /\ InSection(w)
  /\ MustWait(w)
  /\ wpc' = [wpc EXCEPT ![w] = "wait"]
  /\ UNCHANGED <<task_queue, tid_list, counters, shutdown_flag, sigquit, ctrl,
                 taskp, addVars, finished, fatal>>

WorkerExits(w) ==
  /\ InSection(w)
  /\ ~MustWait(w)
  /\ MustExit
  /\ tid_list' = [tid_list EXCEPT ![FindTidIdx(w)] = NoTid]
  /\ fatal' = (fatal \/ FindTidIdx(w) = -1)
  /\ wait_exit_thread_cnt' =
       IF wait_exit_thread_cnt # 0 THEN wait_exit_thread_cnt - 1 ELSE 0
  /\ cur_thread_cnt' = cur_thread_cnt - 1
  /\ wpc' = [wpc EXCEPT ![w] = "none"]
  /\ UNCHANGED <<task_queue, act_thread_cnt, shutdown_flag, sigquit, ctrl,
                 taskp, addVars, finished>>

WorkerTakes(w) ==
  /\ InSection(w)
  /\ ~MustWait(w)
  /\ ~MustExit
  /\ fatal' = (fatal \/ queue_is_empty(task_queue))
  /\ taskp' = [taskp EXCEPT ![w] = queue_front(task_queue)]
  /\ task_queue' = queue_pop(task_queue)
  /\ act_thread_cnt' = act_thread_cnt + 1
  /\ apc' \in Signalled(apc)
  /\ wpc' = [wpc EXCEPT ![w] = "run"]
  /\ UNCHANGED <<tid_list, cur_thread_cnt, wait_exit_thread_cnt, shutdown_flag,
                 sigquit, ctrl, atask, created, finished>>

(* task_handler and task_complete_call_back return, without the lock.      *)
WorkerFinishes(w) ==
  /\ wpc[w] = "run"
  /\ wpc' = [wpc EXCEPT ![w] = "reset"]
  /\ finished' = finished \cup {taskp[w]}
  /\ taskp' = [taskp EXCEPT ![w] = NULL]
  /\ UNCHANGED <<task_queue, tid_list, counters, shutdown_flag, sigquit, ctrl,
                 addVars, fatal>>

WorkerResets(w) ==
  /\ wpc[w] = "reset"
  /\ act_thread_cnt' = act_thread_cnt - 1
  /\ wpc' = [wpc EXCEPT ![w] = "ready"]
  /\ UNCHANGED <<task_queue, tid_list, cur_thread_cnt, wait_exit_thread_cnt,
                 shutdown_flag, sigquit, ctrl, taskp, addVars, finished, fatal>>

WorkerWakesSpuriously(w) ==
  /\ wpc[w] = "wait"
  /\ wpc' = [wpc EXCEPT ![w] = "woken"]
  /\ UNCHANGED <<task_queue, tid_list, counters, shutdown_flag, sigquit, ctrl,
                 taskp, addVars, finished, fatal>>

-----------------------------------------------------------------------------
(* ctrl_thread_handler.                                                    *)

(***************************************************************************)
(* The control thread sleeps CTRL_THREAD_RUN_INTERVAL, 5 seconds, before   *)
(* it polls for the signal and then takes the lock. The workers are        *)
(* settled when none is between two critical sections: each waits, runs a  *)
(* task or is about to report its end. With Unsettled = {"sleep", "tick"}  *)
(* nothing is assumed about them; with {"tick"} the 5 seconds are enough   *)
(* for all to settle, but some may finish a task while the signal is       *)
(* polled for; with {} they are settled at the lock as well.               *)
(***************************************************************************)
Settled == At("ready") \cup At("woken") = {}

CtrlAt(place) ==
  /\ ctrl = place
  /\ place \notin Unsettled => Settled

(* Somebody sends the process SIGQUIT; it stays pending until taken.       *)
SendSigquit ==
  /\ ~sigquit
  /\ sigquit' = TRUE
  /\ UNCHANGED <<task_queue, tid_list, counters, shutdown_flag, ctrl, wpc,
                 taskp, addVars, finished, fatal>>

(* The sleep ends and sigtimedwait finds no signal.                        *)
CtrlFindsNothing ==
  /\ CtrlAt("sleep")
  /\ ~sigquit
  /\ ctrl' = "tick"
  /\ UNCHANGED <<task_queue, tid_list, counters, shutdown_flag, sigquit, wpc,
                 taskp, addVars, finished, fatal>>

(* It takes SIGQUIT; the flag is set in a critical section of its own.     *)
CtrlSetsShutdown ==
  /\ CtrlAt("sleep")
  /\ sigquit
  /\ sigquit' = FALSE
  /\ shutdown_flag' = TRUE
  /\ ctrl' = "tick"
  /\ UNCHANGED <<task_queue, tid_list, counters, wpc, taskp, addVars, finished,
                 fatal>>

CtrlExits ==
  /\ CtrlAt("tick")
  /\ shutdown_flag /\ cur_thread_cnt = 0
  /\ ctrl' = "exited"
  /\ UNCHANGED <<task_queue, tid_list, counters, shutdown_flag, sigquit, wpc,
                 taskp, addVars, finished, fatal>>

(* No broadcast to those who shall exit, for mutation.                     *)
WakeNobody(pc) == pc

(* The end of the section: wake the workers if any is to exit.             *)
WakeForExit(pc) == IF wait_exit_thread_cnt' # 0 THEN Broadcast(pc) ELSE pc

CtrlExpands ==
  /\ CtrlAt("tick")
  /\ ~shutdown_flag
  /\ IsNeedExpand
  /\ LET new == FirstUnused(ExpandStrategy) IN
     \E tid \in [new -> At("none")] :
        /\ \A i, j \in new : tid[i] = tid[j] => i = j
        /\ tid_list' = [i \in Slots |->
                          IF i \in new THEN tid[i] ELSE tid_list[i]]
        /\ cur_thread_cnt' = cur_thread_cnt + Cardinality(new)
        /\ UNCHANGED wait_exit_thread_cnt
        /\ wpc' = WakeForExit([w \in Tids |->
                     IF \E i \in new : tid[i] = w THEN "ready" ELSE wpc[w]])
  /\ ctrl' = "sleep"
  /\ UNCHANGED <<task_queue, act_thread_cnt, shutdown_flag, sigquit, taskp,
                 addVars, finished, fatal>>

CtrlShrinks ==
  /\ CtrlAt("tick")
  /\ ~shutdown_flag
  /\ ~IsNeedExpand /\ IsNeedShrink
  /\ wait_exit_thread_cnt + ShrinkStrategy <= ExitBound
  /\ wait_exit_thread_cnt' = wait_exit_thread_cnt + ShrinkStrategy
  /\ wpc' = WakeForExit(wpc)
  /\ ctrl' = "sleep"
  /\ UNCHANGED <<task_queue, tid_list, cur_thread_cnt, act_thread_cnt,
                 shutdown_flag, sigquit, taskp, addVars, finished, fatal>>

CtrlKeepsSize ==
  /\ CtrlAt("tick")
  /\ ~shutdown_flag
  /\ ~IsNeedExpand /\ ~IsNeedShrink
  /\ UNCHANGED wait_exit_thread_cnt
  /\ wpc' = WakeForExit(wpc)
  /\ ctrl' = "sleep"
  /\ UNCHANGED <<task_queue, tid_list, cur_thread_cnt, act_thread_cnt,
                 shutdown_flag, sigquit, taskp, addVars, finished, fatal>>

CtrlCloses ==
  /\ CtrlAt("tick")
  /\ shutdown_flag /\ cur_thread_cnt > 0
  /\ wait_exit_thread_cnt' = cur_thread_cnt
  /\ apc' = Broadcast(apc)
  /\ wpc' = WakeForExit(wpc)
  /\ ctrl' = "sleep"
  /\ UNCHANGED <<task_queue, tid_list, cur_thread_cnt, act_thread_cnt,
                 shutdown_flag, sigquit, taskp, atask, created, finished, fatal>>

-----------------------------------------------------------------------------
AddTask(a) == \E t \in Tasks : AddWaits(a, t) \/ AddDrops(a, t) \/ AddEnqueues(a, t)

Worker(w) ==
  \/ WorkerWaits(w) \/ WorkerExits(w) \/ WorkerTakes(w)
  \/ WorkerFinishes(w) \/ WorkerResets(w)

Ctrl ==
  \/ CtrlFindsNothing \/ CtrlSetsShutdown
  \/ CtrlExits \/ CtrlExpands \/ CtrlShrinks \/ CtrlKeepsSize \/ CtrlCloses

Next ==
  \/ \E a \in Adders : AddTask(a) \/ AddWakesSpuriously(a)
  \/ \E w \in Tids : Worker(w) \/ WorkerWakesSpuriously(w)
  \/ Ctrl
  \/ SendSigquit

Spec == Init /\ [][Next]_vars

(***************************************************************************)
(* Every thread that wants global_lock gets it in the end, sleep ends, and *)
(* task handlers return. Nobody has to call thread_pool_add_task, send a   *)
(* signal, or wake up without one; a caller woken up goes on.              *)
(***************************************************************************)
Fairness ==
  /\ \A w \in Tids : WF_vars(Worker(w))
  /\ \A a \in Adders : WF_vars(apc[a] = "woken" /\ AddTask(a))
  /\ WF_vars(Ctrl)

FairSpec == Spec /\ Fairness

-----------------------------------------------------------------------------
Queued == Contents(task_queue)
InQueue(t) == \E i \in 1 .. task_queue.cur_size : Slot(task_queue, i) = t
Running == {taskp[w] : w \in At("run")}

TypeOK ==
  /\ task_queue \in Rings(Tasks \cup {INDET}, 2 * Max)
  /\ tid_list \in [Slots -> Tids \cup {NoTid}]
  /\ cur_thread_cnt \in 0 .. Max
  /\ act_thread_cnt \in 0 .. Max
  /\ wait_exit_thread_cnt \in Nat
  /\ shutdown_flag \in BOOLEAN
  /\ sigquit \in BOOLEAN
  /\ ctrl \in {"sleep", "tick", "exited"}
  /\ wpc \in [Tids -> WorkerPlaces]
  /\ taskp \in [Tids -> Tasks \cup {NULL}]
  /\ apc \in [Adders -> AdderPlaces]
  /\ atask \in [Adders -> Tasks \cup {NULL}]
  /\ created \in 0 .. NTasks
  /\ finished \in SUBSET Tasks
  /\ fatal \in BOOLEAN

(***************************************************************************)
(* The counters tell the truth at every unlock: cur_thread_cnt entries of  *)
(* tid_list are taken, one for each live worker and no two for the same,   *)
(* and act_thread_cnt workers are busy. Expansion, the exits of workers    *)
(* and the two busy-mark sections update them in different places          *)
(* (thread_pool.c lines 178-190, 253-257, 270, 284).                       *)
(***************************************************************************)
CountersExact ==
  /\ cur_thread_cnt = Cardinality(Slots \ Unused)
  /\ act_thread_cnt = Cardinality(Busy)
  /\ {tid_list[i] : i \in Slots \ Unused} = Live
  /\ \A i, j \in Slots \ Unused : tid_list[i] = tid_list[j] => i = j

(***************************************************************************)
(* No worker ever ends the process: it always finds its own entry in       *)
(* tid_list, and leaves its waiting loop for a task only with one in the   *)
(* queue (the exits with EXIT_FAILURE at lines 249 and 268).               *)
(***************************************************************************)
NoFatal == ~fatal

(***************************************************************************)
(* No wake-up of a blocked caller is lost: while one waits on              *)
(* queue_not_full, each slot the workers have freed since is matched by a  *)
(* caller already woken, although other callers may take the slot first    *)
(* (lines 271 and 418-421).                                                *)
(***************************************************************************)
NoLostSlot ==
  ~shutdown_flag /\ AddersAt("wait") # {} =>
     task_queue.cur_size + Cardinality(AddersAt("woken")) >= 2 * Max

(***************************************************************************)
(* The pool implements TaskPool: whatever the interleaving of callers,     *)
(* workers and resizing, an accepted task is started in order, at most     *)
(* once, by at most Max workers, and none is started after the shutdown.   *)
(***************************************************************************)
Pool == INSTANCE TaskPool WITH
          Capacity <- 2 * Max, MaxRunning <- Max,
          pending <- Queued, running <- Running, accepting <- ~shutdown_flag

ImplementsPool == Pool!Spec

(***************************************************************************)
(* Until the shutdown the pool keeps min_thread_cnt workers, even after    *)
(* every worker that has been told to exit has done so (thread_pool.h line *)
(* 34; lines 100-114 and 195-198).                                         *)
(***************************************************************************)
KeepsMinThreads ==
  ~shutdown_flag => cur_thread_cnt >= Min + wait_exit_thread_cnt

(***************************************************************************)
(* What thread_pool.h line 34 promises of cur_thread_cnt alone.            *)
(***************************************************************************)
MinThreads == ~shutdown_flag => cur_thread_cnt >= Min

(***************************************************************************)
(* No wake-up of a worker is lost: while one waits on queue_not_empty, for *)
(* each queued task and each worker told to exit another is on its way     *)
(* from the wait, although a woken worker may serve either, or find its    *)
(* task taken by a worker that never waited (lines 235-263 and 438).       *)
(***************************************************************************)
NoLostTask ==
  ~shutdown_flag /\ At("wait") # {} =>
     Cardinality(At("woken")) >= task_queue.cur_size + wait_exit_thread_cnt

(***************************************************************************)
(* A task in the queue is taken by a worker or the pool is shut down.      *)
(***************************************************************************)
TasksServed == \A t \in Tasks : InQueue(t) ~> (~InQueue(t) \/ shutdown_flag)

(***************************************************************************)
(* A caller of thread_pool_add_task returns or the pool is shut down, even *)
(* when others keep taking the slots it is woken up for.                   *)
(***************************************************************************)
CallersReturn ==
  \A a \in Adders : apc[a] # "idle" ~> (apc[a] = "idle" \/ shutdown_flag)

(***************************************************************************)
(* After the shutdown every worker exits, and the control thread after     *)
(* them: neither the waiting workers nor those woken up for a task of long *)
(* ago are forgotten (lines 164-169 and 203-213).                          *)
(***************************************************************************)
ShutdownCompletes == shutdown_flag ~> (ctrl = "exited" /\ Live = {})

(***************************************************************************)
(* A caller blocked on a full queue is released by the shutdown, as the    *)
(* comment at line 206 says of the broadcast.                              *)
(***************************************************************************)
AddersReleased ==
  \A a \in Adders : (shutdown_flag /\ apc[a] = "wait") ~> apc[a] = "idle"
=============================================================================
