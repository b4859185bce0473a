----------------------------- MODULE PoolProofs -----------------------------
(***************************************************************************)
(* For every size of the pool, every number of threads and every bound:    *)
(* the counters of the thread pool are exact at each unlock, its struct    *)
(* keeps its type, no worker ever meets a state it has to exit from, the   *)
(* pool implements TaskPool, and it loses no wake-up of a blocked caller;  *)
(* with workers that settle while the control thread sleeps, it loses none *)
(* of a worker and keeps its minimum of threads.                           *)
(***************************************************************************)
EXTENDS ThreadPool, QueueLemmas, FiniteSetTheorems

Used == Slots \ Unused

(* The task queue is well formed and holds nothing but tasks.              *)
QueueOK == RingOK(task_queue) /\ Contents(task_queue) \in Seq(Tasks)

(* A worker in a handler has a task.                                       *)
RunHolds == \A w \in Tids : wpc[w] = "run" => taskp[w] \in Tasks

(* What the callers and the control thread keep to themselves.             *)
CallType ==
  /\ shutdown_flag \in BOOLEAN
  /\ sigquit \in BOOLEAN
  /\ ctrl \in {"sleep", "tick", "exited"}
  /\ apc \in [Adders -> AdderPlaces]
  /\ atask \in [Adders -> Tasks \cup {NULL}]
  /\ created \in 0 .. NTasks

(* What the workers and the queue go through.                              *)
WorkType ==
  /\ task_queue \in Rings(Tasks \cup {INDET}, 2 * Max)
  /\ tid_list \in [Slots -> Tids \cup {NoTid}]
  /\ wait_exit_thread_cnt \in Nat
  /\ wpc \in [Tids -> WorkerPlaces]
  /\ taskp \in [Tids -> Tasks \cup {NULL}]
  /\ finished \in SUBSET Tasks

WInv == WorkType /\ QueueOK /\ RunHolds /\ CountersExact /\ fatal = FALSE

(* The inductive invariant. The bounds on the counters in TypeOK follow    *)
(* from CountersExact, and that the handler a worker runs is a task's from *)
(* QueueOK and RunHolds; none of them is inductive on its own.             *)
IInv == CallType /\ WInv

(* pc' differs from pc in threads moved from "wait" to "woken" only.       *)
Wakes(pc, new) ==
  /\ DOMAIN new = DOMAIN pc
  /\ \A x \in DOMAIN pc :
        new[x] = pc[x] \/ (pc[x] = "wait" /\ new[x] = "woken")

(* Signals and broadcasts wake waiting threads and do nothing else.        *)
LEMMA SignalWakes ==
  ASSUME NEW S, NEW pc, pc = [x \in S |-> pc[x]], NEW new \in Signalled(pc)
  PROVE  new = [x \in S |-> new[x]] /\ Wakes(pc, new)
<1> DEFINE waiting == {x \in DOMAIN pc : pc[x] = "wait"}
<1>1. CASE waiting = {}
  BY <1>1 DEF Signalled, Wakes
<1>2. CASE waiting # {}
  <2>1. PICK x \in waiting : new = [pc EXCEPT ![x] = "woken"]
    BY <1>2 DEF Signalled
  <2>. QED
    BY <2>1 DEF Wakes
<1>. QED
  BY <1>1, <1>2

LEMMA BroadcastWakes ==
  ASSUME NEW S, NEW pc, pc = [x \in S |-> pc[x]]
  PROVE  /\ Broadcast(pc) = [x \in S |-> Broadcast(pc)[x]]
         /\ Wakes(pc, Broadcast(pc))
  BY DEF Broadcast, Wakes

(* The entries of tid_list are finitely many.                              *)
LEMMA SlotsFinite ==
  /\ IsFiniteSet(Slots) /\ Cardinality(Slots) = Max
  /\ IsFiniteSet(Used) /\ Cardinality(Used) \in 0 .. Max
<1>1. Max \in Nat \ {0}
  BY PoolAssumption
<1>2. IsFiniteSet(Slots) /\ Cardinality(Slots) = Max
  BY <1>1, FS_Interval DEF Slots
<1>3. Used \in SUBSET Slots
  BY DEF Used
<1>4. IsFiniteSet(Used) /\ Cardinality(Used) <= Max
  BY <1>2, <1>3, FS_Subset
<1>5. Cardinality(Used) \in Nat
  BY <1>4, FS_CardinalityType
<1>. QED
  BY <1>1, <1>2, <1>4, <1>5

(* The workers are finitely many, and as many as there are taken entries.  *)
LEMMA LiveFinite ==
  ASSUME CountersExact
  PROVE  /\ IsFiniteSet(Live) /\ Cardinality(Live) = cur_thread_cnt
         /\ IsFiniteSet(Busy) /\ Cardinality(Busy) \in 0 .. cur_thread_cnt
<1> DEFINE f == [i \in Used |-> tid_list[i]]
<1>1. f \in Surjection(Used, Live) /\ f \in Injection(Used, Live)
  <2>1. {tid_list[i] : i \in Used} = Live
    BY DEF CountersExact, Used
  <2>2. f \in [Used -> Live] /\ \A w \in Live : \E i \in Used : f[i] = w
    BY <2>1
  <2>3. \A i, j \in Used : f[i] = f[j] => i = j
    BY DEF CountersExact, Used
  <2> HIDE DEF f
  <2>. QED
    BY <2>2, <2>3 DEF Surjection, Injection, IsInjective
<1>2. IsFiniteSet(Live) /\ Cardinality(Live) = Cardinality(Used)
  BY <1>1, SlotsFinite, FS_Surjection
<1>3. Busy \in SUBSET Live
  BY DEF Busy, Live, At
<1>4. IsFiniteSet(Busy) /\ Cardinality(Busy) <= Cardinality(Live)
  BY <1>2, <1>3, FS_Subset
<1>5. Cardinality(Busy) \in Nat /\ Cardinality(Used) \in Nat
  BY <1>4, FS_CardinalityType, SlotsFinite
<1>. QED
  BY <1>2, <1>4, <1>5 DEF CountersExact, Used

(* The counts are within the limits of the pool.                           *)
LEMMA CountersBounded ==
  ASSUME CountersExact
  PROVE  cur_thread_cnt \in 0 .. Max /\ act_thread_cnt \in 0 .. Max
<1>1. cur_thread_cnt \in 0 .. Max
  BY SlotsFinite DEF CountersExact, Used
<1>2. act_thread_cnt \in 0 .. cur_thread_cnt
  BY LiveFinite DEF CountersExact
<1>. QED
  BY <1>1, <1>2, PoolAssumption

LEMMA IInvImplies == IInv => TypeOK /\ CountersExact /\ NoFatal
  BY CountersBounded DEF IInv, CallType, WInv, WorkType, TypeOK, NoFatal

(* A wake-up leaves the live and the busy workers as they were.            *)
LEMMA WakesKeep ==
  ASSUME wpc \in [Tids -> WorkerPlaces], wpc' = [w \in Tids |-> wpc'[w]],
         Wakes(wpc, wpc')
  PROVE  /\ wpc' \in [Tids -> WorkerPlaces] /\ Live' = Live /\ Busy' = Busy
         /\ \A w \in Tids : wpc'[w] = "run" => wpc[w] = "run"
<1>1. \A w \in Tids : wpc'[w] = wpc[w] \/ (wpc[w] = "wait" /\ wpc'[w] = "woken")
  BY DEF Wakes
<1>2. wpc' \in [Tids -> WorkerPlaces]
  BY <1>1 DEF WorkerPlaces
<1>. QED
  BY <1>1, <1>2 DEF Live, Busy, At

(* CountersExact depends on the workers through Live and Busy only.        *)
LEMMA SamePlaces ==
  ASSUME CountersExact, UNCHANGED <<tid_list, cur_thread_cnt, act_thread_cnt>>,
         Live' = Live, Busy' = Busy
  PROVE  CountersExact'
<1>1. Unused' = Unused
  BY DEF Unused
<1>. QED
  BY <1>1 DEF CountersExact

LEMMA SameQueue ==
  ASSUME QueueOK, task_queue' = task_queue
  PROVE  QueueOK'
  BY DEF QueueOK, RingOK, Contents, Slot

(***************************************************************************)
(* The part of the callers and of the control thread.                      *)
(***************************************************************************)
LEMMA CallTypeNext ==
  ASSUME CallType, [Next]_vars
  PROVE  CallType'
<1> USE DEF CallType
<1>1. ASSUME NEW new \in Signalled(apc)
      PROVE  new \in [Adders -> AdderPlaces]
  <2>1. apc = [a \in Adders |-> apc[a]]
    OBVIOUS
  <2>2. new = [a \in Adders |-> new[a]] /\ Wakes(apc, new)
    BY <2>1, <1>1, SignalWakes
  <2>. QED
    BY <2>2 DEF Wakes, AdderPlaces
<1>2. Broadcast(apc) \in [Adders -> AdderPlaces]
  BY DEF Broadcast, AdderPlaces
<1>3. ASSUME NEW t \in Tasks, Entered(t)
      PROVE  created' \in 0 .. NTasks
  BY <1>3, PoolAssumption DEF Entered, Tasks
<1>4. ASSUME NEW a \in Adders, AddTask(a) \/ AddWakesSpuriously(a)
      PROVE  CallType'
  <2>1. ASSUME NEW t \in Tasks, AddWaits(a, t)
        PROVE  CallType'
    BY <2>1, <1>3 DEF AddWaits, AdderPlaces
  <2>2. ASSUME NEW t \in Tasks, AddDrops(a, t)
        PROVE  CallType'
    BY <2>2, <1>3 DEF AddDrops, AdderPlaces
  <2>3. ASSUME NEW t \in Tasks, AddEnqueues(a, t)
        PROVE  CallType'
    BY <2>3, <1>3 DEF AddEnqueues, AdderPlaces
  <2>4. CASE AddWakesSpuriously(a)
    BY <2>4 DEF AddWakesSpuriously, AdderPlaces
  <2>. QED
    BY <1>4, <2>1, <2>2, <2>3, <2>4 DEF AddTask
<1>5. ASSUME NEW w \in Tids, Worker(w) \/ WorkerWakesSpuriously(w)
      PROVE  CallType'
  <2>1. CASE WorkerTakes(w)
    BY <2>1, <1>1 DEF WorkerTakes
  <2>. QED
    BY <1>5, <2>1 DEF Worker, addVars, WorkerWaits, WorkerExits,
       WorkerFinishes, WorkerResets, WorkerWakesSpuriously
<1>6. CASE Ctrl
  <2>1. CASE CtrlCloses
    BY <2>1, <1>2 DEF CtrlCloses
  <2>. QED
    BY <1>6, <2>1 DEF Ctrl, addVars, CtrlFindsNothing, CtrlSetsShutdown,
       CtrlExits, CtrlExpands, CtrlShrinks, CtrlKeepsSize
<1>7. CASE SendSigquit
  BY <1>7 DEF SendSigquit, addVars
<1>8. CASE UNCHANGED vars
  BY <1>8 DEF vars, addVars
<1>. QED
  BY <1>4, <1>5, <1>6, <1>7, <1>8 DEF Next

(***************************************************************************)
(* The part of the workers, one lemma for each kind of step. Most steps    *)
(* leave the live and the busy workers, the queue and the tasks alone.     *)
(***************************************************************************)
LEMMA QuietStep ==
  ASSUME WInv, wpc' \in [Tids -> WorkerPlaces], Live' = Live, Busy' = Busy,
         \A w \in Tids : wpc'[w] = "run" => wpc[w] = "run",
         wait_exit_thread_cnt' \in Nat,
         UNCHANGED <<task_queue, tid_list, cur_thread_cnt, act_thread_cnt,
                     taskp, finished, fatal>>
  PROVE  WInv'
<1>1. CountersExact'
  BY SamePlaces DEF WInv
<1>2. QueueOK'
  BY SameQueue DEF WInv
<1>3. RunHolds'
  BY DEF WInv, RunHolds
<1>4. WorkType'
  BY DEF WInv, WorkType, Slots
<1>. QED
  BY <1>1, <1>2, <1>3, <1>4 DEF WInv

LEMMA EnqueueKeeps ==
  ASSUME WInv, NEW a \in Adders, NEW t \in Tasks, AddEnqueues(a, t)
  PROVE  WInv'
<1>1. wpc = [w \in Tids |-> wpc[w]] /\ wpc \in [Tids -> WorkerPlaces]
  BY DEF WInv, WorkType
<1>2. wpc' = [w \in Tids |-> wpc'[w]] /\ Wakes(wpc, wpc')
  BY <1>1, SignalWakes DEF AddEnqueues
<1>3. /\ wpc' \in [Tids -> WorkerPlaces] /\ Live' = Live /\ Busy' = Busy
      /\ \A w \in Tids : wpc'[w] = "run" => wpc[w] = "run"
  BY <1>1, <1>2, WakesKeep
<1>4. UNCHANGED <<tid_list, cur_thread_cnt, act_thread_cnt,
                  wait_exit_thread_cnt, taskp, finished, fatal>>
  BY DEF AddEnqueues, counters
<1>5. CountersExact'
  BY <1>3, <1>4, SamePlaces DEF WInv
<1>6. task_queue' \in Rings(Tasks \cup {INDET}, 2 * Max) /\ QueueOK'
  <2>1. 2 * Max \in Nat \ {0} /\ t \in Tasks \cup {INDET}
    BY PoolAssumption
  <2>2. /\ task_queue \in Rings(Tasks \cup {INDET}, 2 * Max)
        /\ RingOK(task_queue) /\ queue_is_not_full(task_queue)
        /\ Contents(task_queue) \in Seq(Tasks)
        /\ task_queue' = queue_push(task_queue, t)
    BY DEF WInv, WorkType, QueueOK, AddEnqueues
  <2>3. /\ task_queue' \in Rings(Tasks \cup {INDET}, 2 * Max)
        /\ RingOK(task_queue')
        /\ Contents(task_queue') = Append(Contents(task_queue), t)
    BY <2>1, <2>2, PushAppends
  <2>4. Contents(task_queue)' = Contents(task_queue')
    BY DEF Contents, Slot
  <2>5. Contents(task_queue') \in Seq(Tasks)
    BY <2>2, <2>3
  <2>. QED
    BY <2>3, <2>4, <2>5 DEF QueueOK, RingOK
<1>7. WorkType'
  BY <1>3, <1>4, <1>6 DEF WInv, WorkType, Slots
<1>8. RunHolds'
  BY <1>3, <1>4 DEF WInv, RunHolds
<1>. QED
  BY <1>4, <1>5, <1>6, <1>7, <1>8 DEF WInv

LEMMA TakesKeeps ==
  ASSUME WInv, NEW w \in Tids, WorkerTakes(w)
  PROVE  WInv'
<1>1. ~queue_is_empty(task_queue)
  BY DEF WorkerTakes, MustWait, MustExit
<1>2. /\ wpc' = [wpc EXCEPT ![w] = "run"] /\ wpc[w] \in {"ready", "woken"}
      /\ act_thread_cnt' = act_thread_cnt + 1
      /\ taskp' = [taskp EXCEPT ![w] = queue_front(task_queue)]
      /\ task_queue' = queue_pop(task_queue)
      /\ UNCHANGED <<tid_list, cur_thread_cnt, wait_exit_thread_cnt, finished>>
      /\ fatal' = FALSE
  BY <1>1 DEF WorkerTakes, InSection, WInv
<1>3. /\ task_queue \in Rings(Tasks \cup {INDET}, 2 * Max)
      /\ RingOK(task_queue) /\ Contents(task_queue) \in Seq(Tasks)
      /\ wpc \in [Tids -> WorkerPlaces] /\ taskp \in [Tids -> Tasks \cup {NULL}]
  BY DEF WInv, WorkType, QueueOK
<1>4. 2 * Max \in Nat \ {0}
  BY PoolAssumption
<1>5. /\ task_queue' \in Rings(Tasks \cup {INDET}, 2 * Max)
      /\ RingOK(task_queue')
      /\ Contents(task_queue) # <<>>
      /\ queue_front(task_queue) = Head(Contents(task_queue))
      /\ Contents(task_queue') = Tail(Contents(task_queue))
  BY <1>1, <1>2, <1>3, <1>4, PopTakesHead
<1>6. queue_front(task_queue) \in Tasks /\ Contents(task_queue') \in Seq(Tasks)
  BY <1>3, <1>5, HeadTailProperties
<1>7. QueueOK'
  <2>1. Contents(task_queue)' = Contents(task_queue')
    BY DEF Contents, Slot
  <2>. QED
    BY <1>5, <1>6, <2>1 DEF QueueOK, RingOK
<1>8. wpc' \in [Tids -> WorkerPlaces] /\ taskp' \in [Tids -> Tasks \cup {NULL}]
  BY <1>2, <1>3, <1>6 DEF WorkerPlaces
<1>9. WorkType'
  BY <1>2, <1>5, <1>8 DEF WInv, WorkType, Slots
<1>10. RunHolds'
  BY <1>2, <1>3, <1>6 DEF WInv, RunHolds
<1>11. CountersExact'
  <2>1. Live' = Live /\ Busy' = Busy \cup {w} /\ w \notin Busy
    BY <1>2, <1>3 DEF Live, Busy, At
  <2>2. Cardinality(Busy') = Cardinality(Busy) + 1
    BY <2>1, LiveFinite, FS_AddElement DEF WInv
  <2>3. Unused' = Unused
    BY <1>2 DEF Unused
  <2>. QED
    BY <1>2, <2>1, <2>2, <2>3 DEF WInv, CountersExact
<1>. QED
  BY <1>2, <1>7, <1>9, <1>10, <1>11 DEF WInv

LEMMA FinishesKeeps ==
  ASSUME WInv, NEW w \in Tids, WorkerFinishes(w)
  PROVE  WInv'
<1>1. /\ wpc[w] = "run" /\ wpc' = [wpc EXCEPT ![w] = "reset"]
      /\ finished' = finished \cup {taskp[w]}
      /\ taskp' = [taskp EXCEPT ![w] = NULL]
      /\ UNCHANGED <<task_queue, tid_list, cur_thread_cnt, act_thread_cnt,
                     wait_exit_thread_cnt, fatal>>
  BY DEF WorkerFinishes, counters
<1>2. wpc \in [Tids -> WorkerPlaces] /\ taskp \in [Tids -> Tasks \cup {NULL}]
  BY DEF WInv, WorkType
<1>3. taskp[w] \in Tasks
  BY <1>1 DEF WInv, RunHolds
<1>4. wpc' \in [Tids -> WorkerPlaces] /\ taskp' \in [Tids -> Tasks \cup {NULL}]
  BY <1>1, <1>2 DEF WorkerPlaces
<1>5. WorkType'
  BY <1>1, <1>3, <1>4 DEF WInv, WorkType, Slots
<1>6. RunHolds'
  BY <1>1, <1>2 DEF WInv, RunHolds
<1>7. Live' = Live /\ Busy' = Busy
  BY <1>1, <1>2 DEF Live, Busy, At
<1>8. CountersExact'
  BY <1>1, <1>7, SamePlaces DEF WInv
<1>9. QueueOK'
  BY <1>1, SameQueue DEF WInv
<1>. QED
  BY <1>1, <1>5, <1>6, <1>8, <1>9 DEF WInv

LEMMA ResetsKeeps ==
  ASSUME WInv, NEW w \in Tids, WorkerResets(w)
  PROVE  WInv'
<1>1. /\ wpc[w] = "reset" /\ wpc' = [wpc EXCEPT ![w] = "ready"]
      /\ act_thread_cnt' = act_thread_cnt - 1
      /\ UNCHANGED <<task_queue, tid_list, cur_thread_cnt,
                     wait_exit_thread_cnt, taskp, finished, fatal>>
  BY DEF WorkerResets
<1>2. wpc \in [Tids -> WorkerPlaces]
  BY DEF WInv, WorkType
<1>3. wpc' \in [Tids -> WorkerPlaces]
  BY <1>1, <1>2 DEF WorkerPlaces
<1>4. WorkType'
  BY <1>1, <1>3 DEF WInv, WorkType, Slots
<1>5. RunHolds'
  BY <1>1, <1>2 DEF WInv, RunHolds
<1>6. CountersExact'
  <2>1. Live' = Live /\ Busy' = Busy \ {w} /\ w \in Busy
    BY <1>1, <1>2 DEF Live, Busy, At
  <2>2. Cardinality(Busy') = Cardinality(Busy) - 1
    BY <2>1, LiveFinite, FS_RemoveElement DEF WInv
  <2>3. Unused' = Unused
    BY <1>1 DEF Unused
  <2>. QED
    BY <1>1, <2>1, <2>2, <2>3 DEF WInv, CountersExact
<1>7. QueueOK'
  BY <1>1, SameQueue DEF WInv
<1>. QED
  BY <1>1, <1>4, <1>5, <1>6, <1>7 DEF WInv

(* The entry a live worker finds is its own, and the only one it has.      *)
LEMMA FindsOwnIdx ==
  ASSUME CountersExact, NEW w \in Live
  PROVE  /\ FindTidIdx(w) \in Used /\ tid_list[FindTidIdx(w)] = w
         /\ \A i \in Used : tid_list[i] = w => i = FindTidIdx(w)
<1>1. \E i \in Used : tid_list[i] = w
  BY DEF CountersExact, Used
<1>2. FindTidIdx(w) \in Slots /\ tid_list[FindTidIdx(w)] = w
  BY <1>1 DEF FindTidIdx, Used
<1>3. w # NoTid
  BY PoolAssumption DEF Live
<1>4. FindTidIdx(w) \in Used
  BY <1>2, <1>3 DEF Used, Unused
<1>. QED
  BY <1>2, <1>4 DEF CountersExact, Used

LEMMA ExitsKeeps ==
  ASSUME WInv, NEW w \in Tids, WorkerExits(w)
  PROVE  WInv'
<1> DEFINE k == FindTidIdx(w)
<1>1. /\ wpc[w] \in {"ready", "woken"} /\ wpc' = [wpc EXCEPT ![w] = "none"]
      /\ tid_list' = [tid_list EXCEPT ![k] = NoTid]
      /\ cur_thread_cnt' = cur_thread_cnt - 1
      /\ fatal' = (fatal \/ k = -1)
      /\ wait_exit_thread_cnt' =
           IF wait_exit_thread_cnt # 0 THEN wait_exit_thread_cnt - 1 ELSE 0
      /\ UNCHANGED <<task_queue, act_thread_cnt, taskp, finished>>
  BY DEF WorkerExits, InSection
<1>2. /\ wpc \in [Tids -> WorkerPlaces] /\ fatal = FALSE /\ CountersExact
      /\ tid_list \in [Slots -> Tids \cup {NoTid}] /\ wait_exit_thread_cnt \in Nat
  BY DEF WInv, WorkType
<1>3. w \in Live /\ w \notin Busy
  BY <1>1, <1>2 DEF Live, Busy, At
<1>4. /\ k \in Used /\ tid_list[k] = w
      /\ \A i \in Used : tid_list[i] = w => i = k
  BY <1>2, <1>3, FindsOwnIdx
<1>5. fatal' = FALSE
  <2>1. k # -1
    BY <1>4 DEF Used, Slots
  <2>. QED
    BY <1>1, <1>2, <2>1
<1> HIDE DEF k
<1>6. Live' = Live \ {w} /\ Busy' = Busy
  BY <1>1, <1>2, <1>3 DEF Live, Busy, At
<1>7. Used' = Used \ {k} /\ \A i \in Used' : tid_list'[i] = tid_list[i]
  BY <1>1, <1>2, <1>4, PoolAssumption DEF Used, Unused, Slots
<1>8. CountersExact'
  <2>1. cur_thread_cnt' = Cardinality(Used')
    BY <1>1, <1>2, <1>4, <1>7, SlotsFinite, FS_RemoveElement DEF CountersExact, Used
  <2>2. act_thread_cnt' = Cardinality(Busy')
    BY <1>1, <1>2, <1>6 DEF CountersExact
  <2>3. {tid_list[i] : i \in Used} = Live
    BY <1>2 DEF CountersExact, Used
  <2>4. {tid_list'[i] : i \in Used'} = Live'
    BY <1>4, <1>6, <1>7, <2>3
  <2>5. \A i, j \in Used' : tid_list'[i] = tid_list'[j] => i = j
    BY <1>2, <1>7 DEF CountersExact, Used
  <2>. QED
    BY <2>1, <2>2, <2>4, <2>5 DEF CountersExact, Used
<1>9. WorkType'
  <2>1. wpc' \in [Tids -> WorkerPlaces]
    BY <1>1, <1>2 DEF WorkerPlaces
  <2>2. tid_list' \in [Slots -> Tids \cup {NoTid}]
    BY <1>1, <1>2
  <2>3. wait_exit_thread_cnt' \in Nat
    BY <1>1, <1>2
  <2>. QED
    BY <1>1, <2>1, <2>2, <2>3 DEF WInv, WorkType, Slots
<1>10. RunHolds'
  BY <1>1, <1>2 DEF WInv, RunHolds
<1>11. QueueOK'
  BY <1>1, SameQueue DEF WInv
<1>. QED
  BY <1>5, <1>8, <1>9, <1>10, <1>11 DEF WInv

LEMMA ExpandsKeeps ==
  ASSUME WInv, CtrlExpands
  PROVE  WInv'
<1> DEFINE new == FirstUnused(ExpandStrategy)
<1>1. PICK tid \in [new -> At("none")] :
        /\ \A i, j \in new : tid[i] = tid[j] => i = j
        /\ tid_list' = [i \in Slots |->
                          IF i \in new THEN tid[i] ELSE tid_list[i]]
        /\ cur_thread_cnt' = cur_thread_cnt + Cardinality(new)
        /\ wait_exit_thread_cnt' = wait_exit_thread_cnt
        /\ wpc' = WakeForExit([w \in Tids |->
                     IF \E i \in new : tid[i] = w THEN "ready" ELSE wpc[w]])
  BY DEF CtrlExpands
<1>2. UNCHANGED <<task_queue, act_thread_cnt, taskp, finished, fatal>>
  BY DEF CtrlExpands
<1>3. new \in SUBSET Unused
  BY DEF FirstUnused
<1> HIDE DEF new
<1>4. /\ wpc \in [Tids -> WorkerPlaces] /\ CountersExact
      /\ tid_list \in [Slots -> Tids \cup {NoTid}] /\ wait_exit_thread_cnt \in Nat
  BY DEF WInv, WorkType
<1> DEFINE born == {tid[i] : i \in new}
           mid == [w \in Tids |-> IF w \in born THEN "ready" ELSE wpc[w]]
<1>5. born \in SUBSET At("none") /\ \A w \in born : wpc[w] = "none" /\ w \in Tids
  BY <1>1 DEF At
<1>6. mid \in [Tids -> WorkerPlaces] /\ mid = [w \in Tids |-> mid[w]]
  BY <1>4 DEF WorkerPlaces
<1>7. mid = [w \in Tids |-> IF \E i \in new : tid[i] = w THEN "ready" ELSE wpc[w]]
  OBVIOUS
<1>8. \A w \in Tids : mid[w] = (IF w \in born THEN "ready" ELSE wpc[w])
  OBVIOUS
<1> HIDE DEF mid
<1>9. wpc' = [w \in Tids |-> wpc'[w]] /\ Wakes(mid, wpc')
  <2>1. wpc' = mid \/ wpc' = Broadcast(mid)
    BY <1>1, <1>7 DEF WakeForExit
  <2>2. Wakes(mid, mid)
    BY DEF Wakes
  <2>. QED
    BY <1>6, <2>1, <2>2, BroadcastWakes
<1>10. \A w \in Tids : wpc'[w] = mid[w] \/ (mid[w] = "wait" /\ wpc'[w] = "woken")
  BY <1>6, <1>9 DEF Wakes
<1>11. wpc' \in [Tids -> WorkerPlaces]
  BY <1>6, <1>9, <1>10 DEF WorkerPlaces
<1> HIDE DEF born
<1>12. Live' = Live \cup born /\ Busy' = Busy /\ Live \cap born = {}
  BY <1>4, <1>5, <1>8, <1>10, <1>11 DEF Live, Busy, At
<1>13. Used' = Used \cup new /\ Used \cap new = {}
  BY <1>1, <1>3, <1>4, <1>5, PoolAssumption DEF Used, Unused, At, Slots, born
<1>14. \A i \in Used' : tid_list'[i] = (IF i \in new THEN tid[i] ELSE tid_list[i])
  BY <1>1 DEF Used, Slots
<1>15. CountersExact'
  <2>1. IsFiniteSet(new) /\ Cardinality(Used') = Cardinality(Used) + Cardinality(new)
    <3>1. IsFiniteSet(new)
      BY <1>3, SlotsFinite, FS_Subset DEF Unused
    <3>2. Cardinality(Used \cap new) = 0
      BY <1>13, FS_EmptySet
    <3>3. Cardinality(Used) \in Nat /\ Cardinality(new) \in Nat
      BY <3>1, SlotsFinite, FS_CardinalityType
    <3>4. Cardinality(Used \cup new)
            = Cardinality(Used) + Cardinality(new) - Cardinality(Used \cap new)
      BY <3>1, SlotsFinite, FS_Union
    <3>. QED
      BY <1>13, <3>1, <3>2, <3>3, <3>4
  <2>2. cur_thread_cnt' = Cardinality(Used')
    BY <1>1, <1>4, <2>1 DEF CountersExact, Used
  <2>3. act_thread_cnt' = Cardinality(Busy')
    BY <1>2, <1>4, <1>12 DEF CountersExact
  <2>4. {tid_list[i] : i \in Used} = Live
    BY <1>4 DEF CountersExact, Used
  <2>5. {tid_list'[i] : i \in Used'} = Live'
    <3>1. ASSUME NEW i \in Used'
          PROVE  tid_list'[i] \in Live'
      BY <1>12, <1>13, <1>14, <2>4 DEF born
    <3>2. ASSUME NEW w \in Live'
          PROVE  \E i \in Used' : tid_list'[i] = w
      <4>1. CASE w \in Live
        <5>1. PICK i \in Used : tid_list[i] = w
          BY <2>4, <4>1
        <5>. QED
          BY <1>13, <1>14, <5>1
      <4>2. CASE w \in born
        <5>1. PICK i \in new : tid[i] = w
          BY <4>2 DEF born
        <5>. QED
          BY <1>13, <1>14, <5>1
      <4>. QED
        BY <1>12, <3>2, <4>1, <4>2
    <3>. QED
      BY <3>1, <3>2
  <2>6. ASSUME NEW i \in Used', NEW j \in Used', tid_list'[i] = tid_list'[j]
        PROVE  i = j
    <3>1. CASE i \in new /\ j \in new
      BY <1>1, <1>14, <2>6, <3>1
    <3>2. CASE i \notin new /\ j \notin new
      BY <1>4, <1>13, <1>14, <2>6, <3>2 DEF CountersExact, Used
    <3>3. CASE i \in new /\ j \notin new
      <4>1. tid_list'[i] \in born /\ tid_list'[j] \in Live
        BY <1>13, <1>14, <2>4, <3>3 DEF born
      <4>. QED
        BY <4>1, <1>12, <2>6
    <3>4. CASE i \notin new /\ j \in new
      <4>1. tid_list'[j] \in born /\ tid_list'[i] \in Live
        BY <1>13, <1>14, <2>4, <3>4 DEF born
      <4>. QED
        BY <4>1, <1>12, <2>6
    <3>. QED
      BY <3>1, <3>2, <3>3, <3>4
  <2>. QED
    BY <2>2, <2>3, <2>5, <2>6 DEF CountersExact, Used
<1>16. WorkType'
  <2>1. tid_list' \in [Slots -> Tids \cup {NoTid}]
    BY <1>1, <1>4 DEF At
  <2>. QED
    BY <1>1, <1>2, <1>4, <1>11, <2>1 DEF WInv, WorkType, Slots
<1>17. RunHolds'
  BY <1>2, <1>8, <1>10 DEF WInv, RunHolds
<1>18. QueueOK'
  BY <1>2, SameQueue DEF WInv
<1>. QED
  BY <1>2, <1>15, <1>16, <1>17, <1>18 DEF WInv

LEMMA WInvNext ==
  ASSUME IInv, [Next]_vars
  PROVE  WInv'
<1> USE DEF IInv
<1>0. /\ wpc = [w \in Tids |-> wpc[w]] /\ wpc \in [Tids -> WorkerPlaces]
      /\ wait_exit_thread_cnt \in Nat /\ CountersExact
  BY DEF WInv, WorkType
<1>a. ASSUME wpc' = wpc,
             UNCHANGED <<task_queue, tid_list, counters, taskp, finished, fatal>>
      PROVE  WInv'
  BY <1>0, <1>a, QuietStep DEF counters, Live, Busy, At
<1>b. ASSUME wpc' = WakeForExit(wpc), wait_exit_thread_cnt' \in Nat,
             UNCHANGED <<task_queue, tid_list, cur_thread_cnt, act_thread_cnt,
                         taskp, finished, fatal>>
      PROVE  WInv'
  <2>1. Wakes(wpc, wpc)
    BY DEF Wakes
  <2>2. wpc' = [w \in Tids |-> wpc'[w]] /\ Wakes(wpc, wpc')
    BY <1>0, <1>b, <2>1, BroadcastWakes DEF WakeForExit
  <2>. QED
    BY <1>0, <1>b, <2>2, WakesKeep, QuietStep
<1>1. ASSUME NEW a \in Adders, AddTask(a) \/ AddWakesSpuriously(a)
      PROVE  WInv'
  <2>1. ASSUME NEW t \in Tasks, AddWaits(a, t) \/ AddDrops(a, t)
        PROVE  WInv'
    BY <1>a, <2>1 DEF AddWaits, AddDrops
  <2>2. ASSUME NEW t \in Tasks, AddEnqueues(a, t)
        PROVE  WInv'
    BY <2>2, EnqueueKeeps
  <2>3. CASE AddWakesSpuriously(a)
    BY <1>a, <2>3 DEF AddWakesSpuriously
  <2>. QED
    BY <1>1, <2>1, <2>2, <2>3 DEF AddTask
<1>2. ASSUME NEW w \in Tids, Worker(w)
      PROVE  WInv'
  <2>1. CASE WorkerWaits(w)
    <3>1. /\ wpc[w] \in {"ready", "woken"} /\ wpc' = [wpc EXCEPT ![w] = "wait"]
          /\ UNCHANGED <<task_queue, tid_list, counters, taskp, finished, fatal>>
      BY <2>1 DEF WorkerWaits, InSection
    <3>2. /\ wpc' \in [Tids -> WorkerPlaces] /\ Live' = Live /\ Busy' = Busy
          /\ \A v \in Tids : wpc'[v] = "run" => wpc[v] = "run"
      BY <1>0, <3>1 DEF WorkerPlaces, Live, Busy, At
    <3>. QED
      BY <1>0, <3>1, <3>2, QuietStep DEF counters
  <2>. QED
    BY <1>2, <2>1, ExitsKeeps, TakesKeeps, FinishesKeeps, ResetsKeeps DEF Worker
<1>3. ASSUME NEW w \in Tids, WorkerWakesSpuriously(w)
      PROVE  WInv'
  <2>1. /\ wpc[w] = "wait" /\ wpc' = [wpc EXCEPT ![w] = "woken"]
        /\ UNCHANGED <<task_queue, tid_list, counters, taskp, finished, fatal>>
    BY <1>3 DEF WorkerWakesSpuriously
  <2>2. /\ wpc' \in [Tids -> WorkerPlaces] /\ Live' = Live /\ Busy' = Busy
        /\ \A v \in Tids : wpc'[v] = "run" => wpc[v] = "run"
    BY <1>0, <2>1 DEF WorkerPlaces, Live, Busy, At
  <2>. QED
    BY <1>0, <2>1, <2>2, QuietStep DEF counters
<1>4. CASE Ctrl
  <2>1. CASE CtrlFindsNothing \/ CtrlSetsShutdown \/ CtrlExits
    BY <1>a, <2>1 DEF CtrlFindsNothing, CtrlSetsShutdown, CtrlExits
  <2>2. CASE CtrlShrinks
    <3>1. ShrinkStrategy \in Nat
      BY CountersBounded, PoolAssumption, <1>0 DEF ShrinkStrategy
    <3>2. wait_exit_thread_cnt' \in Nat
      BY <1>0, <2>2, <3>1 DEF CtrlShrinks
    <3>. QED
      BY <1>b, <2>2, <3>2 DEF CtrlShrinks
  <2>3. CASE CtrlKeepsSize
    BY <1>0, <1>b, <2>3 DEF CtrlKeepsSize
  <2>4. CASE CtrlCloses
    <3>1. wait_exit_thread_cnt' \in Nat
      BY <1>0, <2>4, CountersBounded DEF CtrlCloses
    <3>. QED
      BY <1>b, <2>4, <3>1 DEF CtrlCloses
  <2>. QED
    BY <1>4, <2>1, <2>2, <2>3, <2>4, ExpandsKeeps DEF Ctrl
<1>5. CASE SendSigquit
  BY <1>a, <1>5 DEF SendSigquit
<1>6. CASE UNCHANGED vars
  BY <1>a, <1>6 DEF vars
<1>. QED
  BY <1>1, <1>2, <1>3, <1>4, <1>5, <1>6 DEF Next

LEMMA IInvInit == Init => IInv
<1> SUFFICES ASSUME Init
             PROVE  IInv
  OBVIOUS
<1> USE DEF Init
<1>1. CallType
  <2>1. /\ apc \in [Adders -> AdderPlaces] /\ atask \in [Adders -> Tasks \cup {NULL}]
        /\ shutdown_flag = FALSE /\ sigquit = FALSE /\ ctrl = "sleep" /\ created = 0
    BY DEF AdderPlaces
  <2>2. 0 \in 0 .. NTasks
    BY PoolAssumption
  <2> USE ONLY <2>1, <2>2
  <2>. QED
    BY DEF CallType
<1>2. 2 * Max \in Nat \ {0} /\ Min \in 1 .. Max
  BY PoolAssumption
<1>3. /\ task_queue \in Rings(Tasks \cup {INDET}, 2 * Max)
      /\ RingOK(task_queue) /\ Contents(task_queue) = <<>>
  <2> DEFINE n == 2 * Max
             Vals == Tasks \cup {INDET}
  <2>1. task_queue = queue_init(n) /\ n \in Nat \ {0} /\ INDET \in Vals
    BY <1>2
  <2> HIDE DEF n, Vals
  <2>2. /\ task_queue \in Rings(Vals, n)
        /\ RingOK(task_queue) /\ Contents(task_queue) = <<>>
    BY <2>1, FreshRing
  <2>. QED
    BY <2>2 DEF n, Vals
<1>4. QueueOK
  BY <1>3, EmptySeq DEF QueueOK
<1>5. wpc \in [Tids -> WorkerPlaces] /\ \A w \in Tids : wpc[w] \in {"none", "ready"}
  BY DEF WorkerPlaces
<1>6. WorkType
  BY <1>3, <1>5 DEF WorkType
<1>7. RunHolds
  BY <1>5 DEF RunHolds
<1>8. Used = 0 .. Min - 1
  BY <1>2, PoolAssumption DEF Used, Unused, Slots
<1>9. Live = {w \in Tids : \E i \in Slots : tid_list[i] = w} /\ Busy = {}
  BY DEF Live, Busy, At
<1>10. CountersExact
  <2>1. Cardinality(Used) = Min
    BY <1>2, <1>8, FS_Interval
  <2>2. Cardinality(Busy) = 0
    BY <1>9, FS_EmptySet
  <2>3. {tid_list[i] : i \in Used} = Live
    BY <1>9, PoolAssumption DEF Used, Unused
  <2>4. \A i, j \in Used : tid_list[i] = tid_list[j] => i = j
    BY <1>8
  <2>. QED
    BY <2>1, <2>2, <2>3, <2>4 DEF CountersExact, Used
<1>. QED
  BY <1>1, <1>4, <1>6, <1>7, <1>10 DEF IInv, WInv

LEMMA IInvNext == IInv /\ [Next]_vars => IInv'
  BY CallTypeNext, WInvNext DEF IInv

LEMMA IInvAlways == Spec => []IInv
  BY IInvInit, IInvNext, PTL DEF Spec

(***************************************************************************)
(* The struct of the pool keeps its type, counters within the limits       *)
(* thread_pool_init was given included, for pools of every size.           *)
(***************************************************************************)
THEOREM PoolTypeOK == Spec => []TypeOK
  BY IInvAlways, IInvImplies, PTL

(***************************************************************************)
(* At every unlock the counters of the pool and its list of thread ids     *)
(* agree with the threads there are.                                       *)
(***************************************************************************)
THEOREM PoolCountersExact == Spec => []CountersExact
  BY IInvAlways, IInvImplies, PTL

(***************************************************************************)
(* No worker reaches the exits of the process in work_thread_handler.      *)
(***************************************************************************)
THEOREM PoolNoFatal == Spec => []NoFatal
  BY IInvAlways, IInvImplies, PTL

-----------------------------------------------------------------------------
(* The tasks in the queue, and those of callers that wait.                 *)
QueuedTasks == {Queued[i] : i \in DOMAIN Queued}
Held == {a \in Adders : apc[a] # "idle"}
HeldTasks == {atask[a] : a \in Held}

(* A task is in one place at a time, and in one copy.                      *)
Single ==
  /\ \A i, j \in DOMAIN Queued : Queued[i] = Queued[j] => i = j
  /\ \A v, w \in At("run") : taskp[v] = taskp[w] => v = w
  /\ \A a, b \in Held : atask[a] = atask[b] => a = b

Disjoint ==
  /\ QueuedTasks \cap Running = {} /\ QueuedTasks \cap HeldTasks = {}
  /\ Running \cap HeldTasks = {}
  /\ finished \cap (QueuedTasks \cup Running \cup HeldTasks) = {}

(* Those not created yet are nowhere.                                      *)
Created == QueuedTasks \cup Running \cup HeldTasks \cup finished \subseteq 1 .. created

Apart == Single /\ Disjoint /\ Created

-----------------------------------------------------------------------------
(* What the actions do to the contents of the queue.                       *)
LEMMA QueueFacts ==
  ASSUME IInv
  PROVE  /\ Queued \in Seq(Tasks) /\ Len(Queued) = task_queue.cur_size
         /\ task_queue.cur_size \in 0 .. 2 * Max
         /\ queue_is_not_full(task_queue) <=> Len(Queued) < 2 * Max
         /\ queue_is_empty(task_queue) <=> Queued = <<>>
<1>1. /\ task_queue \in Rings(Tasks \cup {INDET}, 2 * Max)
      /\ Contents(task_queue) \in Seq(Tasks)
  BY DEF IInv, WInv, WorkType, QueueOK
<1>2. task_queue.cur_size \in 0 .. 2 * Max /\ task_queue.max_size = 2 * Max
  BY <1>1 DEF Rings
<1>3. 2 * Max \in Nat \ {0}
  BY PoolAssumption
<1> DEFINE n == 2 * Max
<1> HIDE DEF n
<1>4. Len(Contents(task_queue)) = task_queue.cur_size
  <2>1. /\ task_queue \in Rings(Tasks \cup {INDET}, n) /\ n \in Nat \ {0}
        /\ task_queue.cur_size \in 0 .. n
    BY <1>1, <1>2, <1>3 DEF n
  <2>. QED
    BY <2>1, ContentsIs
<1>5. Contents(task_queue) = <<>> <=> Len(Contents(task_queue)) = 0
  BY <1>1
<1>. QED
  BY <1>1, <1>2, <1>4, <1>5 DEF Queued, queue_is_not_full, queue_is_empty

(* add_task appends its task to a queue that is not full.                  *)
LEMMA EnqueueAppends ==
  ASSUME IInv, NEW a \in Adders, NEW t \in Tasks, AddEnqueues(a, t)
  PROVE  Queued' = Append(Queued, t) /\ Len(Queued) < 2 * Max
<1>1. /\ task_queue \in Rings(Tasks \cup {INDET}, 2 * Max)
      /\ RingOK(task_queue) /\ queue_is_not_full(task_queue)
      /\ task_queue' = queue_push(task_queue, t)
  BY DEF IInv, WInv, WorkType, QueueOK, AddEnqueues
<1>2. 2 * Max \in Nat \ {0} /\ t \in Tasks \cup {INDET}
  BY PoolAssumption
<1>3. /\ Contents(task_queue') = Append(Contents(task_queue), t)
      /\ Len(Contents(task_queue)) < 2 * Max
  BY <1>1, <1>2, PushAppends
<1>. QED
  BY <1>3 DEF Queued, Contents, Slot

(* A worker takes the first task of the queue, at no exit and no shutdown. *)
LEMMA TakesFirst ==
  ASSUME IInv, NEW w \in Tids, WorkerTakes(w)
  PROVE  /\ Queued # <<>> /\ Queued' = Tail(Queued)
         /\ wpc[w] \in {"ready", "woken"} /\ wpc' = [wpc EXCEPT ![w] = "run"]
         /\ taskp' = [taskp EXCEPT ![w] = Head(Queued)]
         /\ shutdown_flag = FALSE /\ wait_exit_thread_cnt = 0
         /\ apc' \in Signalled(apc)
         /\ UNCHANGED <<wait_exit_thread_cnt, shutdown_flag, atask, created, finished>>
<1>1. ~queue_is_empty(task_queue) /\ shutdown_flag = FALSE /\ wait_exit_thread_cnt = 0
  BY DEF WorkerTakes, MustWait, MustExit, IInv, CallType
<1>2. /\ task_queue \in Rings(Tasks \cup {INDET}, 2 * Max) /\ RingOK(task_queue)
      /\ 2 * Max \in Nat \ {0}
  BY PoolAssumption DEF IInv, WInv, WorkType, QueueOK
<1>3. /\ Contents(task_queue) # <<>>
      /\ queue_front(task_queue) = Head(Contents(task_queue))
      /\ Contents(queue_pop(task_queue)) = Tail(Contents(task_queue))
  BY <1>1, <1>2, PopTakesHead
<1>4. /\ task_queue' = queue_pop(task_queue)
      /\ wpc[w] \in {"ready", "woken"} /\ wpc' = [wpc EXCEPT ![w] = "run"]
      /\ taskp' = [taskp EXCEPT ![w] = queue_front(task_queue)]
      /\ apc' \in Signalled(apc)
      /\ UNCHANGED <<wait_exit_thread_cnt, shutdown_flag, atask, created, finished>>
  BY DEF WorkerTakes, InSection
<1>5. Queued' = Contents(task_queue')
  BY DEF Queued, Contents, Slot
<1>. QED
  BY <1>1, <1>3, <1>4, <1>5 DEF Queued

(* What the queue holds depends on the queue alone.                        *)
LEMMA SameContents ==
  ASSUME task_queue' = task_queue
  PROVE  Queued' = Queued /\ QueuedTasks' = QueuedTasks
  BY DEF Queued, QueuedTasks, Contents, Slot

-----------------------------------------------------------------------------
(* Most steps move no task: a caller may give its own up, or create one    *)
(* that it drops.                                                          *)
LEMMA ApartKept ==
  ASSUME IInv, Apart, task_queue' = task_queue, finished' = finished,
         At("run")' = At("run"), \A w \in At("run") : taskp'[w] = taskp[w],
         Held' \in SUBSET Held, \A a \in Held' : atask'[a] = atask[a],
         created' \in Nat, created <= created'
  PROVE  Apart' /\ Running' = Running
<1>1. Queued' = Queued /\ QueuedTasks' = QueuedTasks
  BY SameContents
<1>2. Running' = Running
  BY DEF Running
<1>3. HeldTasks' \in SUBSET HeldTasks
  BY DEF HeldTasks
<1>4. 1 .. created \in SUBSET (1 .. created')
  BY DEF IInv, CallType
<1>5. Single'
  BY <1>1 DEF Apart, Single
<1>6. Disjoint'
  BY <1>1, <1>2, <1>3 DEF Apart, Disjoint
<1>7. Created'
  BY <1>1, <1>2, <1>3, <1>4 DEF Apart, Created
<1>. QED
  BY <1>2, <1>5, <1>6, <1>7 DEF Apart

(* The task a caller enters with is its own, or a new one.                 *)
LEMMA EntersOwn ==
  ASSUME IInv, Apart, NEW a \in Adders, NEW t \in Tasks, EntersWith(a, t), Entered(t)
  PROVE  /\ t \notin QueuedTasks \cup Running \cup finished
         /\ \A b \in Held \ {a} : atask[b] # t
         /\ t \in 1 .. created' /\ created' \in Nat /\ created <= created'
<1>1. created \in Nat /\ t \in Nat \ {0}
  BY PoolAssumption DEF IInv, CallType, Tasks
<1>2. CASE apc[a] = "idle" /\ t = created + 1
  <2>1. t \notin 1 .. created /\ created' = t
    BY <1>1, <1>2 DEF Entered
  <2>. QED
    BY <1>1, <2>1, <1>2 DEF Apart, Created, HeldTasks
<1>3. CASE apc[a] = "woken" /\ t = atask[a]
  <2>1. a \in Held
    BY <1>3 DEF Held
  <2>2. t \in HeldTasks
    BY <1>3, <2>1 DEF HeldTasks
  <2>3. created' = created /\ t \in 1 .. created
    BY <1>1, <2>2 DEF Entered, Apart, Created
  <2>. QED
    BY <1>1, <1>3, <2>1, <2>2, <2>3 DEF Apart, Disjoint, Single
<1>. QED
  BY <1>2, <1>3 DEF EntersWith

(* A task that is offered is queued nowhere else.                          *)
LEMMA ApartAdd ==
  ASSUME IInv, Apart, NEW a \in Adders, NEW t \in Tasks
  PROVE  /\ AddWaits(a, t) => Apart' /\ Running' = Running
         /\ AddDrops(a, t) => Apart' /\ Running' = Running
         /\ AddEnqueues(a, t) => Apart' /\ Running' = Running
<1>0. /\ apc \in [Adders -> AdderPlaces] /\ atask \in [Adders -> Tasks \cup {NULL}]
      /\ wpc = [w \in Tids |-> wpc[w]] /\ created \in Nat
  BY PoolAssumption DEF IInv, CallType, WInv, WorkType
<1>1. ASSUME AddWaits(a, t)
      PROVE  Apart' /\ Running' = Running
  <2>1. /\ EntersWith(a, t) /\ Entered(t)
        /\ apc' = [apc EXCEPT ![a] = "wait"] /\ atask' = [atask EXCEPT ![a] = t]
        /\ UNCHANGED <<task_queue, wpc, taskp, finished>>
    BY <1>1 DEF AddWaits
  <2>2. Queued' = Queued /\ QueuedTasks' = QueuedTasks /\ Running' = Running
    BY <2>1, SameContents DEF Running, At
  <2>3. Held' = Held \cup {a} /\ \A b \in Held \ {a} : atask'[b] = atask[b]
    BY <1>0, <2>1 DEF Held
  <2>4. atask'[a] = t
    BY <1>0, <2>1
  <2>5. HeldTasks' \in SUBSET (HeldTasks \cup {t})
    BY <2>3, <2>4 DEF HeldTasks
  <2>6. /\ t \notin QueuedTasks \cup Running \cup finished
        /\ \A b \in Held \ {a} : atask[b] # t
        /\ t \in 1 .. created' /\ created' \in Nat /\ created <= created'
    BY <2>1, EntersOwn
  <2>7. Single'
    <3>1. \A b, c \in Held' : atask'[b] = atask'[c] => b = c
      BY <2>3, <2>4, <2>6 DEF Apart, Single
    <3>. QED
      BY <2>1, <2>2, <3>1 DEF Apart, Single, At
  <2>8. Disjoint'
    BY <2>1, <2>2, <2>5, <2>6 DEF Apart, Disjoint
  <2>9. Created'
    BY <1>0, <2>1, <2>2, <2>5, <2>6 DEF Apart, Created
  <2>. QED
    BY <2>2, <2>7, <2>8, <2>9 DEF Apart
<1>2. ASSUME AddDrops(a, t)
      PROVE  Apart' /\ Running' = Running
  <2>1. /\ EntersWith(a, t) /\ Entered(t)
        /\ apc' = [apc EXCEPT ![a] = "idle"] /\ atask' = [atask EXCEPT ![a] = NULL]
        /\ UNCHANGED <<task_queue, wpc, taskp, finished>>
    BY <1>2 DEF AddDrops
  <2>2. Held' \in SUBSET Held /\ \A b \in Held' : atask'[b] = atask[b]
    BY <1>0, <2>1 DEF Held
  <2>3. created' \in Nat /\ created <= created'
    BY <2>1, EntersOwn
  <2>. QED
    BY <2>1, <2>2, <2>3, ApartKept DEF At
<1>3. ASSUME AddEnqueues(a, t)
      PROVE  Apart' /\ Running' = Running
  <2>1. /\ EntersWith(a, t) /\ Entered(t) /\ wpc' \in Signalled(wpc)
        /\ apc' = [apc EXCEPT ![a] = "idle"] /\ atask' = [atask EXCEPT ![a] = NULL]
        /\ UNCHANGED <<taskp, finished>>
    BY <1>3 DEF AddEnqueues
  <2>2. At("run")' = At("run") /\ Running' = Running
    <3>1. wpc' = [w \in Tids |-> wpc'[w]] /\ Wakes(wpc, wpc')
      BY <1>0, <2>1, SignalWakes
    <3>. QED
      BY <2>1, <3>1 DEF Wakes, At, Running
  <2>3. /\ Queued \in Seq(Tasks) /\ Queued' = Append(Queued, t)
    BY <1>3, EnqueueAppends, QueueFacts
  <2>4. QueuedTasks' = QueuedTasks \cup {t}
    <3>1. \A i \in DOMAIN Queued' :
             Queued'[i] = IF i = Len(Queued) + 1 THEN t ELSE Queued[i]
      BY <2>3
    <3>2. DOMAIN Queued = 1 .. Len(Queued) /\ DOMAIN Queued' = 1 .. Len(Queued) + 1
      BY <2>3
    <3>3. Len(Queued) \in Nat
      BY <2>3
    <3>. QED
      BY <3>1, <3>2, <3>3 DEF QueuedTasks
  <2>5. /\ t \notin QueuedTasks \cup Running \cup finished
        /\ \A b \in Held \ {a} : atask[b] # t
        /\ t \in 1 .. created' /\ created' \in Nat /\ created <= created'
    BY <2>1, EntersOwn
  <2>6. Held' = Held \ {a} /\ \A b \in Held' : atask'[b] = atask[b]
    BY <1>0, <2>1 DEF Held
  <2>7. HeldTasks' \in SUBSET HeldTasks /\ t \notin HeldTasks'
    BY <2>5, <2>6 DEF HeldTasks
  <2>8. Single'
    <3>1. \A i, j \in DOMAIN Queued' : Queued'[i] = Queued'[j] => i = j
      BY <2>3, <2>5 DEF Apart, Single, QueuedTasks
    <3>. QED
      BY <2>1, <2>2, <2>6, <3>1 DEF Apart, Single
  <2>9. Disjoint'
    BY <2>1, <2>2, <2>4, <2>5, <2>7 DEF Apart, Disjoint
  <2>10. Created'
    <3>1. 1 .. created \in SUBSET (1 .. created')
      BY <1>0, <2>5
    <3>. QED
      BY <2>1, <2>2, <2>4, <2>5, <2>7, <3>1 DEF Apart, Created
  <2>. QED
    BY <2>2, <2>8, <2>9, <2>10 DEF Apart
<1>. QED
  BY <1>1, <1>2, <1>3

(* The task a worker takes is run by that worker alone.                    *)
LEMMA ApartTakes ==
  ASSUME IInv, Apart, NEW w \in Tids, WorkerTakes(w)
  PROVE  /\ Apart' /\ Running' = Running \cup {Head(Queued)}
         /\ At("run")' = At("run") \cup {w} /\ w \notin At("run")
<1>0. /\ apc = [a \in Adders |-> apc[a]]
      /\ wpc = [v \in Tids |-> wpc[v]] /\ taskp = [v \in Tids |-> taskp[v]]
      /\ Queued \in Seq(Tasks)
  BY QueueFacts DEF IInv, CallType, WInv, WorkType
<1>1. /\ Queued # <<>> /\ Queued' = Tail(Queued)
      /\ wpc[w] \in {"ready", "woken"} /\ wpc' = [wpc EXCEPT ![w] = "run"]
      /\ taskp' = [taskp EXCEPT ![w] = Head(Queued)]
      /\ apc' \in Signalled(apc)
      /\ UNCHANGED <<atask, created, finished>>
  BY TakesFirst
<1>2. Held' = Held
  <2>1. apc' = [a \in Adders |-> apc'[a]] /\ Wakes(apc, apc')
    BY <1>0, <1>1, SignalWakes
  <2>. QED
    BY <2>1 DEF Held, Wakes
<1>3. HeldTasks' = HeldTasks
  BY <1>1, <1>2 DEF HeldTasks
<1>4. At("run")' = At("run") \cup {w} /\ w \notin At("run")
  BY <1>0, <1>1 DEF At
<1>5. /\ \A v \in At("run") : taskp'[v] = taskp[v]
      /\ taskp'[w] = Head(Queued)
  BY <1>0, <1>1, <1>4 DEF At
<1>6. Running' = Running \cup {Head(Queued)}
  BY <1>4, <1>5 DEF Running
<1>7. /\ DOMAIN Queued' = 1 .. Len(Queued) - 1 /\ DOMAIN Queued = 1 .. Len(Queued)
      /\ Len(Queued) \in Nat \ {0}
      /\ Head(Queued) = Queued[1]
      /\ \A i \in 1 .. Len(Queued) - 1 : Queued'[i] = Queued[i + 1]
  BY <1>0, <1>1
<1>8. Head(Queued) \in QueuedTasks
  BY <1>7 DEF QueuedTasks
<1>9. QueuedTasks' = QueuedTasks \ {Head(Queued)}
  <2>1. ASSUME NEW x \in QueuedTasks'
        PROVE  x \in QueuedTasks \ {Head(Queued)}
    <3>1. PICK i \in DOMAIN Queued' : x = Queued'[i]
      BY <2>1 DEF QueuedTasks
    <3>2. i + 1 \in DOMAIN Queued /\ x = Queued[i + 1] /\ i + 1 # 1 /\ 1 \in DOMAIN Queued
      BY <1>7, <3>1
    <3>. QED
      BY <1>7, <3>2 DEF QueuedTasks, Apart, Single
  <2>2. ASSUME NEW x \in QueuedTasks \ {Head(Queued)}
        PROVE  x \in QueuedTasks'
    <3>1. PICK i \in DOMAIN Queued : x = Queued[i]
      BY <2>2 DEF QueuedTasks
    <3>2. i - 1 \in DOMAIN Queued' /\ x = Queued'[i - 1]
      BY <1>7, <2>2, <3>1
    <3>. QED
      BY <3>2 DEF QueuedTasks
  <2>. QED
    BY <2>1, <2>2
<1>10. Single'
  <2>1. \A i, j \in DOMAIN Queued' : Queued'[i] = Queued'[j] => i = j
    <3> SUFFICES ASSUME NEW i \in DOMAIN Queued', NEW j \in DOMAIN Queued',
                        Queued'[i] = Queued'[j]
                 PROVE  i = j
      OBVIOUS
    <3>1. i + 1 \in DOMAIN Queued /\ j + 1 \in DOMAIN Queued
          /\ Queued[i + 1] = Queued[j + 1]
      BY <1>7
    <3>2. i + 1 = j + 1
      BY <3>1 DEF Apart, Single
    <3>. QED
      BY <1>7, <3>2
  <2>2. \A u, v \in At("run")' : taskp'[u] = taskp'[v] => u = v
    <3>1. \A v \in At("run") : taskp[v] # Head(Queued)
      BY <1>8 DEF Apart, Disjoint, Running
    <3>. QED
      BY <1>4, <1>5, <3>1 DEF Apart, Single
  <2>. QED
    BY <1>1, <1>2, <2>1, <2>2 DEF Apart, Single
<1>11. Disjoint'
  BY <1>1, <1>3, <1>6, <1>8, <1>9 DEF Apart, Disjoint
<1>12. Created'
  BY <1>1, <1>3, <1>6, <1>8, <1>9 DEF Apart, Created
<1>. QED
  BY <1>4, <1>6, <1>10, <1>11, <1>12 DEF Apart

(* A task is finished by the worker that ran it.                           *)
LEMMA ApartFinishes ==
  ASSUME IInv, Apart, NEW w \in Tids, WorkerFinishes(w)
  PROVE  /\ Apart' /\ taskp[w] \in Running /\ Running' = Running \ {taskp[w]}
         /\ finished' = finished \cup {taskp[w]}
<1>0. wpc = [v \in Tids |-> wpc[v]] /\ taskp = [v \in Tids |-> taskp[v]]
  BY DEF IInv, WInv, WorkType
<1>1. /\ wpc[w] = "run" /\ wpc' = [wpc EXCEPT ![w] = "reset"]
      /\ finished' = finished \cup {taskp[w]}
      /\ taskp' = [taskp EXCEPT ![w] = NULL]
      /\ UNCHANGED <<task_queue, apc, atask, created>>
  BY DEF WorkerFinishes, addVars
<1>2. Queued' = Queued /\ QueuedTasks' = QueuedTasks
  BY <1>1, SameContents
<1>3. Held' = Held /\ HeldTasks' = HeldTasks
  BY <1>1 DEF Held, HeldTasks
<1>4. /\ At("run")' = At("run") \ {w} /\ w \in At("run")
      /\ \A v \in At("run") \ {w} : taskp'[v] = taskp[v]
  BY <1>0, <1>1 DEF At
<1>5. taskp[w] \in Running /\ Running' = Running \ {taskp[w]}
  BY <1>4 DEF Running, Apart, Single
<1>6. Single'
  BY <1>1, <1>2, <1>3, <1>4 DEF Apart, Single
<1>7. Disjoint'
  BY <1>1, <1>2, <1>3, <1>5 DEF Apart, Disjoint
<1>8. Created'
  BY <1>1, <1>2, <1>3, <1>5 DEF Apart, Created
<1>. QED
  BY <1>1, <1>5, <1>6, <1>7, <1>8 DEF Apart

(* The steps that move no task at all.                                     *)
Unmoved ==
  \/ \E a \in Adders : AddWakesSpuriously(a)
  \/ \E w \in Tids : \/ WorkerWaits(w) \/ WorkerExits(w) \/ WorkerResets(w)
                     \/ WorkerWakesSpuriously(w)
  \/ Ctrl \/ SendSigquit \/ UNCHANGED vars

(* A step moves a task, by one of five actions, or moves none.             *)
LEMMA NextCases ==
  ASSUME [Next]_vars
  PROVE  \/ \E a \in Adders, t \in Tasks :
               AddWaits(a, t) \/ AddDrops(a, t) \/ AddEnqueues(a, t)
         \/ \E w \in Tids : WorkerTakes(w) \/ WorkerFinishes(w)
         \/ Unmoved
  BY DEF Next, AddTask, Worker, Unmoved

(* A step that moves no task keeps what is queued, running and done.       *)
LEMMA UnmovedKeeps ==
  ASSUME IInv, Unmoved
  PROVE  /\ UNCHANGED <<task_queue, taskp, atask, created, finished>>
         /\ At("run")' = At("run") /\ Held' = Held
         /\ shutdown_flag' = shutdown_flag \/ shutdown_flag' = TRUE
<1>0. /\ apc = [a \in Adders |-> apc[a]] /\ wpc = [w \in Tids |-> wpc[w]]
      /\ apc \in [Adders -> AdderPlaces]
  BY DEF IInv, CallType, WInv, WorkType
<1>1. ASSUME NEW a \in Adders, AddWakesSpuriously(a)
      PROVE  /\ UNCHANGED <<task_queue, taskp, atask, created, finished, wpc, shutdown_flag>>
             /\ Held' = Held
  BY <1>0, <1>1 DEF AddWakesSpuriously, Held
<1>2. ASSUME NEW w \in Tids,
             \/ WorkerWaits(w) \/ WorkerExits(w) \/ WorkerResets(w)
             \/ WorkerWakesSpuriously(w)
      PROVE  /\ UNCHANGED <<task_queue, taskp, addVars, finished, shutdown_flag>>
             /\ At("run")' = At("run")
  <2>1. \E p \in {"ready", "wait", "woken", "none"} :
           wpc[w] # "run" /\ wpc' = [wpc EXCEPT ![w] = p]
    BY <1>2 DEF WorkerWaits, WorkerExits, WorkerResets, WorkerWakesSpuriously, InSection
  <2>2. At("run")' = At("run")
    BY <1>0, <2>1 DEF At
  <2>. QED
    BY <1>2, <2>2 DEF WorkerWaits, WorkerExits, WorkerResets, WorkerWakesSpuriously
<1>3. ASSUME NEW pc, pc = [w \in Tids |-> pc[w]],
             \A w \in Tids : pc[w] = "run" <=> wpc[w] = "run",
             wpc' = WakeForExit(pc)
      PROVE  At("run")' = At("run")
  <2>1. /\ wpc' = [w \in Tids |-> wpc'[w]]
        /\ \A w \in Tids : wpc'[w] = pc[w] \/ (pc[w] = "wait" /\ wpc'[w] = "woken")
    BY <1>3, BroadcastWakes DEF WakeForExit, Wakes
  <2>. QED
    BY <1>3, <2>1 DEF At
<1>4. CASE Ctrl
  <2>1. CASE CtrlExpands
    <3>1. PICK tid \in [FirstUnused(ExpandStrategy) -> At("none")] :
             wpc' = WakeForExit([w \in Tids |->
                      IF \E i \in FirstUnused(ExpandStrategy) : tid[i] = w
                      THEN "ready" ELSE wpc[w]])
      BY <2>1 DEF CtrlExpands
    <3>2. At("run")' = At("run")
      BY <1>3, <3>1 DEF At
    <3>. QED
      BY <2>1, <3>2 DEF CtrlExpands, addVars, Held
  <2>2. CASE CtrlShrinks \/ CtrlKeepsSize
    BY <1>0, <1>3, <2>2 DEF CtrlShrinks, CtrlKeepsSize, addVars, Held
  <2>3. CASE CtrlCloses
    <3>1. At("run")' = At("run")
      BY <1>0, <1>3, <2>3 DEF CtrlCloses
    <3>2. /\ apc' = [a \in Adders |-> apc'[a]]
          /\ \A a \in Adders : apc'[a] = apc[a] \/ (apc[a] = "wait" /\ apc'[a] = "woken")
      BY <1>0, <2>3, BroadcastWakes DEF CtrlCloses, Wakes
    <3>3. Held' = Held
      BY <3>2 DEF Held
    <3>. QED
      BY <2>3, <3>1, <3>3 DEF CtrlCloses
  <2>4. CASE CtrlFindsNothing \/ CtrlSetsShutdown \/ CtrlExits
    BY <2>4 DEF CtrlFindsNothing, CtrlSetsShutdown, CtrlExits, addVars, Held, At
  <2>. QED
    BY <1>4, <2>1, <2>2, <2>3, <2>4 DEF Ctrl
<1>5. CASE SendSigquit \/ UNCHANGED vars
  BY <1>5 DEF SendSigquit, vars, addVars, Held, At
<1>6. CASE \E a \in Adders : AddWakesSpuriously(a)
  BY <1>1, <1>6 DEF At
<1>7. CASE \E w \in Tids : \/ WorkerWaits(w) \/ WorkerExits(w) \/ WorkerResets(w)
                          \/ WorkerWakesSpuriously(w)
  BY <1>2, <1>7 DEF addVars, Held
<1>. QED
  BY <1>4, <1>5, <1>6, <1>7 DEF Unmoved

(* Every step keeps the tasks apart.                                       *)
LEMMA ApartNext ==
  ASSUME IInv, Apart, [Next]_vars
  PROVE  Apart'
<1>1. CASE Unmoved
  <2>1. created \in Nat
    BY PoolAssumption DEF IInv, CallType
  <2>. QED
    BY <1>1, <2>1, UnmovedKeeps, ApartKept
<1>. QED
  BY <1>1, NextCases, ApartAdd, ApartTakes, ApartFinishes

(* There is no task before the pool starts.                                *)
LEMMA ApartInit == Init => Apart
<1> SUFFICES ASSUME Init
             PROVE  Apart
  OBVIOUS
<1>1. Queued = <<>>
  <2>1. 2 * Max \in Nat \ {0}
    BY PoolAssumption
  <2> DEFINE n == 2 * Max
             Vals == Tasks \cup {INDET}
  <2>2. task_queue = queue_init(n) /\ n \in Nat \ {0} /\ INDET \in Vals
    BY <2>1 DEF Init
  <2> HIDE DEF n, Vals
  <2>. QED
    BY <2>2, FreshRing DEF Queued
<1>2. At("run") = {} /\ Held = {} /\ finished = {}
  BY DEF Init, At, Held
<1>3. QueuedTasks = {} /\ Running = {} /\ HeldTasks = {}
  BY <1>1, <1>2 DEF QueuedTasks, Running, HeldTasks
<1>. QED
  BY <1>1, <1>2, <1>3 DEF Apart, Single, Disjoint, Created

(* The tasks are apart throughout the runs.                                *)
LEMMA ApartAlways == Spec => [](IInv /\ Apart)
<1>1. Init => IInv /\ Apart
  BY IInvInit, ApartInit
<1>2. IInv /\ Apart /\ [Next]_vars => (IInv /\ Apart)'
  BY IInvNext, ApartNext
<1>. QED
  BY <1>1, <1>2, PTL DEF Spec

-----------------------------------------------------------------------------
(* A worker about to take a task leaves room under Max for it.             *)
LEMMA RoomToRun ==
  ASSUME IInv, NEW w \in Tids, wpc[w] \in {"ready", "woken"}
  PROVE  IsFiniteSet(Running) /\ Cardinality(Running) < Max
<1>1. IsFiniteSet(Live) /\ Cardinality(Live) \in Nat /\ Cardinality(Live) <= Max
  <2>1. CountersExact
    BY DEF IInv, WInv
  <2>. QED
    BY <2>1, LiveFinite, CountersBounded, PoolAssumption
<1>2. w \in Live /\ At("run") \in SUBSET (Live \ {w})
  BY DEF Live, At
<1>3. /\ IsFiniteSet(Live \ {w})
      /\ Cardinality(Live \ {w}) = Cardinality(Live) - 1
  BY <1>1, <1>2, FS_RemoveElement
<1>4. /\ IsFiniteSet(At("run")) /\ Cardinality(At("run")) \in Nat
      /\ Cardinality(At("run")) <= Cardinality(Live) - 1
  BY <1>2, <1>3, FS_Subset, FS_CardinalityType
<1> DEFINE f == [v \in At("run") |-> taskp[v]]
<1>5. f \in Surjection(At("run"), Running)
  <2>1. f \in [At("run") -> Running] /\ \A t \in Running : \E v \in At("run") : f[v] = t
    BY DEF Running
  <2> HIDE DEF f
  <2>. QED
    BY <2>1 DEF Surjection
<1>6. IsFiniteSet(Running) /\ Cardinality(Running) <= Cardinality(At("run"))
  BY <1>4, <1>5, FS_Surjection
<1>7. Cardinality(Running) \in Nat
  BY <1>6, FS_CardinalityType
<1>. QED
  BY <1>1, <1>4, <1>6, <1>7, PoolAssumption

(* The pool starts as the abstract pool does.                              *)
LEMMA PoolInit == Init => Pool!Init
<1> SUFFICES ASSUME Init
             PROVE  Pool!Init
  OBVIOUS
<1>1. IInv /\ Apart
  BY IInvInit, ApartInit
<1>2. Queued = <<>>
  <2>1. 2 * Max \in Nat \ {0}
    BY PoolAssumption
  <2> DEFINE n == 2 * Max
             Vals == Tasks \cup {INDET}
  <2>2. task_queue = queue_init(n) /\ n \in Nat \ {0} /\ INDET \in Vals
    BY <2>1 DEF Init
  <2> HIDE DEF n, Vals
  <2>. QED
    BY <2>2, FreshRing DEF Queued
<1>3. Running = {}
  BY DEF Init, Running, At
<1>. QED
  BY <1>2, <1>3 DEF Init, Pool!Init

(* Every step of the pool is a step of TaskPool, or changes none of its    *)
(* variables.                                                              *)
LEMMA PoolStep ==
  ASSUME IInv, Apart, [Next]_vars
  PROVE  [Pool!Next]_(Pool!vars)
<1>1. ASSUME NEW a \in Adders, NEW t \in Tasks, AddWaits(a, t) \/ AddDrops(a, t)
      PROVE  UNCHANGED Pool!vars
  <2>1. Running' = Running
    BY <1>1, ApartAdd
  <2>2. UNCHANGED <<task_queue, finished, shutdown_flag>>
    BY <1>1 DEF AddWaits, AddDrops
  <2>. QED
    BY <2>1, <2>2, SameContents DEF Pool!vars
<1>2. ASSUME NEW a \in Adders, NEW t \in Tasks, AddEnqueues(a, t)
      PROVE  Pool!Accept(t)
  <2>1. Running' = Running
    BY <1>2, ApartAdd
  <2>2. ~shutdown_flag /\ UNCHANGED <<finished, shutdown_flag>>
    BY <1>2 DEF AddEnqueues
  <2>3. Queued' = Append(Queued, t) /\ Len(Queued) < 2 * Max
    BY <1>2, EnqueueAppends
  <2>4. t \notin QueuedTasks \cup Running \cup finished
    BY <1>2, EntersOwn DEF AddEnqueues
  <2>. QED
    BY <2>1, <2>2, <2>3, <2>4 DEF Pool!Accept, Pool!Pending, QueuedTasks
<1>3. ASSUME NEW w \in Tids, WorkerTakes(w)
      PROVE  Pool!Start
  <2>1. Running' = Running \cup {Head(Queued)}
    BY <1>3, ApartTakes
  <2>2. /\ Queued # <<>> /\ Queued' = Tail(Queued)
        /\ wpc[w] \in {"ready", "woken"}
        /\ shutdown_flag = FALSE /\ UNCHANGED <<finished, shutdown_flag>>
    BY <1>3, TakesFirst
  <2>3. Cardinality(Running) < Max
    BY <2>2, RoomToRun
  <2>4. Pool!Cardinality(Running) = Cardinality(Running)
    BY DEF Pool!Cardinality, Cardinality
  <2>. QED
    BY <2>1, <2>2, <2>3, <2>4 DEF Pool!Start
<1>4. ASSUME NEW w \in Tids, WorkerFinishes(w)
      PROVE  Pool!Next
  <2>1. /\ taskp[w] \in Running /\ Running' = Running \ {taskp[w]}
        /\ finished' = finished \cup {taskp[w]}
    BY <1>4, ApartFinishes
  <2>2. taskp[w] \in Tasks
    BY <1>4 DEF WorkerFinishes, IInv, WInv, RunHolds
  <2>3. Queued' = Queued /\ shutdown_flag' = shutdown_flag
    BY <1>4, SameContents DEF WorkerFinishes
  <2>. QED
    BY <2>1, <2>2, <2>3 DEF Pool!Next, Pool!Finish
<1>5. CASE Unmoved
  <2>1. /\ UNCHANGED <<task_queue, taskp, finished>> /\ At("run")' = At("run")
        /\ shutdown_flag' = shutdown_flag \/ shutdown_flag' = TRUE
    BY <1>5, UnmovedKeeps
  <2>2. Queued' = Queued /\ Running' = Running
    BY <2>1, SameContents DEF Running
  <2>. QED
    BY <2>1, <2>2 DEF Pool!Next, Pool!Shutdown, Pool!vars
<1>. QED
  BY <1>1, <1>2, <1>3, <1>4, <1>5, NextCases DEF Pool!Next

(***************************************************************************)
(* The thread pool implements TaskPool, for every size, number of threads  *)
(* and callers, and bound: tasks start in the order they were accepted,    *)
(* each at most once, at most max_thread_cnt at a time, and none after the *)
(* shutdown flag is set.                                                   *)
(***************************************************************************)
THEOREM PoolIsTaskPool == Spec => ImplementsPool
<1>1. IInv /\ Apart /\ [Next]_vars => [Pool!Next]_(Pool!vars)
  BY PoolStep
<1>. QED
  BY <1>1, ApartAlways, PoolInit, PTL DEF Spec, ImplementsPool, Pool!Spec

-----------------------------------------------------------------------------
(* Callers in thread_pool_add_task hold different tasks, so that they are  *)
(* finitely many however many threads call it.                             *)
LEMMA WokenFinite ==
  ASSUME IInv, Apart
  PROVE  /\ IsFiniteSet(AddersAt("woken"))
         /\ Cardinality(AddersAt("woken")) \in Nat
<1>1. \A a \in Held : atask[a] \in 1 .. created /\ created \in Nat
  BY PoolAssumption DEF Apart, Created, HeldTasks, IInv, CallType
<1> DEFINE f == [a \in Held |-> atask[a]]
<1>2. f \in Injection(Held, 1 .. created)
  <2>1. f \in [Held -> 1 .. created] /\ \A a, b \in Held : f[a] = f[b] => a = b
    BY <1>1 DEF Apart, Single
  <2> HIDE DEF f
  <2>. QED
    BY <2>1 DEF Injection, IsInjective
<1>3. IsFiniteSet(1 .. created)
  BY FS_Interval, PoolAssumption DEF IInv, CallType
<1>4. IsFiniteSet(Held)
  BY <1>2, <1>3, FS_Injection
<1>5. AddersAt("woken") \in SUBSET Held
  BY DEF AddersAt, Held
<1>. QED
  BY <1>4, <1>5, FS_Subset, FS_CardinalityType

(* The numbers NoLostSlot compares are numbers.                            *)
Sized ==
  /\ IsFiniteSet(AddersAt("woken")) /\ Cardinality(AddersAt("woken")) \in Nat
  /\ task_queue.cur_size \in 0 .. 2 * Max /\ Len(Queued) = task_queue.cur_size

(* The invariant says that they are.                                       *)
LEMMA SizedNow == IInv /\ Apart => Sized
  BY WokenFinite, QueueFacts DEF Sized

(* With the two invariants, every step keeps NoLostSlot.                   *)
LEMMA SlotNext ==
  ASSUME IInv, Apart, NoLostSlot, [Next]_vars
  PROVE  NoLostSlot'
<1> DEFINE W == AddersAt("woken")
           c == task_queue.cur_size
<1>0. /\ apc \in [Adders -> AdderPlaces] /\ IInv' /\ Apart'
      /\ W = {a \in Adders : apc[a] = "woken"}
  BY IInvNext, ApartNext DEF IInv, CallType, AddersAt
<1>1. /\ IsFiniteSet(W) /\ Cardinality(W) \in Nat
      /\ IsFiniteSet(W') /\ Cardinality(W') \in Nat
      /\ c \in Nat /\ c' \in Nat /\ Max \in Nat
      /\ Len(Queued) = c /\ Len(Queued') = c'
  <2>1. Sized'
    <3>1. (IInv /\ Apart => Sized)'
      BY SizedNow, PTL
    <3>. QED
      BY <1>0, <3>1
  <2>2. Sized
    BY SizedNow
  <2>. QED
    BY <2>1, <2>2, PoolAssumption DEF Sized
<1>2. ASSUME NEW a \in Adders, NEW t \in Tasks, AddWaits(a, t)
      PROVE  NoLostSlot'
  <2>1. ~queue_is_not_full(task_queue) /\ task_queue' = task_queue
    BY <1>2 DEF AddWaits
  <2>2. Len(Queued) >= 2 * Max /\ Len(Queued) = c
    BY <1>1, <2>1, QueueFacts
  <2>. QED
    BY <1>1, <2>1, <2>2 DEF NoLostSlot
<1>3. ASSUME NEW a \in Adders, NEW t \in Tasks, AddEnqueues(a, t)
      PROVE  NoLostSlot'
  <2>1. /\ Queued' = Append(Queued, t) /\ Queued \in Seq(Tasks)
    BY <1>3, QueueFacts, EnqueueAppends
  <2>2. c' = c + 1
    BY <1>1, <2>1
  <2>3. apc' = [apc EXCEPT ![a] = "idle"] /\ ~shutdown_flag /\ apc[a] # "wait"
    BY <1>3 DEF AddEnqueues, EntersWith
  <2>4. W' = W \ {a} /\ AddersAt("wait")' = AddersAt("wait")
    BY <1>0, <2>3 DEF AddersAt
  <2>5. Cardinality(W') >= Cardinality(W) - 1
    <3>1. CASE a \in W
      BY <1>1, <2>4, <3>1, FS_RemoveElement
    <3>2. CASE a \notin W
      <4>1. W' = W
        BY <2>4, <3>2
      <4>. QED
        BY <1>1, <4>1
    <3>. QED
      BY <3>1, <3>2
  <2>. QED
    BY <1>1, <2>2, <2>3, <2>4, <2>5 DEF NoLostSlot
<1>4. ASSUME NEW a \in Adders, AddWakesSpuriously(a)
      PROVE  NoLostSlot'
  <2>1. /\ apc[a] = "wait" /\ apc' = [apc EXCEPT ![a] = "woken"]
        /\ UNCHANGED <<task_queue, shutdown_flag>>
    BY <1>4 DEF AddWakesSpuriously
  <2>2. W \in SUBSET W' /\ a \in AddersAt("wait")
    BY <1>0, <2>1 DEF AddersAt
  <2>3. Cardinality(W) <= Cardinality(W')
    BY <1>1, <2>2, FS_Subset
  <2>. QED
    BY <1>1, <2>1, <2>2, <2>3 DEF NoLostSlot
<1>5. ASSUME NEW w \in Tids, WorkerTakes(w)
      PROVE  NoLostSlot'
  <2>1. /\ Queued' = Tail(Queued) /\ Queued \in Seq(Tasks) /\ Queued # <<>>
    BY <1>5, QueueFacts, TakesFirst
  <2>2. c' = c - 1
    BY <1>1, <2>1
  <2>3. apc' \in Signalled(apc) /\ shutdown_flag' = shutdown_flag
    BY <1>5, TakesFirst
  <2>4. CASE AddersAt("wait") = {}
    <3>1. apc' = apc
      BY <1>0, <2>3, <2>4 DEF Signalled, AddersAt
    <3>. QED
      BY <2>4, <3>1 DEF NoLostSlot, AddersAt
  <2>5. CASE AddersAt("wait") # {}
    <3>1. PICK x \in AddersAt("wait") : apc' = [apc EXCEPT ![x] = "woken"]
      BY <1>0, <2>3, <2>5 DEF Signalled, AddersAt
    <3>2. W' = W \cup {x} /\ x \notin W
      BY <1>0, <3>1 DEF AddersAt
    <3>3. Cardinality(W') = Cardinality(W) + 1
      BY <1>1, <3>2, FS_AddElement
    <3>. QED
      BY <1>1, <2>2, <2>3, <2>5, <3>3 DEF NoLostSlot
  <2>. QED
    BY <2>4, <2>5
<1>6. CASE UNCHANGED <<task_queue, apc>> /\ (shutdown_flag' = shutdown_flag \/ shutdown_flag' = TRUE)
  BY <1>6 DEF NoLostSlot, AddersAt
<1>7. ASSUME NEW a \in Adders, NEW t \in Tasks, AddDrops(a, t)
      PROVE  NoLostSlot'
  BY <1>7 DEF AddDrops, NoLostSlot
<1>8. CASE Unmoved
  <2>1. CASE CtrlCloses
    BY <2>1 DEF CtrlCloses, NoLostSlot
  <2>2. CASE ~CtrlCloses /\ ~ \E a \in Adders : AddWakesSpuriously(a)
    <3>1. apc' = apc
      BY <1>8, <2>2 DEF Unmoved, Ctrl, addVars, vars, SendSigquit,
         WorkerWaits, WorkerExits, WorkerResets, WorkerWakesSpuriously,
         CtrlFindsNothing, CtrlSetsShutdown, CtrlExits, CtrlExpands,
         CtrlShrinks, CtrlKeepsSize
    <3>. QED
      BY <1>6, <1>8, <3>1, UnmovedKeeps
  <2>. QED
    BY <1>4, <2>1, <2>2
<1>9. ASSUME NEW w \in Tids, WorkerFinishes(w)
      PROVE  NoLostSlot'
  BY <1>6, <1>9 DEF WorkerFinishes, addVars
<1>. QED
  BY <1>2, <1>3, <1>5, <1>7, <1>8, <1>9, NextCases

(***************************************************************************)
(* No wake-up of a blocked caller of thread_pool_add_task is lost, for     *)
(* every size of the pool and any number of callers: a slot freed while    *)
(* one waits has a caller on its way to it.                                *)
(***************************************************************************)
THEOREM PoolNoLostSlot == Spec => []NoLostSlot
<1>1. Init => NoLostSlot
  BY DEF Init, NoLostSlot, AddersAt
<1>2. IInv /\ Apart /\ NoLostSlot /\ [Next]_vars => NoLostSlot'
  BY SlotNext
<1>. QED
  BY <1>1, <1>2, ApartAlways, PTL DEF Spec

-----------------------------------------------------------------------------
(***************************************************************************)
(* When every worker has settled by the time the control thread takes the  *)
(* lock, those told to exit are all on their way, so that they are counted *)
(* against the threads there are and the wake-ups there have been.         *)
(***************************************************************************)
ToldAreWoken == ~shutdown_flag => Cardinality(At("woken")) >= wait_exit_thread_cnt

SettledInv == KeepsMinThreads /\ NoLostTask /\ ToldAreWoken

(* The numbers in SettledInv are numbers.                                  *)
Counted ==
  /\ IsFiniteSet(At("woken")) /\ Cardinality(At("woken")) \in Nat
  /\ task_queue.cur_size \in Nat /\ wait_exit_thread_cnt \in Nat
  /\ cur_thread_cnt \in 0 .. Max /\ act_thread_cnt \in 0 .. Max

(* The invariant says that they are.                                       *)
LEMMA CountedNow == IInv => Counted
<1> SUFFICES ASSUME IInv
             PROVE  Counted
  OBVIOUS
<1>1. CountersExact /\ wait_exit_thread_cnt \in Nat
  BY DEF IInv, WInv, WorkType
<1>2. At("woken") \in SUBSET Live
  BY DEF At, Live
<1>3. IsFiniteSet(At("woken")) /\ Cardinality(At("woken")) \in Nat
  BY <1>1, <1>2, LiveFinite, FS_Subset, FS_CardinalityType
<1>4. task_queue.cur_size \in Nat
  BY QueueFacts, PoolAssumption
<1>. QED
  BY <1>1, <1>3, <1>4, CountersBounded DEF Counted

(* A worker that moves by itself, other than to or from "wait".            *)
LEMMA SettledKept ==
  ASSUME IInv, IInv', SettledInv,
         At("wait")' \in SUBSET At("wait"),
         Cardinality(At("woken"))' >= Cardinality(At("woken")),
         UNCHANGED <<task_queue, cur_thread_cnt, wait_exit_thread_cnt>>,
         shutdown_flag' = shutdown_flag \/ shutdown_flag' = TRUE
  PROVE  SettledInv'
<1>1. Counted /\ Counted'
  <2>1. (IInv => Counted)'
    BY CountedNow, PTL
  <2>. QED
    BY <2>1, CountedNow
<1>. QED
  BY <1>1 DEF SettledInv, KeepsMinThreads, NoLostTask, ToldAreWoken, Counted

(* Every step of a worker keeps the settled pool settled.                  *)
LEMMA SettledWork ==
  ASSUME IInv, IInv', SettledInv, NEW w \in Tids,
         Worker(w) \/ WorkerWakesSpuriously(w)
  PROVE  SettledInv'
<1> DEFINE W == At("woken")
<1>0. wpc = [v \in Tids |-> wpc[v]] /\ shutdown_flag \in BOOLEAN
  BY DEF IInv, CallType, WInv, WorkType
<1>1. Counted /\ Counted'
  <2>1. (IInv => Counted)'
    BY CountedNow, PTL
  <2>. QED
    BY <2>1, CountedNow
<1>2. IsFiniteSet(W) /\ Cardinality(W) \in Nat /\ Cardinality(W') \in Nat
  BY <1>1 DEF Counted
<1>3. ASSUME NEW p \in WorkerPlaces \ {"woken"}, wpc' = [wpc EXCEPT ![w] = p]
      PROVE  W' = W \ {w} /\ Cardinality(W') >= Cardinality(W) - 1
  <2>1. W' = W \ {w}
    BY <1>0, <1>3 DEF At
  <2>2. CASE w \in W
    <3>1. Cardinality(W \ {w}) = Cardinality(W) - 1
      BY <1>2, <2>2, FS_RemoveElement
    <3>. QED
      BY <1>2, <2>1, <3>1
  <2>3. CASE w \notin W
    <3>1. W' = W
      BY <2>1, <2>3
    <3>. QED
      BY <1>2, <2>1, <3>1
  <2>. QED
    BY <2>1, <2>2, <2>3
<1>4. CASE WorkerWaits(w)
  <2>1. /\ queue_is_empty(task_queue) /\ ~shutdown_flag
        /\ wpc[w] \in {"ready", "woken"}
        /\ wpc[w] = "woken" => wait_exit_thread_cnt = 0
        /\ wpc' = [wpc EXCEPT ![w] = "wait"]
        /\ UNCHANGED <<task_queue, cur_thread_cnt, wait_exit_thread_cnt, shutdown_flag>>
    BY <1>4 DEF WorkerWaits, InSection, MustWait, counters
  <2>2. task_queue.cur_size = 0
    <3>1. Queued = <<>>
      BY <2>1, QueueFacts
    <3>. QED
      BY <3>1, QueueFacts
  <2>3. CASE wpc[w] = "woken"
    BY <1>1, <1>2, <2>1, <2>2, <2>3
       DEF SettledInv, KeepsMinThreads, NoLostTask, ToldAreWoken, Counted
  <2>4. CASE wpc[w] = "ready"
    <3>1. W' = W
      BY <1>0, <2>1, <2>4 DEF At
    <3>2. Cardinality(W) >= wait_exit_thread_cnt /\ Cardinality(W') = Cardinality(W)
      BY <2>1, <3>1 DEF SettledInv, ToldAreWoken
    <3>. QED
      BY <1>1, <2>1, <2>2, <3>2
         DEF SettledInv, KeepsMinThreads, NoLostTask, ToldAreWoken, Counted
  <2>. QED
    BY <2>1, <2>3, <2>4
<1>5. CASE WorkerExits(w)
  <2>1. /\ wpc[w] \in {"ready", "woken"} /\ wpc' = [wpc EXCEPT ![w] = "none"]
        /\ shutdown_flag \/ wait_exit_thread_cnt # 0
        /\ wait_exit_thread_cnt' =
             IF wait_exit_thread_cnt # 0 THEN wait_exit_thread_cnt - 1 ELSE 0
        /\ cur_thread_cnt' = cur_thread_cnt - 1
        /\ UNCHANGED <<task_queue, shutdown_flag>>
    BY <1>5 DEF WorkerExits, InSection, MustExit
  <2>2. Cardinality(W') >= Cardinality(W) - 1
    BY <1>3, <2>1 DEF WorkerPlaces
  <2>3. At("wait")' = At("wait")
    BY <1>0, <2>1 DEF At
  <2>. QED
    BY <1>1, <1>2, <2>1, <2>2, <2>3, PoolAssumption
       DEF SettledInv, KeepsMinThreads, NoLostTask, ToldAreWoken, Counted
<1>6. CASE WorkerTakes(w)
  <2>1. /\ wpc[w] \in {"ready", "woken"} /\ wpc' = [wpc EXCEPT ![w] = "run"]
        /\ wait_exit_thread_cnt = 0 /\ wait_exit_thread_cnt' = 0
        /\ shutdown_flag' = shutdown_flag /\ cur_thread_cnt' = cur_thread_cnt
    BY <1>6, TakesFirst DEF WorkerTakes
  <2>2. Cardinality(W') >= Cardinality(W) - 1
    BY <1>3, <2>1 DEF WorkerPlaces
  <2>3. At("wait")' = At("wait")
    BY <1>0, <2>1 DEF At
  <2>4. task_queue'.cur_size = task_queue.cur_size - 1
    BY <1>6 DEF WorkerTakes, queue_pop
  <2>. QED
    BY <1>1, <1>2, <2>1, <2>2, <2>3, <2>4
       DEF SettledInv, KeepsMinThreads, NoLostTask, ToldAreWoken, Counted
<1>7. CASE WorkerFinishes(w) \/ WorkerResets(w)
  <2>1. /\ wpc[w] \in {"run", "reset"}
        /\ \E p \in {"reset", "ready"} : wpc' = [wpc EXCEPT ![w] = p]
        /\ UNCHANGED <<task_queue, cur_thread_cnt, wait_exit_thread_cnt, shutdown_flag>>
    BY <1>7 DEF WorkerFinishes, WorkerResets, counters
  <2>2. W' = W /\ At("wait")' = At("wait")
    BY <1>0, <2>1 DEF At
  <2>. QED
    BY <1>2, <2>1, <2>2, SettledKept
<1>8. CASE WorkerWakesSpuriously(w)
  <2>1. /\ wpc[w] = "wait" /\ wpc' = [wpc EXCEPT ![w] = "woken"]
        /\ UNCHANGED <<task_queue, cur_thread_cnt, wait_exit_thread_cnt, shutdown_flag>>
    BY <1>8 DEF WorkerWakesSpuriously, counters
  <2>2. W' = W \cup {w} /\ w \notin W /\ At("wait")' \in SUBSET At("wait")
    BY <1>0, <2>1 DEF At
  <2>3. Cardinality(W') = Cardinality(W) + 1
    BY <1>2, <2>2, FS_AddElement
  <2>. QED
    BY <1>2, <2>1, <2>2, <2>3, SettledKept
<1>. QED
  BY <1>4, <1>5, <1>6, <1>7, <1>8 DEF Worker

(* A caller changes no counter, and wakes a worker for the task it adds.   *)
LEMMA SettledAdd ==
  ASSUME IInv, IInv', SettledInv, NEW a \in Adders, NEW t \in Tasks,
         AddWaits(a, t) \/ AddDrops(a, t) \/ AddEnqueues(a, t)
  PROVE  SettledInv'
<1> DEFINE W == At("woken")
<1>0. wpc = [v \in Tids |-> wpc[v]]
  BY DEF IInv, WInv, WorkType
<1>1. Counted /\ Counted'
  <2>1. (IInv => Counted)'
    BY CountedNow, PTL
  <2>. QED
    BY <2>1, CountedNow
<1>2. IsFiniteSet(W) /\ Cardinality(W) \in Nat /\ Cardinality(W') \in Nat
  BY <1>1 DEF Counted
<1>3. CASE AddWaits(a, t) \/ AddDrops(a, t)
  <2>1. UNCHANGED <<task_queue, cur_thread_cnt, wait_exit_thread_cnt, shutdown_flag, wpc>>
    BY <1>3 DEF AddWaits, AddDrops, counters
  <2>2. W' = W /\ At("wait")' = At("wait")
    BY <2>1 DEF At
  <2>. QED
    BY <1>2, <2>1, <2>2, SettledKept
<1>4. CASE AddEnqueues(a, t)
  <2>1. /\ wpc' \in Signalled(wpc)
        /\ task_queue'.cur_size = task_queue.cur_size + 1
        /\ UNCHANGED <<cur_thread_cnt, wait_exit_thread_cnt, shutdown_flag>>
    BY <1>4 DEF AddEnqueues, counters, queue_push
  <2>2. CASE At("wait") = {}
    <3>1. wpc' = wpc
      BY <1>0, <2>1, <2>2 DEF Signalled, At
    <3>2. W' = W /\ At("wait")' = {}
      BY <2>2, <3>1 DEF At
    <3>3. Cardinality(W') = Cardinality(W)
      BY <3>2
    <3>. QED
      BY <2>1, <3>2, <3>3 DEF SettledInv, KeepsMinThreads, NoLostTask, ToldAreWoken
  <2>3. CASE At("wait") # {}
    <3>1. PICK x \in At("wait") : wpc' = [wpc EXCEPT ![x] = "woken"]
      BY <1>0, <2>1, <2>3 DEF Signalled, At
    <3>2. W' = W \cup {x} /\ x \notin W
      BY <1>0, <3>1 DEF At
    <3>3. Cardinality(W') = Cardinality(W) + 1
      BY <1>2, <3>2, FS_AddElement
    <3>. QED
      BY <1>1, <1>2, <2>1, <2>3, <3>3
         DEF SettledInv, KeepsMinThreads, NoLostTask, ToldAreWoken, Counted
  <2>. QED
    BY <2>2, <2>3
<1>. QED
  BY <1>3, <1>4

(***************************************************************************)
(* At a settled tick nobody is between the wait and the lock, so that no   *)
(* exit is outstanding; the workers that wait are those not busy, and a    *)
(* shrink tells fewer of them to exit than there are, and wakes them all.  *)
(***************************************************************************)
LEMMA SettledCtrl ==
  ASSUME Unsettled = {}, IInv, IInv', SettledInv, Ctrl
  PROVE  SettledInv'
<1> DEFINE W == At("woken")
<1>0. /\ wpc = [v \in Tids |-> wpc[v]] /\ wpc \in [Tids -> WorkerPlaces]
      /\ CountersExact /\ Max \in Nat /\ Min \in Nat
  BY PoolAssumption DEF IInv, WInv, WorkType
<1>1. Counted /\ Counted'
  <2>1. (IInv => Counted)'
    BY CountedNow, PTL
  <2>. QED
    BY <2>1, CountedNow
<1>2. IsFiniteSet(W) /\ Cardinality(W) \in Nat /\ Cardinality(W') \in Nat
  BY <1>1 DEF Counted
<1>3. ASSUME wpc' = wpc,
             UNCHANGED <<task_queue, cur_thread_cnt, wait_exit_thread_cnt>>,
             shutdown_flag' = shutdown_flag \/ shutdown_flag' = TRUE
      PROVE  SettledInv'
  <2>1. W' = W /\ At("wait")' = At("wait")
    BY <1>3 DEF At
  <2>2. Cardinality(W)' >= Cardinality(W)
    BY <1>2, <2>1
  <2>. QED
    BY <1>3, <2>1, <2>2, SettledKept
<1>4. CASE CtrlFindsNothing \/ CtrlSetsShutdown \/ CtrlExits
  BY <1>3, <1>4 DEF CtrlFindsNothing, CtrlSetsShutdown, CtrlExits, counters
<1>5. CASE CtrlCloses
  BY <1>5 DEF CtrlCloses, SettledInv, KeepsMinThreads, NoLostTask, ToldAreWoken
<1>6. ASSUME CtrlAt("tick"), ~shutdown_flag
      PROVE  At("ready") = {} /\ W = {} /\ wait_exit_thread_cnt = 0
  <2>1. At("ready") = {} /\ W = {}
    BY <1>6 DEF CtrlAt, Settled
  <2>2. Cardinality(W) = 0
    BY <2>1, FS_EmptySet
  <2>3. 0 >= wait_exit_thread_cnt
    BY <1>6, <2>2 DEF SettledInv, ToldAreWoken
  <2>. QED
    BY <1>1, <2>1, <2>3 DEF Counted
<1>7. CASE CtrlKeepsSize
  <2>1. wait_exit_thread_cnt = 0
    BY <1>6, <1>7 DEF CtrlKeepsSize
  <2>. QED
    BY <1>3, <1>7, <2>1 DEF CtrlKeepsSize, WakeForExit
<1>8. CASE CtrlExpands
  <2> DEFINE new == FirstUnused(ExpandStrategy)
  <2>1. /\ W = {} /\ wait_exit_thread_cnt = 0 /\ wait_exit_thread_cnt' = 0
        /\ UNCHANGED <<task_queue, shutdown_flag>>
    BY <1>6, <1>8 DEF CtrlExpands
  <2>2. PICK tid \in [new -> At("none")] :
           /\ cur_thread_cnt' = cur_thread_cnt + Cardinality(new)
           /\ wpc' = WakeForExit([w \in Tids |->
                       IF \E i \in new : tid[i] = w THEN "ready" ELSE wpc[w]])
    BY <1>8 DEF CtrlExpands
  <2>3. W' = W /\ At("wait")' = At("wait")
    BY <1>0, <2>1, <2>2 DEF WakeForExit, At
  <2>4. Cardinality(new) \in Nat
    <3>1. new \in SUBSET Slots
      BY DEF FirstUnused, Unused
    <3>. QED
      BY <3>1, SlotsFinite, FS_Subset, FS_CardinalityType
  <2>. QED
    BY <1>0, <1>1, <1>2, <2>1, <2>2, <2>3, <2>4
       DEF SettledInv, KeepsMinThreads, NoLostTask, ToldAreWoken, Counted
<1>9. CASE CtrlShrinks
  <2>1. /\ At("ready") = {} /\ W = {} /\ wait_exit_thread_cnt = 0
        /\ wait_exit_thread_cnt' = ShrinkStrategy
        /\ wpc' = WakeForExit(wpc)
        /\ UNCHANGED <<task_queue, cur_thread_cnt, shutdown_flag>>
    <3>1. At("ready") = {} /\ W = {} /\ wait_exit_thread_cnt = 0
      BY <1>6, <1>9 DEF CtrlShrinks
    <3>2. ShrinkStrategy \in Nat
      BY <1>0, <1>1 DEF ShrinkStrategy, Counted
    <3>. QED
      BY <1>9, <3>1, <3>2 DEF CtrlShrinks
  <2>2. /\ ShrinkStrategy <= cur_thread_cnt - act_thread_cnt \/ ShrinkStrategy = 0
        /\ ShrinkStrategy <= cur_thread_cnt - Min \/ ShrinkStrategy = 0
        /\ ShrinkStrategy \in Nat
    BY <1>0, <1>1 DEF ShrinkStrategy, Counted
  <2>3. CASE ShrinkStrategy = 0
    BY <1>3, <2>1, <2>3 DEF WakeForExit
  <2>4. CASE ShrinkStrategy # 0
    <3>1. wpc' = Broadcast(wpc)
      BY <2>1, <2>4 DEF WakeForExit
    <3>2. W' = At("wait") /\ At("wait")' = {}
      BY <1>0, <2>1, <3>1 DEF Broadcast, At
    <3>3. At("wait") = Live \ Busy
      BY <1>0, <2>1 DEF Live, Busy, At, WorkerPlaces
    <3>4. /\ IsFiniteSet(Live) /\ Cardinality(Live) = cur_thread_cnt
          /\ Cardinality(Busy) = act_thread_cnt /\ Busy \in SUBSET Live
      BY <1>0, LiveFinite DEF CountersExact, Busy, Live, At
    <3>5. Cardinality(Live \ Busy) = cur_thread_cnt - act_thread_cnt
      <4>1. Cardinality(Live \ Busy) = Cardinality(Live) - Cardinality(Live \cap Busy)
        BY <3>4, FS_Difference
      <4>2. Live \cap Busy = Busy
        BY <3>4
      <4>. QED
        BY <3>4, <4>1, <4>2
    <3>6. Cardinality(W') >= wait_exit_thread_cnt'
      BY <1>1, <2>1, <2>2, <2>4, <3>2, <3>3, <3>5 DEF Counted
    <3>7. KeepsMinThreads'
      BY <1>0, <1>1, <2>1, <2>2, <2>4 DEF KeepsMinThreads, Counted
    <3>8. NoLostTask'
      BY <3>2 DEF NoLostTask
    <3>. QED
      BY <3>6, <3>7, <3>8 DEF SettledInv, ToldAreWoken
  <2>. QED
    BY <2>3, <2>4
<1>. QED
  BY <1>4, <1>5, <1>7, <1>8, <1>9 DEF Ctrl

(* Every step of the pool keeps it settled.                                *)
LEMMA SettledNext ==
  ASSUME Unsettled = {}, IInv, IInv', SettledInv, [Next]_vars
  PROVE  SettledInv'
<1>1. ASSUME UNCHANGED <<wpc, task_queue, counters, shutdown_flag>>
      PROVE  SettledInv'
  BY <1>1 DEF SettledInv, KeepsMinThreads, NoLostTask, ToldAreWoken, At, counters
<1>2. ASSUME NEW a \in Adders, AddWakesSpuriously(a)
      PROVE  SettledInv'
  BY <1>1, <1>2 DEF AddWakesSpuriously
<1>3. CASE SendSigquit \/ UNCHANGED vars
  BY <1>1, <1>3 DEF SendSigquit, vars
<1>. QED
  BY <1>2, <1>3, SettledAdd, SettledWork, SettledCtrl DEF Next, AddTask

(* The pool starts settled.                                                *)
LEMMA SettledInit == Init => SettledInv
<1> SUFFICES ASSUME Init
             PROVE  SettledInv
  OBVIOUS
<1>1. IInv
  BY IInvInit
<1>2. Counted
  BY <1>1, CountedNow
<1>3. At("wait") = {} /\ wait_exit_thread_cnt = 0 /\ cur_thread_cnt = Min
  BY DEF Init, At
<1>. QED
  BY <1>2, <1>3, PoolAssumption
     DEF SettledInv, KeepsMinThreads, NoLostTask, ToldAreWoken, Counted

(* The pool is settled throughout the runs.                                *)
LEMMA SettledAlways ==
  ASSUME Unsettled = {}
  PROVE  Spec => []SettledInv
<1>1. IInv /\ IInv' /\ SettledInv /\ [Next]_vars => SettledInv'
  BY SettledNext
<1>. QED
  BY <1>1, SettledInit, IInvAlways, PTL DEF Spec

(***************************************************************************)
(* The pool keeps min_thread_cnt workers beyond those told to exit, for    *)
(* every size, when the workers settle while the control thread sleeps     *)
(* and polls.                                                              *)
(***************************************************************************)
THEOREM PoolKeepsMinThreads ==
  ASSUME Unsettled = {}
  PROVE  Spec => []KeepsMinThreads
<1>1. SettledInv => KeepsMinThreads
  BY DEF SettledInv
<1>. QED
  BY <1>1, SettledAlways, PTL

(***************************************************************************)
(* Under the same condition no wake-up of a worker is lost, neither one    *)
(* for a queued task nor one for an exit.                                  *)
(***************************************************************************)
THEOREM PoolNoLostTask ==
  ASSUME Unsettled = {}
  PROVE  Spec => []NoLostTask
<1>1. SettledInv => NoLostTask
  BY DEF SettledInv
<1>. QED
  BY <1>1, SettledAlways, PTL
=============================================================================
