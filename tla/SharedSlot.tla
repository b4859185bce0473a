------------------------------ MODULE SharedSlot ------------------------------
(***************************************************************************)
(* process_func/IPC/XSI_IPC/shm.c: processes that find a shared memory     *)
(* segment by its key, or make one, and hand items over in its one slot    *)
(* under a mutex. The mutex is not a process-shared one: its unlock wakes  *)
(* only threads of the same process, so that who once sleeps on it is      *)
(* woken by signals at most. SIGQUIT removes the segment, which lives on   *)
(* for who uses it while the next process makes another; SIGINT ends a     *)
(* process anywhere, with the mutex or without.                            *)
(***************************************************************************)
EXTENDS Naturals, Sequences, SequencesExt

CONSTANTS
  Producers, Consumers,
  Segments,    \* bound: 1 .. n, the segments ever made
  MaxItems,    \* bound: items a process makes
  None

VARIABLES
  keyed,    \* the segment that the key names, or None
  seg,      \* per segment [made, mutex, pid, data]; mutex is the futex word:
            \* 0 free, 1 locked, 2 locked with perhaps a sleeper
  pc,       \* per process
  ptr,      \* per process the segment it found or made (shmid)
  id,       \* per producer the items it has begun
  shown,    \* history, per segment: what consumers printed
  quiet     \* history, per segment: nobody was using it while it was initialised

vars == <<keyed, seg, pc, ptr, id, shown, quiet>>

Procs == Producers \union Consumers
Inside == {"holds", "filled", "copied", "served"}
Using == Inside \union {"outside", "contends", "asleep"}

NoSegment == [made |-> FALSE, mutex |-> 0, pid |-> None, data |-> None]

Init ==
  /\ keyed = None
  /\ seg = [s \in Segments |-> NoSegment]
  /\ pc = [p \in Procs |-> "none"]
  /\ ptr = [p \in Procs |-> None]
  /\ id = [p \in Producers |-> 0]
  /\ shown = [s \in Segments |-> <<>>]
  /\ quiet = [s \in Segments |-> TRUE]

To(p, from, to) == pc[p] = from /\ pc' = [pc EXCEPT ![p] = to]

Writes(p, field, value) == seg' = [seg EXCEPT ![ptr[p]][field] = value]

Starts(p) ==
  /\ To(p, "none", "getting")
  /\ UNCHANGED <<keyed, seg, ptr, id, shown, quiet>>

-----------------------------------------------------------------------------
(* GetShmId: without IPC_EXCL a segment that somebody made meanwhile is    *)
(* found, and initialised all the same.                                    *)
FindsSegment(p) ==
  /\ To(p, "getting", "found")
  /\ keyed # None
  /\ ptr' = [ptr EXCEPT ![p] = keyed]
  /\ UNCHANGED <<keyed, seg, id, shown, quiet>>

FindsNone(p) ==
  /\ To(p, "getting", "creating")
  /\ keyed = None
  /\ UNCHANGED <<keyed, seg, ptr, id, shown, quiet>>

Creates(p) ==
  /\ To(p, "creating", "initialising")
  /\ \/ /\ keyed = None
        /\ \E s \in Segments :
             /\ ~ seg[s].made /\ \A t \in Segments : t < s => seg[t].made
             /\ keyed' = s
        /\ seg' = [seg EXCEPT ![keyed'].made = TRUE]
     \/ /\ keyed # None
        /\ UNCHANGED <<keyed, seg>>
  /\ ptr' = [ptr EXCEPT ![p] = keyed']
  /\ UNCHANGED <<id, shown, quiet>>

Initialises(p) ==
  /\ To(p, "initialising", "found")
  /\ seg' = [seg EXCEPT ![ptr[p]].mutex = 0, ![ptr[p]].pid = None]
  /\ quiet' = [quiet EXCEPT ![ptr[p]] =
       @ /\ \A q \in Procs \ {p} : ptr[q] = ptr[p] => pc[q] \in {"none", "exited", "initialising"}]
  /\ UNCHANGED <<keyed, ptr, id, shown>>

(* The segment is gone once it is removed and nobody uses it.              *)
shmat(p) ==
  /\ LET there == keyed = ptr[p] \/ \E q \in Procs : pc[q] \in Using /\ ptr[q] = ptr[p]
     IN To(p, "found", IF there THEN "outside" ELSE "exited")
  /\ UNCHANGED <<keyed, seg, ptr, id, shown, quiet>>

-----------------------------------------------------------------------------
(* pthread_mutex_lock: who finds the word taken marks it, and sleeps if it *)
(* still is marked then.                                                   *)
Locks(p) ==
  /\ To(p, "outside", "holds")
  /\ seg[ptr[p]].mutex = 0
  /\ Writes(p, "mutex", 1)
  /\ UNCHANGED <<keyed, ptr, id, shown, quiet>>

FindsLocked(p) ==
  /\ To(p, "outside", "contends")
  /\ seg[ptr[p]].mutex # 0
  /\ UNCHANGED <<keyed, seg, ptr, id, shown, quiet>>

(* The exchange that marks the word is not looked at, for mutation.        *)
TakesAnyway(p) ==
  /\ pc[p] = "contends"
  /\ pc' = [pc EXCEPT ![p] = "holds"]
  /\ Writes(p, "mutex", 2)
  /\ UNCHANGED <<keyed, ptr, id, shown, quiet>>

Marks(p) ==
  /\ pc[p] = "contends"
  /\ pc' = [pc EXCEPT ![p] = IF seg[ptr[p]].mutex = 0 THEN "holds" ELSE "asleep"]
  /\ Writes(p, "mutex", 2)
  /\ UNCHANGED <<keyed, ptr, id, shown, quiet>>

(* futex_wait sees that the word has changed, or a signal comes.           *)
Wakes(p) ==
  /\ To(p, "asleep", "contends")
  /\ UNCHANGED <<keyed, seg, ptr, id, shown, quiet>>

Unlocks(p) ==
  /\ \/ To(p, "served", "outside")
     \/ /\ To(p, "holds", "outside")
        /\ IF p \in Consumers THEN seg[ptr[p]].pid = None ELSE seg[ptr[p]].pid # None
  /\ Writes(p, "mutex", 0)
  /\ UNCHANGED <<keyed, ptr, id, shown, quiet>>

(* Producer: the item, and then the mark that there is one.                *)
Fills(p) ==
  /\ p \in Producers /\ id[p] < MaxItems
  /\ To(p, "holds", "filled")
  /\ seg[ptr[p]].pid = None
  /\ id' = [id EXCEPT ![p] = @ + 1]
  /\ Writes(p, "data", <<p, id'[p]>>)
  /\ UNCHANGED <<keyed, ptr, shown, quiet>>

SetsPid(p) ==
  /\ To(p, "filled", "served")
  /\ Writes(p, "pid", p)
  /\ UNCHANGED <<keyed, ptr, id, shown, quiet>>

(* Consumer: memcpy and printf, and then the mark is cleared.              *)
Copies(p) ==
  /\ p \in Consumers
  /\ To(p, "holds", "copied")
  /\ seg[ptr[p]].pid # None
  /\ shown' = [shown EXCEPT ![ptr[p]] = Append(@, seg[ptr[p]].data)]
  /\ UNCHANGED <<keyed, seg, ptr, id, quiet>>

ClearsPid(p) ==
  /\ To(p, "copied", "served")
  /\ Writes(p, "pid", None)
  /\ UNCHANGED <<keyed, ptr, id, shown, quiet>>

-----------------------------------------------------------------------------
(* SIGINT, or SIGQUIT before its handler is installed.                     *)
sig_int(p) ==
  /\ pc[p] \notin {"none", "exited"}
  /\ pc' = [pc EXCEPT ![p] = "exited"]
  /\ UNCHANGED <<keyed, seg, ptr, id, shown, quiet>>

sig_quit(p) ==
  /\ pc[p] \in Using
  /\ keyed = ptr[p] /\ keyed' = None
  /\ UNCHANGED <<seg, pc, ptr, id, shown, quiet>>

Producer(p) == Fills(p) \/ SetsPid(p)
Consumer(p) == Copies(p) \/ ClearsPid(p)

Next ==
  \E p \in Procs :
    \/ Starts(p) \/ FindsSegment(p) \/ FindsNone(p) \/ Creates(p) \/ Initialises(p) \/ shmat(p)
    \/ Locks(p) \/ FindsLocked(p) \/ Marks(p) \/ Wakes(p) \/ Unlocks(p)
    \/ Producer(p) \/ Consumer(p) \/ sig_int(p) \/ sig_quit(p)

Spec == Init /\ [][Next]_vars
-----------------------------------------------------------------------------
(***************************************************************************)
(* In a segment that was not initialised under somebody's feet, each item  *)
(* is shown at most once, those of a producer in the order it made them,   *)
(* and nothing is shown that was overwritten or half cleared: whoever is   *)
(* killed, and wherever, holds the mutex then, or has done with the slot.  *)
(***************************************************************************)
ShownOnce ==
  \A s \in Segments : quiet[s] =>
    \A i, j \in DOMAIN shown[s] :
      i < j => \/ shown[s][i][1] # shown[s][j][1]
               \/ shown[s][i][2] < shown[s][j][2]
=============================================================================
