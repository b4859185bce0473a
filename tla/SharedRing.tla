----------------------------- MODULE SharedRing -----------------------------
(***************************************************************************)
(* process_func/IPC/POSIX_SEMAPHORE/anonymous_semaphore.c: unrelated       *)
(* processes exchange elements over a ring in System V shared memory that  *)
(* two semaphores guard; named_semaphore.c differs only in where the       *)
(* semaphores live. Every access to the segment is a step of its own,      *)
(* since nothing but the semaphores keeps the processes apart.             *)
(* SIGINT ends a process at any point, and it may be started again.        *)
(* Not here: SIGQUIT, which removes the segment.                           *)
(***************************************************************************)
EXTENDS Integers, Sequences, FiniteSets

CONSTANTS
  Producers, Consumers,   \* the processes, by mode
  QUEUE_MAX_SIZE,
  Garbage,      \* what an element holds before anything was copied into it
  Builds,       \* how ++size and --size may be compiled: "torn", a load and
                \* a store (gcc -g); "whole", one instruction, one processor
  MaxElems,     \* bound: elements produced
  MaxKills      \* bound: processes ended by SIGINT

VARIABLES
  build,
  exists,              \* the key has a segment
  space, product,      \* the values of sem_space and sem_product
  front, rear, size, arr,
  pc, elem, reg,       \* per process: place, local element, register
  made,                \* how many elements were begun
  got,                 \* history: what the consumers printed
  refused,             \* history: a queue function printed its error line
  kills

shared == <<exists, space, product, front, rear, size, arr>>
history == <<made, got, refused, kills>>
vars == <<build, shared, pc, elem, reg, history>>

Procs == Producers \union Consumers
Slots == 0 .. QUEUE_MAX_SIZE - 1

Init ==
  /\ build \in Builds
  /\ exists = FALSE
  /\ space = 0 /\ product = 0
  /\ front = 0 /\ rear = 0 /\ size = 0
  /\ arr = [i \in Slots |-> Garbage]
  /\ pc = [p \in Procs |-> "start"]
  /\ elem = [p \in Procs |-> Garbage]
  /\ reg = [p \in Procs |-> 0]
  /\ made = 0 /\ got = <<>> /\ refused = FALSE /\ kills = 0

Goes(p, from, to) ==
  /\ pc[p] = from
  /\ pc' = [pc EXCEPT ![p] = to]
  /\ UNCHANGED build

-----------------------------------------------------------------------------
(* GetShmId. A new segment is zero filled; shmget without IPC_EXCL also    *)
(* succeeds on one that another process has created meanwhile.             *)
Creating == {p \in Procs : pc[p] \in {"create", "init space", "init product", "init queue"}}

(* Assumed of the user: nothing is started while the segment is created.   *)
MayStart == Creating = {}

FindsSegment(p) ==
  /\ Goes(p, "start", "loop")
  /\ MayStart
  /\ exists
  /\ UNCHANGED <<shared, elem, reg, history>>

(* A start that sets up the segment whether it is there or not, for        *)
(* mutation.                                                               *)
AlwaysCreates(p) ==
  /\ Goes(p, "start", "create")
  /\ MayStart
  /\ UNCHANGED <<shared, elem, reg, history>>

FindsNone(p) ==
  /\ Goes(p, "start", "create")
  /\ MayStart
  /\ ~ exists
  /\ UNCHANGED <<shared, elem, reg, history>>

Creates(p) ==
  /\ Goes(p, "create", "init space")
  /\ exists' = TRUE
  /\ UNCHANGED <<space, product, front, rear, size, arr, elem, reg, history>>

InitSpace(p) ==
  /\ Goes(p, "init space", "init product")
  /\ space' = QUEUE_MAX_SIZE
  /\ UNCHANGED <<exists, product, front, rear, size, arr, elem, reg, history>>

InitProduct(p) ==
  /\ Goes(p, "init product", "init queue")
  /\ product' = 0
  /\ UNCHANGED <<exists, space, front, rear, size, arr, elem, reg, history>>

(* queue_init: bzero.                                                      *)
InitQueue(p) ==
  /\ Goes(p, "init queue", "loop")
  /\ front' = 0 /\ rear' = 0 /\ size' = 0
  /\ arr' = [i \in Slots |-> Garbage]
  /\ UNCHANGED <<exists, space, product, elem, reg, history>>

-----------------------------------------------------------------------------
(* Where a process goes on after queue_add or queue_pop.                   *)
Returned(p) == IF p \in Producers THEN "post" ELSE "print"

(* The counter update at the end of queue_add and queue_pop.               *)
CountsWhole(p, d) ==
  /\ build = "whole"
  /\ Goes(p, "count", Returned(p))
  /\ size' = size + d
  /\ UNCHANGED <<exists, space, product, front, rear, arr, elem, reg, history>>

LoadsSize(p, d) ==
  /\ build = "torn"
  /\ Goes(p, "count", "store")
  /\ reg' = [reg EXCEPT ![p] = size + d]
  /\ UNCHANGED <<shared, elem, history>>

StoresSize(p) ==
  /\ Goes(p, "store", Returned(p))
  /\ size' = reg[p]
  /\ UNCHANGED <<exists, space, product, front, rear, arr, elem, reg, history>>

(* The producer formats an element and sem_wait on sem_space returns.      *)
WaitsForSpace(p) ==
  /\ Goes(p, "loop", "check")
  /\ made < MaxElems
  /\ space > 0
  /\ space' = space - 1
  /\ made' = made + 1
  /\ elem' = [elem EXCEPT ![p] = made']
  /\ UNCHANGED <<exists, product, front, rear, size, arr, reg, got, refused, kills>>

(* queue_add: its test of the free space, and the return on a full ring.   *)
AddChecks(p) ==
  /\ \/ size # QUEUE_MAX_SIZE /\ Goes(p, "check", "copy") /\ UNCHANGED refused
     \/ size = QUEUE_MAX_SIZE /\ Goes(p, "check", "post") /\ refused' = TRUE
  /\ UNCHANGED <<shared, elem, reg, made, got, kills>>

AddCopies(p) ==
  /\ Goes(p, "copy", "advance")
  /\ arr' = [arr EXCEPT ![rear] = elem[p]]
  /\ UNCHANGED <<exists, space, product, front, rear, size, elem, reg, history>>

AddAdvances(p) ==
  /\ Goes(p, "advance", "count")
  /\ rear' = (rear + 1) % QUEUE_MAX_SIZE
  /\ UNCHANGED <<exists, space, product, front, size, arr, elem, reg, history>>

PostsProduct(p) ==
  /\ Goes(p, "post", "loop")
  /\ product' = product + 1
  /\ UNCHANGED <<exists, space, front, rear, size, arr, elem, reg, history>>

WaitsForProduct(p) ==
  /\ Goes(p, "loop", "check")
  /\ product > 0
  /\ product' = product - 1
  /\ UNCHANGED <<exists, space, front, rear, size, arr, elem, reg, history>>

(* queue_pop: its test, and the return that leaves tmp as it was.          *)
PopChecks(p) ==
  /\ \/ size > 0 /\ Goes(p, "check", "copy") /\ UNCHANGED refused
     \/ size <= 0 /\ Goes(p, "check", "print") /\ refused' = TRUE
  /\ UNCHANGED <<shared, elem, reg, made, got, kills>>

PopCopies(p) ==
  /\ Goes(p, "copy", "advance")
  /\ elem' = [elem EXCEPT ![p] = arr[front]]
  /\ UNCHANGED <<shared, reg, history>>

(* A pop that forgets to count, for mutation.                              *)
ForgetsCount(p) ==
  /\ Goes(p, "advance", "print")
  /\ front' = (front + 1) % QUEUE_MAX_SIZE
  /\ UNCHANGED <<exists, space, product, rear, size, arr, elem, reg, history>>

(* A pop that skips an element, for mutation.                              *)
AdvancesByTwo(p) ==
  /\ Goes(p, "advance", "count")
  /\ front' = (front + 2) % QUEUE_MAX_SIZE
  /\ UNCHANGED <<exists, space, product, rear, size, arr, elem, reg, history>>

PopAdvances(p) ==
  /\ Goes(p, "advance", "count")
  /\ front' = (front + 1) % QUEUE_MAX_SIZE
  /\ UNCHANGED <<exists, space, product, rear, size, arr, elem, reg, history>>

Prints(p) ==
  /\ Goes(p, "print", "post")
  /\ got' = Append(got, elem[p])
  /\ UNCHANGED <<shared, elem, reg, made, refused, kills>>

PostsSpace(p) ==
  /\ Goes(p, "post", "loop")
  /\ space' = space + 1
  /\ UNCHANGED <<exists, product, front, rear, size, arr, elem, reg, history>>

-----------------------------------------------------------------------------
(* SIGINT, by its default action before main installs sig_int; the process *)
(* may then be started anew. What it had begun in the segment stays.       *)
Interrupted(p) ==
  /\ kills < MaxKills
  /\ pc[p] # "start"
  /\ pc' = [pc EXCEPT ![p] = "start"]
  /\ elem' = [elem EXCEPT ![p] = Garbage]
  /\ kills' = kills + 1
  /\ reg' = [reg EXCEPT ![p] = 0]
  /\ UNCHANGED <<build, shared, made, got, refused>>

GetShmId(p) ==
  \/ FindsSegment(p) \/ FindsNone(p) \/ Creates(p)
  \/ InitSpace(p) \/ InitProduct(p) \/ InitQueue(p)

Producer(p) ==
  \/ WaitsForSpace(p) \/ AddChecks(p) \/ AddCopies(p) \/ AddAdvances(p)
  \/ CountsWhole(p, 1) \/ LoadsSize(p, 1) \/ StoresSize(p) \/ PostsProduct(p)

Consumer(p) ==
  \/ WaitsForProduct(p) \/ PopChecks(p) \/ PopCopies(p) \/ PopAdvances(p)
  \/ CountsWhole(p, -1) \/ LoadsSize(p, -1) \/ StoresSize(p)
  \/ Prints(p) \/ PostsSpace(p)

Next ==
  \/ \E p \in Procs : GetShmId(p) \/ Interrupted(p)
  \/ \E p \in Producers : Producer(p)
  \/ \E p \in Consumers : Consumer(p)

Spec == Init /\ [][Next]_vars

-----------------------------------------------------------------------------
Holding == {p \in Procs : pc[p] \in {"check", "copy", "advance", "count", "store", "print", "post"}}

(***************************************************************************)
(* Every slot is free, filled, or held by a process between its two        *)
(* semaphore calls; a process ended in between loses at most one, and no   *)
(* restart makes one up. This does not depend on how size is updated.      *)
(***************************************************************************)
SlotsAccounted ==
  LET slots == space + product + Cardinality(Holding)
  IN  /\ slots <= QUEUE_MAX_SIZE
      /\ exists /\ Creating = {} /\ kills = 0 => slots = QUEUE_MAX_SIZE

(***************************************************************************)
(* Neither error line of queue_add and queue_pop is ever printed: the      *)
(* semaphores let a process in only when the ring can serve it, also after *)
(* processes ended half way. Needs updates of size that do not get lost.   *)
(***************************************************************************)
NeverRefused == build = "whole" => ~ refused

(***************************************************************************)
(* What is consumed was produced, in the order produced and never twice;   *)
(* as long as no process is ended, nothing is missing either.              *)
(***************************************************************************)
ConsumedInOrder ==
  build = "whole" =>
    /\ \A i \in 1 .. Len(got) : got[i] \in 1 .. made
    /\ \A i \in 1 .. Len(got) - 1 : got[i] < got[i + 1]
    /\ kills = 0 => \A i \in 1 .. Len(got) : got[i] = i

(***************************************************************************)
(* The same as NeverRefused for the build the makefile asks for. The code  *)
(* breaks it: producer and consumer lose each other's updates of size.     *)
(***************************************************************************)
NoErrorLine == ~ refused
=============================================================================
