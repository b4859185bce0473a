------------------------------- MODULE Queue -------------------------------
(***************************************************************************)
(* util/queue/queue.c: one struct queue_t and the calls a program makes on *)
(* it, in any order the library's own checks allow for: the queue is built *)
(* with queue_init before any other call, may be used again after          *)
(* queue_destroy, and may then be built anew.                              *)
(***************************************************************************)
EXTENDS QueueOps

CONSTANTS
  Ptrs,      \* the non-null pointers callers store
  MaxSize    \* bound on the size argument of queue_init

ASSUME QueueAssumption ==
  /\ MaxSize \in Nat \ {0}
  /\ NULL \notin Ptrs
  /\ INDET \notin Ptrs
  /\ \A n \in 1 .. MaxSize : NULL \notin [0 .. n - 1 -> Ptrs \cup {INDET}]

VARIABLES
  que,     \* the struct queue_t
  ret,     \* the return value of the last call, QUEUE_SUCCESS or QUEUE_FAILED
  out,     \* the caller's variable that queue_dequeue writes through ptr
  fault    \* TRUE once plist was read or written outside its allocation

vars == <<que, ret, out, fault>>

QUEUE_SUCCESS == 1
QUEUE_FAILED == 0

(* The array allocated for plist has a slot i.                             *)
Allocated(i) == que.plist # NULL /\ i \in DOMAIN que.plist

(***************************************************************************)
(* The program's first call built the queue (before it, the fields hold    *)
(* garbage and every other call is undefined); out is not yet written.     *)
(***************************************************************************)
Init ==
  /\ que \in {queue_init(size) : size \in 1 .. MaxSize}
  /\ ret = QUEUE_SUCCESS
  /\ out = INDET
  /\ fault = FALSE

(* size <= 0, or malloc fails: the struct is left alone.                   *)
InitFails ==
  /\ ret' = QUEUE_FAILED
  /\ UNCHANGED <<que, out, fault>>

InitSucceeds(size) ==
  /\ size > 0
  /\ que.plist = NULL
  /\ que' = queue_init(size)
  /\ ret' = QUEUE_SUCCESS
  /\ UNCHANGED <<out, fault>>

Destroy ==
  /\ que' = queue_destroy
  /\ ret' = QUEUE_SUCCESS
  /\ UNCHANGED <<out, fault>>

Enqueue(ptr) ==
  IF ptr = NULL \/ ~queue_is_not_full(que)
  THEN /\ ret' = QUEUE_FAILED
       /\ UNCHANGED <<que, out, fault>>
  ELSE /\ que' = queue_push(que, ptr)
       /\ ret' = QUEUE_SUCCESS
       /\ fault' = (fault \/ ~Allocated(que.rear))
       /\ UNCHANGED out

Dequeue ==
  IF queue_is_empty(que)
  THEN /\ ret' = QUEUE_FAILED
       /\ UNCHANGED <<que, out, fault>>
  ELSE /\ que' = queue_pop(que)
       /\ out' = queue_front(que)
       /\ ret' = QUEUE_SUCCESS
       /\ fault' = (fault \/ ~Allocated(que.head))

Next ==
  \/ InitFails
  \/ \E size \in 0 .. MaxSize : InitSucceeds(size)
  \/ Destroy
  \/ \E ptr \in Ptrs \cup {NULL} : Enqueue(ptr)
  \/ Dequeue

Spec == Init /\ [][Next]_vars

-----------------------------------------------------------------------------
TypeOK ==
  /\ \/ que = queue_destroy
     \/ \E n \in 1 .. MaxSize : que \in Rings(Ptrs \cup {INDET}, n)
  /\ ret \in {QUEUE_SUCCESS, QUEUE_FAILED}
  /\ out \in Ptrs \cup {INDET}
  /\ fault \in BOOLEAN

(***************************************************************************)
(* No call ever reaches outside the array plist points to, neither at the  *)
(* wrap-around of head and rear nor after queue_destroy has freed it       *)
(* (queue.c lines 92-122: the tests on cur_size are all that guards the    *)
(* accesses).                                                              *)
(***************************************************************************)
NoWildAccess == ~fault

(***************************************************************************)
(* The slots from head on that cur_size counts are exactly those that hold *)
(* a pointer some caller stored: a dequeue can never hand out a slot malloc *)
(* left uninitialised.                                                     *)
(***************************************************************************)
StoredOnly ==
  que # queue_destroy =>
     /\ RingOK(que)
     /\ \A i \in 1 .. que.cur_size : Slot(que, i) \in Ptrs

(***************************************************************************)
(* The circular array behaves as a bounded first-in first-out queue.       *)
(***************************************************************************)
Fifo == INSTANCE BoundedFifo WITH
          items <- Contents(que), capacity <- que.max_size,
          taken <- out, Nothing <- INDET

ImplementsFifo == Fifo!Spec
=============================================================================
