------------------------------ MODULE QueueOps ------------------------------
(***************************************************************************)
(* The operations of util/queue/queue.c on one struct queue_t, as          *)
(* operators: a circular array plist of max_size pointers, the index head  *)
(* of the oldest one, the index rear of the next free slot, and a count.   *)
(* Thread pool and queue library both work on the struct through these.    *)
(***************************************************************************)
EXTENDS Integers, Sequences

CONSTANTS
  NULL,     \* the null pointer
  INDET     \* what malloc leaves in a slot nothing was stored in

(***************************************************************************)
(* queue_init: the struct after a successful allocation of size slots.     *)
(***************************************************************************)
queue_init(size) ==
  [head |-> 0, rear |-> 0, max_size |-> size, cur_size |-> 0,
   plist |-> [i \in 0 .. size - 1 |-> INDET]]

(* queue_destroy: every field cleared, plist freed and set to NULL.        *)
queue_destroy ==
  [head |-> 0, rear |-> 0, max_size |-> 0, cur_size |-> 0, plist |-> NULL]

queue_is_empty(que) == que.cur_size <= 0

queue_is_not_full(que) == que.cur_size < que.max_size

(* An enqueue that advances rear before it stores, for mutation.           *)
PushAfterAdvance(que, ptr) ==
  [que EXCEPT !.cur_size = @ + 1,
              !.plist[(que.rear + 1) % que.max_size] = ptr,
              !.rear = (@ + 1) % que.max_size]

(***************************************************************************)
(* The tail of queue_enqueue, after its checks: count, store, advance.     *)
(***************************************************************************)
queue_push(que, ptr) ==
  [que EXCEPT !.cur_size = @ + 1,
              !.plist[que.rear] = ptr,
              !.rear = (@ + 1) % que.max_size]

(* A dequeue that reads the newest slot, for mutation.                     *)
FrontNewest(que) == que.plist[(que.head + que.cur_size - 1) % que.max_size]

(***************************************************************************)
(* The tail of queue_dequeue, after its checks: what it stores in *ptr. A  *)
(* read outside the array may return anything, and is INDET here.          *)
(***************************************************************************)
queue_front(que) ==
  IF que.head \in DOMAIN que.plist THEN que.plist[que.head] ELSE INDET

(* A dequeue that forgets to wrap head, for mutation.                      *)
PopNoWrap(que) ==
  [que EXCEPT !.cur_size = @ - 1, !.head = @ + 1]

(* The struct queue_dequeue leaves.                                        *)
queue_pop(que) ==
  [que EXCEPT !.cur_size = @ - 1,
              !.head = (@ + 1) % que.max_size]

-----------------------------------------------------------------------------
(* The pointers a queue holds, oldest first.                               *)
Slot(que, i) == que.plist[(que.head + i - 1) % que.max_size]

Contents(que) == [i \in 1 .. que.cur_size |-> Slot(que, i)]

(***************************************************************************)
(* What every operation of the library keeps true of a queue it built: the *)
(* two indices lie in the array, and rear is cur_size slots past head.     *)
(***************************************************************************)
RingOK(que) ==
  /\ que.head \in 0 .. que.max_size - 1
  /\ que.cur_size \in 0 .. que.max_size
  /\ que.rear = (que.head + que.cur_size) % que.max_size

Rings(Vals, n) ==
  [head : 0 .. n - 1, rear : 0 .. n - 1, max_size : {n}, cur_size : 0 .. n,
   plist : [0 .. n - 1 -> Vals]]
=============================================================================
