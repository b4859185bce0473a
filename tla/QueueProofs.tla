---------------------------- MODULE QueueProofs ----------------------------
(***************************************************************************)
(* For rings of every size and pointers of every kind: the queue library   *)
(* never leaves its array and implements a bounded first-in first-out      *)
(* queue. QInv below is inductive; StoredOnly, as it stands, needs TypeOK  *)
(* beside it to say what the slots may hold.                               *)
(***************************************************************************)
EXTENDS Queue, QueueLemmas

Cells == Ptrs \cup {INDET}

(* A queue in use: built, well formed, holding only pointers stored in it. *)
Built ==
  \E n \in 1 .. MaxSize :
     que \in Rings(Cells, n) /\ RingOK(que) /\ Contents(que) \in Seq(Ptrs)

(* A queue destroyed.                                                      *)
Gone == que = queue_destroy

QInv ==
  /\ Built \/ Gone
  /\ ret \in {QUEUE_SUCCESS, QUEUE_FAILED}
  /\ out \in Cells
  /\ fault = FALSE

(* The sizes a program asks for.                                           *)
LEMMA Sizes ==
  ASSUME NEW n \in 1 .. MaxSize
  PROVE  n \in Nat \ {0} /\ INDET \in Cells
  BY QueueAssumption DEF Cells

(* QInv says all that the runs check of one state.                         *)
LEMMA QInvImplies == QInv => TypeOK /\ NoWildAccess /\ StoredOnly
<1> SUFFICES ASSUME QInv
             PROVE  TypeOK /\ NoWildAccess /\ StoredOnly
  OBVIOUS
<1>1. NoWildAccess
  BY DEF QInv, NoWildAccess
<1>2. TypeOK
  BY DEF QInv, TypeOK, Built, Gone, Cells
<1>3. StoredOnly
  <2>1. CASE Gone
    BY <2>1 DEF Gone, StoredOnly
  <2>2. CASE Built
    <3>1. PICK n \in 1 .. MaxSize :
            que \in Rings(Cells, n) /\ RingOK(que) /\ Contents(que) \in Seq(Ptrs)
      BY <2>2 DEF Built
    <3>2. n \in Nat \ {0}
      BY QueueAssumption
    <3>3. que.cur_size \in 0 .. n
      BY <3>1 DEF Rings
    <3>4. /\ Len(Contents(que)) = que.cur_size
          /\ \A i \in 1 .. que.cur_size : Contents(que)[i] = Slot(que, i)
      BY <3>1, <3>2, <3>3, ContentsIs
    <3>5. \A i \in 1 .. que.cur_size : Contents(que)[i] \in Ptrs
      BY <3>1, <3>4, ElementOfSeq
    <3>. QED
      BY <3>1, <3>4, <3>5 DEF StoredOnly
  <2>. QED
    BY <2>1, <2>2 DEF QInv
<1>. QED
  BY <1>1, <1>2, <1>3

(* queue_init makes a well formed queue.                                   *)
LEMMA QInvInit == Init => QInv
<1> SUFFICES ASSUME Init
             PROVE  QInv
  OBVIOUS
<1>1. PICK n \in 1 .. MaxSize : que = queue_init(n)
  BY DEF Init
<1>2. Built
  BY <1>1, FreshRing, Sizes, EmptySeq DEF Built
<1>. QED
  BY <1>2 DEF Init, QInv, Cells

(***************************************************************************)
(* What a successful enqueue and a successful dequeue do, whatever the     *)
(* size of the ring.                                                       *)
(***************************************************************************)
LEMMA EnqueueStep ==
  ASSUME QInv, NEW ptr \in Ptrs, queue_is_not_full(que), Enqueue(ptr)
  PROVE  /\ Built'
         /\ fault' = FALSE
         /\ Len(Contents(que)) < que.max_size
         /\ que'.max_size = que.max_size
         /\ Contents(que') = Append(Contents(que), ptr)
<1>1. ~Gone
  BY DEF Gone, queue_destroy, queue_is_not_full
<1>2. PICK n \in 1 .. MaxSize :
        que \in Rings(Cells, n) /\ RingOK(que) /\ Contents(que) \in Seq(Ptrs)
  BY <1>1 DEF QInv, Built
<1>3. n \in Nat \ {0} /\ ptr \in Cells
  BY QueueAssumption DEF Cells
<1>4. que' = queue_push(que, ptr) /\ fault' = (fault \/ ~Allocated(que.rear))
  BY QueueAssumption DEF Enqueue
<1>5. /\ que' \in Rings(Cells, n) /\ RingOK(que')
      /\ Len(Contents(que)) < n
      /\ Contents(que') = Append(Contents(que), ptr)
  BY <1>2, <1>3, <1>4, PushAppends
<1>6. Contents(que') \in Seq(Ptrs)
  BY <1>2, <1>5
<1>7. que.max_size = n /\ que'.max_size = n
  BY <1>2, <1>5 DEF Rings
<1>8. que.plist \in [0 .. n - 1 -> Cells] /\ que.rear \in 0 .. n - 1
  BY <1>2 DEF Rings
<1>9. que.plist # NULL
  BY <1>8, QueueAssumption DEF Cells
<1>10. Allocated(que.rear)
  BY <1>8, <1>9 DEF Allocated
<1>11. Contents(que)' = Contents(que')
  BY DEF Contents, Slot
<1>12. Built'
  BY <1>5, <1>6, <1>11 DEF Built, RingOK
<1>13. fault' = FALSE
  BY <1>4, <1>10 DEF QInv
<1>. QED
  BY <1>5, <1>7, <1>12, <1>13

(* queue_dequeue on a queue that is not empty takes off its oldest         *)
(* element.                                                                *)
LEMMA DequeueStep ==
  ASSUME QInv, ~queue_is_empty(que), Dequeue
  PROVE  /\ Built'
         /\ fault' = FALSE
         /\ que'.max_size = que.max_size
         /\ Contents(que) # <<>>
         /\ out' \in Ptrs
         /\ out' = Head(Contents(que))
         /\ Contents(que') = Tail(Contents(que))
<1>1. ~Gone
  BY DEF Gone, queue_destroy, queue_is_empty
<1>2. PICK n \in 1 .. MaxSize :
        que \in Rings(Cells, n) /\ RingOK(que) /\ Contents(que) \in Seq(Ptrs)
  BY <1>1 DEF QInv, Built
<1>3. n \in Nat \ {0}
  BY QueueAssumption
<1>4. /\ que' = queue_pop(que) /\ out' = queue_front(que)
      /\ fault' = (fault \/ ~Allocated(que.head))
  BY DEF Dequeue
<1>5. /\ que' \in Rings(Cells, n) /\ RingOK(que')
      /\ Contents(que) # <<>>
      /\ out' = Head(Contents(que))
      /\ Contents(que') = Tail(Contents(que))
  BY <1>2, <1>3, <1>4, PopTakesHead
<1>6. Contents(que') \in Seq(Ptrs) /\ out' \in Ptrs
  BY <1>2, <1>5, HeadTailProperties
<1>7. que.max_size = n /\ que'.max_size = n
  BY <1>2, <1>5 DEF Rings
<1>8. que.plist \in [0 .. n - 1 -> Cells] /\ que.head \in 0 .. n - 1
  BY <1>2 DEF Rings
<1>9. Allocated(que.head)
  BY <1>8, QueueAssumption DEF Allocated, Cells
<1>11. Contents(que)' = Contents(que')
  BY DEF Contents, Slot
<1>12. Built'
  BY <1>5, <1>6, <1>11 DEF Built, RingOK
<1>13. fault' = FALSE
  BY <1>4, <1>9 DEF QInv
<1>. QED
  BY <1>5, <1>6, <1>7, <1>12, <1>13

(* A queue whose array is NULL is a destroyed one.                         *)
LEMMA NullIsGone ==
  ASSUME QInv, que.plist = NULL
  PROVE  Gone
<1>1. ASSUME NEW n \in 1 .. MaxSize, que \in Rings(Cells, n)
      PROVE  FALSE
  <2>1. que.plist \in [0 .. n - 1 -> Cells]
    BY <1>1 DEF Rings
  <2>. QED
    BY <2>1, QueueAssumption DEF Cells
<1>. QED
  BY <1>1 DEF QInv, Built

(* An enqueue that stores, an enqueue or a dequeue that is refused.        *)
LEMMA EnqueueCases ==
  ASSUME NEW ptr \in Ptrs \cup {NULL}, Enqueue(ptr)
  PROVE  \/ UNCHANGED <<que, out, fault>> /\ ret' = QUEUE_FAILED
         \/ /\ ptr \in Ptrs /\ queue_is_not_full(que)
            /\ ret' = QUEUE_SUCCESS /\ out' = out
  BY DEF Enqueue

(***************************************************************************)
(* QInv is inductive: no call of the library breaks it.                    *)
(***************************************************************************)
LEMMA QInvNext ==
  ASSUME QInv, [Next]_vars
  PROVE  QInv'
<1> USE DEF QUEUE_SUCCESS, QUEUE_FAILED
<1>0. ASSUME que' = que
      PROVE  (Built \/ Gone)'
  BY <1>0 DEF QInv, Built, Gone, RingOK, Contents, Slot
<1>1. CASE InitFails
  BY <1>0, <1>1 DEF InitFails, QInv
<1>2. ASSUME NEW size \in 0 .. MaxSize, InitSucceeds(size)
      PROVE  QInv'
  <2>1. size \in 1 .. MaxSize /\ que' = queue_init(size)
    BY <1>2 DEF InitSucceeds
  <2>2. Contents(que)' = Contents(que')
    BY DEF Contents, Slot
  <2>3. Built'
    BY <2>1, <2>2, FreshRing, Sizes, EmptySeq DEF Built, RingOK
  <2>. QED
    BY <1>2, <2>3 DEF InitSucceeds, QInv
<1>3. CASE Destroy
  BY <1>3 DEF Destroy, QInv, Gone, queue_destroy
<1>4. ASSUME NEW ptr \in Ptrs \cup {NULL}, Enqueue(ptr)
      PROVE  QInv'
  <2>1. CASE UNCHANGED <<que, out, fault>> /\ ret' = QUEUE_FAILED
    BY <1>0, <2>1 DEF QInv
  <2>2. CASE /\ ptr \in Ptrs /\ queue_is_not_full(que)
             /\ ret' = QUEUE_SUCCESS /\ out' = out
    <3>1. Built' /\ fault' = FALSE
      BY <1>4, <2>2, EnqueueStep
    <3>. QED
      BY <2>2, <3>1 DEF QInv
  <2>. QED
    BY <1>4, <2>1, <2>2, EnqueueCases
<1>5. CASE Dequeue
  <2>1. CASE queue_is_empty(que)
    <3>1. UNCHANGED <<que, out, fault>> /\ ret' = QUEUE_FAILED
      BY <1>5, <2>1 DEF Dequeue
    <3>. QED
      BY <1>0, <3>1 DEF QInv
  <2>2. CASE ~queue_is_empty(que)
    <3>1. Built' /\ fault' = FALSE /\ out' \in Ptrs
      BY <1>5, <2>2, DequeueStep
    <3>2. ret' = QUEUE_SUCCESS
      BY <1>5, <2>2 DEF Dequeue
    <3>. QED
      BY <3>1, <3>2 DEF QInv, Cells
  <2>. QED
    BY <2>1, <2>2
<1>6. CASE UNCHANGED vars
  BY <1>0, <1>6 DEF vars, QInv
<1>. QED
  BY <1>1, <1>2, <1>3, <1>4, <1>5, <1>6 DEF Next

(* The queue is well formed throughout the runs.                           *)
LEMMA QInvAlways == Spec => []QInv
  BY QInvInit, QInvNext, PTL DEF Spec

(***************************************************************************)
(* For every size and every set of pointers, no sequence of calls makes    *)
(* queue.c touch memory outside plist, neither at the wrap-around nor      *)
(* after queue_destroy.                                                    *)
(***************************************************************************)
THEOREM QueueSafe == Spec => []NoWildAccess
  BY QInvAlways, QInvImplies, PTL

(***************************************************************************)
(* A dequeue hands out a pointer some caller stored, never a slot that     *)
(* malloc left uninitialised.                                              *)
(***************************************************************************)
THEOREM QueueStoredOnly == Spec => []StoredOnly
  BY QInvAlways, QInvImplies, PTL

(***************************************************************************)
(* The struct keeps its type: head and rear stay in the array, cur_size    *)
(* within its capacity.                                                    *)
(***************************************************************************)
THEOREM QueueTypeOK == Spec => []TypeOK
  BY QInvAlways, QInvImplies, PTL

-----------------------------------------------------------------------------
(* A queue just made is the empty FIFO of the same bound.                  *)
LEMMA FifoInit == Init => Fifo!Init
<1> SUFFICES ASSUME Init
             PROVE  Fifo!Init
  OBVIOUS
<1>1. PICK n \in 1 .. MaxSize : que = queue_init(n)
  BY DEF Init
<1>2. Contents(que) = <<>>
  BY <1>1, FreshRing, Sizes
<1>3. que.max_size = n /\ n \in Nat \ {0}
  BY <1>1, QueueAssumption DEF queue_init
<1>. QED
  BY <1>2, <1>3 DEF Init, Fifo!Init

(* Every call of the queue is a step of the FIFO, or leaves it as it was.  *)
LEMMA FifoStep ==
  ASSUME QInv, [Next]_vars
  PROVE  [Fifo!Next]_(Fifo!vars)
<1>0. ASSUME UNCHANGED <<que, out>>
      PROVE  UNCHANGED Fifo!vars
  BY <1>0 DEF Fifo!vars, Contents, Slot
<1>a. Contents(que)' = Contents(que')
  BY DEF Contents, Slot
<1>1. CASE InitFails
  BY <1>0, <1>1 DEF InitFails
<1>2. ASSUME NEW size \in 0 .. MaxSize, InitSucceeds(size)
      PROVE  Fifo!Open
  <2>1. Gone
    BY <1>2, NullIsGone DEF InitSucceeds
  <2>2. que.max_size = 0 /\ Contents(que) = <<>>
    BY <2>1, EmptyContents DEF Gone, queue_destroy
  <2>3. size \in 1 .. MaxSize /\ que' = queue_init(size) /\ out' = out
    BY <1>2 DEF InitSucceeds
  <2>4. Contents(que') = <<>>
    BY <2>3, FreshRing, Sizes
  <2>5. que'.max_size = size /\ size \in Nat \ {0}
    BY <2>3, QueueAssumption DEF queue_init
  <2>. QED
    BY <1>a, <2>2, <2>3, <2>4, <2>5 DEF Fifo!Open
<1>3. CASE Destroy
  <2>1. que' = queue_destroy /\ out' = out
    BY <1>3 DEF Destroy
  <2>2. que'.max_size = 0 /\ Contents(que') = <<>>
    BY <2>1, EmptyContents DEF queue_destroy
  <2>. QED
    BY <1>a, <2>1, <2>2 DEF Fifo!Next, Fifo!Close
<1>4. ASSUME NEW ptr \in Ptrs \cup {NULL}, Enqueue(ptr)
      PROVE  [Fifo!Next]_(Fifo!vars)
  <2>1. CASE UNCHANGED <<que, out, fault>> /\ ret' = QUEUE_FAILED
    BY <1>0, <2>1
  <2>2. CASE /\ ptr \in Ptrs /\ queue_is_not_full(que)
             /\ ret' = QUEUE_SUCCESS /\ out' = out
    <3>1. /\ Len(Contents(que)) < que.max_size
          /\ que'.max_size = que.max_size
          /\ Contents(que') = Append(Contents(que), ptr)
      BY <1>4, <2>2, EnqueueStep
    <3>2. Fifo!Put(ptr)
      BY <1>a, <2>2, <3>1 DEF Fifo!Put
    <3>. QED
      BY <2>2, <3>2 DEF Fifo!Next
  <2>. QED
    BY <1>4, <2>1, <2>2, EnqueueCases
<1>5. CASE Dequeue
  <2>1. CASE queue_is_empty(que)
    <3>1. UNCHANGED <<que, out, fault>>
      BY <1>5, <2>1 DEF Dequeue
    <3>. QED
      BY <1>0, <3>1
  <2>2. CASE ~queue_is_empty(que)
    <3>1. /\ que'.max_size = que.max_size
          /\ Contents(que) # <<>>
          /\ out' = Head(Contents(que))
          /\ Contents(que') = Tail(Contents(que))
      BY <1>5, <2>2, DequeueStep
    <3>. QED
      BY <1>a, <3>1 DEF Fifo!Next, Fifo!Take
  <2>. QED
    BY <2>1, <2>2
<1>6. CASE UNCHANGED vars
  BY <1>0, <1>6 DEF vars
<1>. QED
  BY <1>1, <1>2, <1>3, <1>4, <1>5, <1>6 DEF Next, Fifo!Next

(***************************************************************************)
(* The circular array of queue.c implements the bounded first-in first-out *)
(* queue, for every capacity and every set of pointers.                    *)
(***************************************************************************)
THEOREM QueueIsFifo == Spec => ImplementsFifo
<1>1. QInv /\ [Next]_vars => [Fifo!Next]_(Fifo!vars)
  BY FifoStep
<1>. QED
  BY <1>1, QInvAlways, FifoInit, PTL DEF Spec, ImplementsFifo, Fifo!Spec
=============================================================================
