---------------------------- MODULE QueueLemmas ----------------------------
(***************************************************************************)
(* What the operators of QueueOps do to a well-formed ring, for every      *)
(* capacity: the arithmetic of the wrap-around, once and for all.          *)
(***************************************************************************)
EXTENDS QueueOps, SequenceTheorems, TLAPS

(***************************************************************************)
(* The contents of a well-formed ring are a sequence of its values, of the *)
(* length cur_size says, read slot by slot from head on.                   *)
(***************************************************************************)
LEMMA ContentsIs ==
  ASSUME NEW Vals, NEW n \in Nat \ {0}, NEW que \in Rings(Vals, n),
         NEW c \in 0 .. n, que.cur_size = c
  PROVE  /\ Contents(que) \in Seq(Vals)
         /\ Len(Contents(que)) = c
         /\ \A i \in 1 .. c : Contents(que)[i] = Slot(que, i)
<1>1. PICK h \in 0 .. n - 1, f \in [0 .. n - 1 -> Vals] :
        que.head = h /\ que.plist = f /\ que.max_size = n
  BY DEF Rings
<1>2. ASSUME NEW i \in 1 .. c
      PROVE  Slot(que, i) \in Vals
  <2>1. (h + i - 1) % n \in 0 .. n - 1
    OBVIOUS
  <2>. QED
    BY <2>1, <1>1 DEF Slot
<1>3. Contents(que) = [i \in 1 .. c |-> Slot(que, i)]
  BY DEF Contents
<1>4. Contents(que) \in [1 .. c -> Vals] /\ c \in Nat
  BY <1>2, <1>3
<1>5. Contents(que) \in Seq(Vals) /\ Len(Contents(que)) = c
  BY <1>4
<1>. QED
  BY <1>3, <1>5

(* A count of 0 is an empty sequence, whatever the array.                  *)
LEMMA EmptyContents ==
  ASSUME NEW q, q.cur_size = 0
  PROVE  Contents(q) = <<>>
  BY DEF Contents

(* A ring just built is well formed and empty.                             *)
LEMMA FreshRing ==
  ASSUME NEW Vals, INDET \in Vals, NEW n \in Nat \ {0}
  PROVE  /\ queue_init(n) \in Rings(Vals, n)
         /\ RingOK(queue_init(n))
         /\ Contents(queue_init(n)) = <<>>
<1>1. queue_init(n).cur_size = 0
  BY DEF queue_init
<1>2. 0 = (0 + 0) % n
  OBVIOUS
<1>. QED
  BY <1>1, <1>2, EmptyContents DEF queue_init, Rings, RingOK

(***************************************************************************)
(* queue_enqueue keeps the ring well formed and appends the pointer to the *)
(* queue's contents (queue.c lines 100-102).                               *)
(***************************************************************************)
LEMMA PushAppends ==
  ASSUME NEW Vals, NEW n \in Nat \ {0}, NEW que \in Rings(Vals, n),
         RingOK(que), queue_is_not_full(que), NEW ptr \in Vals
  PROVE  /\ queue_push(que, ptr) \in Rings(Vals, n)
         /\ RingOK(queue_push(que, ptr))
         /\ Contents(que) \in Seq(Vals)
         /\ Len(Contents(que)) < n
         /\ Contents(queue_push(que, ptr)) = Append(Contents(que), ptr)
<1>1. PICK h \in 0 .. n - 1, c \in 0 .. n - 1, r \in 0 .. n - 1,
           f \in [0 .. n - 1 -> Vals] :
        /\ que.head = h /\ que.cur_size = c /\ que.max_size = n
        /\ que.rear = r /\ r = (h + c) % n /\ que.plist = f
  BY DEF Rings, RingOK, queue_is_not_full
<1> DEFINE new == queue_push(que, ptr)
           g == [f EXCEPT ![r] = ptr]
           old == Contents(que)
<1>2. (r + 1) % n \in 0 .. n - 1 /\ (r + 1) % n = (h + (c + 1)) % n
  BY <1>1
<1>3. /\ new.head = h /\ new.cur_size = c + 1 /\ new.max_size = n
      /\ new.rear = (r + 1) % n /\ new.plist = g
  BY <1>1 DEF queue_push, Rings
<1>4. new \in Rings(Vals, n)
  <2>1. /\ que.cur_size + 1 \in 0 .. n
        /\ [que.plist EXCEPT ![que.rear] = ptr] \in [0 .. n - 1 -> Vals]
        /\ (que.rear + 1) % que.max_size \in 0 .. n - 1
    BY <1>1, <1>2
  <2>. QED
    BY <2>1 DEF queue_push, Rings
<1>5. RingOK(new)
  BY <1>2, <1>3 DEF RingOK
<1> HIDE DEF new
<1>6. ASSUME NEW i \in 1 .. c
      PROVE  (h + i - 1) % n # r
  BY <1>1
<1>7. (h + (c + 1) - 1) % n = r
  BY <1>1
<1>8. /\ Contents(new) \in Seq(Vals) /\ Len(Contents(new)) = c + 1
      /\ \A i \in 1 .. c + 1 : Contents(new)[i] = g[(h + i - 1) % n]
  <2>1. c + 1 \in 0 .. n
    OBVIOUS
  <2>2. /\ Contents(new) \in Seq(Vals) /\ Len(Contents(new)) = c + 1
        /\ \A i \in 1 .. c + 1 : Contents(new)[i] = Slot(new, i)
    BY <2>1, <1>3, <1>4, ContentsIs
  <2>3. \A i \in 1 .. c + 1 : Slot(new, i) = g[(h + i - 1) % n]
    BY <1>3 DEF Slot
  <2>. QED
    BY <2>2, <2>3
<1>9. /\ old \in Seq(Vals) /\ Len(old) = c
      /\ \A i \in 1 .. c : old[i] = f[(h + i - 1) % n]
  <2>1. c \in 0 .. n
    OBVIOUS
  <2>2. /\ old \in Seq(Vals) /\ Len(old) = c
        /\ \A i \in 1 .. c : old[i] = Slot(que, i)
    BY <2>1, <1>1, ContentsIs
  <2>3. \A i \in 1 .. c : Slot(que, i) = f[(h + i - 1) % n]
    BY <1>1 DEF Slot
  <2>. QED
    BY <2>2, <2>3
<1> HIDE DEF old
<1>10. /\ Append(old, ptr) \in Seq(Vals) /\ Len(Append(old, ptr)) = c + 1
       /\ \A i \in 1 .. c : Append(old, ptr)[i] = old[i]
       /\ Append(old, ptr)[c + 1] = ptr
  BY <1>9
<1>11. ASSUME NEW i \in 1 .. c + 1
       PROVE  Contents(new)[i] = Append(old, ptr)[i]
  <2>1. CASE i = c + 1
    <3>1. Contents(new)[i] = g[r]
      BY <2>1, <1>7, <1>8
    <3>. QED
      BY <3>1, <2>1, <1>10
  <2>2. CASE i # c + 1
    <3>1. i \in 1 .. c
      BY <2>2
    <3>2. (h + i - 1) % n \in 0 .. n - 1 /\ (h + i - 1) % n # r
      BY <3>1, <1>1
    <3>3. g[(h + i - 1) % n] = f[(h + i - 1) % n]
      BY <3>2
    <3>. QED
      BY <3>1, <3>3, <1>8, <1>9, <1>10
  <2>. QED
    BY <2>1, <2>2
<1>12. Contents(new) = Append(old, ptr)
  BY <1>8, <1>10, <1>11, SeqEqual
<1>. QED
  BY <1>4, <1>5, <1>9, <1>12 DEF new, old

(***************************************************************************)
(* queue_dequeue hands out the oldest pointer and keeps the others, in     *)
(* order, in a well-formed ring (queue.c lines 117-119).                   *)
(***************************************************************************)
LEMMA PopTakesHead ==
  ASSUME NEW Vals, NEW n \in Nat \ {0}, NEW que \in Rings(Vals, n),
         RingOK(que), ~queue_is_empty(que)
  PROVE  /\ queue_pop(que) \in Rings(Vals, n)
         /\ RingOK(queue_pop(que))
         /\ Contents(que) \in Seq(Vals)
         /\ Contents(que) # <<>>
         /\ queue_front(que) = Head(Contents(que))
         /\ Contents(queue_pop(que)) = Tail(Contents(que))
<1>1. PICK h \in 0 .. n - 1, c \in 1 .. n, r \in 0 .. n - 1,
           f \in [0 .. n - 1 -> Vals] :
        /\ que.head = h /\ que.cur_size = c /\ que.max_size = n
        /\ que.rear = r /\ r = (h + c) % n /\ que.plist = f
  BY DEF Rings, RingOK, queue_is_empty
<1> DEFINE new == queue_pop(que)
           k == (h + 1) % n
           old == Contents(que)
<1>2. k \in 0 .. n - 1 /\ (k + (c - 1)) % n = (h + c) % n
  OBVIOUS
<1>3. /\ new.head = k /\ new.cur_size = c - 1 /\ new.max_size = n
      /\ new.rear = r /\ new.plist = f
  BY <1>1 DEF queue_pop, Rings
<1>4. new \in Rings(Vals, n)
  <2>1. /\ que.cur_size - 1 \in 0 .. n
        /\ (que.head + 1) % que.max_size \in 0 .. n - 1
    BY <1>1, <1>2
  <2>. QED
    BY <2>1 DEF queue_pop, Rings
<1>5. RingOK(new)
  <2>1. c - 1 \in 0 .. n
    OBVIOUS
  <2> HIDE DEF k, new
  <2>. QED
    BY <2>1, <1>1, <1>2, <1>3 DEF RingOK
<1> HIDE DEF new
<1>6. ASSUME NEW i \in 1 .. c - 1
      PROVE  (k + i - 1) % n = (h + (i + 1) - 1) % n
  OBVIOUS
<1>7. /\ Contents(new) \in Seq(Vals) /\ Len(Contents(new)) = c - 1
      /\ \A i \in 1 .. c - 1 : Contents(new)[i] = f[(k + i - 1) % n]
  <2>1. c - 1 \in 0 .. n
    OBVIOUS
  <2>2. /\ Contents(new) \in Seq(Vals) /\ Len(Contents(new)) = c - 1
        /\ \A i \in 1 .. c - 1 : Contents(new)[i] = Slot(new, i)
    BY <2>1, <1>3, <1>4, ContentsIs
  <2>3. \A i \in 1 .. c - 1 : Slot(new, i) = f[(k + i - 1) % n]
    BY <1>3 DEF Slot
  <2>. QED
    BY <2>2, <2>3
<1>8. /\ old \in Seq(Vals) /\ Len(old) = c
      /\ \A i \in 1 .. c : old[i] = f[(h + i - 1) % n]
  <2>1. c \in 0 .. n
    OBVIOUS
  <2>2. /\ old \in Seq(Vals) /\ Len(old) = c
        /\ \A i \in 1 .. c : old[i] = Slot(que, i)
    BY <2>1, <1>1, ContentsIs
  <2>3. \A i \in 1 .. c : Slot(que, i) = f[(h + i - 1) % n]
    BY <1>1 DEF Slot
  <2>. QED
    BY <2>2, <2>3
<1> HIDE DEF old
<1>9. old # <<>> /\ Head(old) = old[1]
  BY <1>8
<1>10. queue_front(que) = Head(old)
  <2>1. (h + 1 - 1) % n = h
    OBVIOUS
  <2>2. 1 \in 1 .. c
    OBVIOUS
  <2>3. old[1] = f[h]
    BY <2>1, <2>2, <1>8
  <2>. QED
    BY <2>3, <1>1, <1>9 DEF queue_front
<1>11. /\ Tail(old) \in Seq(Vals) /\ Len(Tail(old)) = c - 1
       /\ \A i \in 1 .. c - 1 : Tail(old)[i] = old[i + 1]
  BY <1>8, <1>9, HeadTailProperties
<1>12. ASSUME NEW i \in 1 .. c - 1
       PROVE  Contents(new)[i] = Tail(old)[i]
  <2>1. i + 1 \in 1 .. c
    OBVIOUS
  <2>2. old[i + 1] = f[(h + (i + 1) - 1) % n]
    BY <2>1, <1>8
  <2>. QED
    BY <2>2, <1>6, <1>7, <1>11
<1>13. Contents(new) = Tail(old)
  BY <1>7, <1>11, <1>12, SeqEqual
<1>. QED
  BY <1>4, <1>5, <1>8, <1>9, <1>10, <1>13 DEF new, old
=============================================================================
