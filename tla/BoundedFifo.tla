---------------------------- MODULE BoundedFifo ----------------------------
(***************************************************************************)
(* What util/queue promises its callers: a first-in first-out queue of at  *)
(* most capacity pointers. A call that cannot be served changes nothing.   *)
(***************************************************************************)
EXTENDS Integers, Sequences

CONSTANTS
  Ptrs,     \* the pointers callers put in
  Nothing   \* what taken is before the first Take

VARIABLES
  items,     \* the pointers held, oldest first
  capacity,  \* how many the queue can hold; 0 when there is no queue
  taken      \* the pointer the last successful Take handed out

vars == <<items, capacity, taken>>

Init ==
  /\ items = <<>>
  /\ capacity \in Nat \ {0}
  /\ taken = Nothing

Open ==
  /\ capacity = 0
  /\ capacity' \in Nat \ {0}
  /\ UNCHANGED <<items, taken>>

Put(p) ==
  /\ Len(items) < capacity
  /\ items' = Append(items, p)
  /\ UNCHANGED <<capacity, taken>>

Take ==
  /\ items # <<>>
  /\ taken' = Head(items)
  /\ items' = Tail(items)
  /\ UNCHANGED capacity

Close ==
  /\ items' = <<>>
  /\ capacity' = 0
  /\ UNCHANGED taken

Next ==
  \/ Open
  \/ \E p \in Ptrs : Put(p)
  \/ Take
  \/ Close

Spec == Init /\ [][Next]_vars
=============================================================================
