------------------------------ MODULE CondList ------------------------------
(***************************************************************************)
(* thread/cond.c: producers push nodes on a linked list and consumers pop  *)
(* them, under one mutex and one condition variable. A critical section    *)
(* touches only the list and the threads asleep on cond, and is one step.  *)
(* Nodes are addresses: malloc hands them out and free takes them back, so *)
(* that a node taken twice or used after free would be seen.               *)
(***************************************************************************)
EXTENDS Naturals, Sequences, SequencesExt, FiniteSets

CONSTANTS
  Producers, Consumers,
  Nodes,    \* the heap: bounds how many nodes exist at once
  NULL

VARIABLES
  head,     \* the list, as the nodes met from head on
  hand,     \* the node in a thread's local tmp
  pc

vars == <<head, hand, pc>>

Workers == Producers \union Consumers

Init ==
  /\ head = <<>>
  /\ hand = [t \in Workers |-> NULL]
  /\ pc = [t \in Workers |-> IF t \in Producers THEN "malloc" ELSE "lock"]

Goes(t, from, to) == pc[t] = from /\ pc' = [pc EXCEPT ![t] = to]

InUse == ToSet(head) \union {hand[t] : t \in Workers}

(* malloc and the filling of the node, outside the mutex.                  *)
Malloc(p) ==
  /\ Goes(p, "malloc", "push")
  /\ \E n \in Nodes \ InUse : hand' = [hand EXCEPT ![p] = n]
  /\ UNCHANGED head

Asleep == {c \in Consumers : pc[c] = "asleep"}

(* A signal nobody hears, for mutation.                                    *)
SignalNone(at) == pc' = at

(* pthread_cond_signal wakes one thread if any waits; at is pc after the   *)
(* step of the caller itself.                                              *)
Signal(at) ==
  \/ Asleep = {} /\ pc' = at
  \/ \E c \in Asleep : pc' = [at EXCEPT ![c] = "woken"]

Push(p) ==
  /\ pc[p] = "push"
  /\ head' = <<hand[p]>> \o head
  /\ hand' = [hand EXCEPT ![p] = NULL]
  /\ Signal([pc EXCEPT ![p] = "malloc"])

(* A consumer that does not look at the list again once it was woken, for  *)
(* mutation.                                                               *)
LooksOnce(c) == pc[c] = "lock" /\ head = <<>>

(* while (NULL == head), at the start of the section and after each wait.  *)
MustWait(c) == pc[c] \in {"lock", "woken"} /\ head = <<>>

Waits(c) ==
  /\ MustWait(c)
  /\ pc' = [pc EXCEPT ![c] = "asleep"]
  /\ UNCHANGED <<head, hand>>

(* Takes the first node; taking from an empty list reads through NULL.     *)
Pop(c) ==
  /\ pc[c] \in {"lock", "woken"}
  /\ ~ MustWait(c)
  /\ IF head = <<>>
     THEN pc' = [pc EXCEPT ![c] = "crashed"] /\ UNCHANGED <<head, hand>>
     ELSE /\ hand' = [hand EXCEPT ![c] = Head(head)]
          /\ head' = Tail(head)
          /\ pc' = [pc EXCEPT ![c] = "free"]

Free(c) ==
  /\ Goes(c, "free", "lock")
  /\ hand' = [hand EXCEPT ![c] = NULL]
  /\ UNCHANGED head

(* pthread_cond_wait may return without a signal.                          *)
WakesSpuriously(c) ==
  /\ Goes(c, "asleep", "woken")
  /\ UNCHANGED <<head, hand>>

Consumer(c) == Waits(c) \/ Pop(c) \/ Free(c) \/ WakesSpuriously(c)

Next ==
  \/ \E p \in Producers : Malloc(p) \/ Push(p)
  \/ \E c \in Consumers : Consumer(c)

Spec == Init /\ [][Next]_vars

-----------------------------------------------------------------------------
(***************************************************************************)
(* A node is in one place only: nobody frees a node another thread or the  *)
(* list still has, and no consumer reads through NULL.                     *)
(***************************************************************************)
OnePlace ==
  /\ IsInjective(head)
  /\ \A t \in Workers : hand[t] \notin ToSet(head)
  /\ \A s, t \in Workers : hand[s] = hand[t] /\ hand[s] # NULL => s = t
  /\ \A c \in Consumers : pc[c] # "crashed"

(***************************************************************************)
(* No lost wake-up: while somebody sleeps, every node on the list has an   *)
(* awake consumer of its own on the way, whoever else takes nodes first.   *)
(***************************************************************************)
WakeUpPerNode ==
  Asleep # {} => Len(head) <= Cardinality({c \in Consumers : pc[c] = "woken"})
=============================================================================
