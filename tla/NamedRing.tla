------------------------------ MODULE NamedRing ------------------------------
(***************************************************************************)
(* process_func/IPC/POSIX_SEMAPHORE/named_semaphore.c: the ring of         *)
(* SharedRing with semaphores that live apart from it, under names of      *)
(* their own. What is at stake is that those who share a ring share its    *)
(* semaphores, over starts, SIGINT and SIGQUIT, which removes segment and  *)
(* names one by one while processes go on with what they have. queue_add   *)
(* and queue_pop are one step here; SharedRing has them access by access.  *)
(***************************************************************************)
EXTENDS Naturals, Sequences

CONSTANTS
  Producers, Consumers,
  QUEUE_MAX_SIZE,
  Segments,    \* bound: 1 .. n, the segments ever made, and the semaphores of each name
  MaxElems,    \* bound: elements produced
  MaxKills,    \* bound: processes ended by SIGINT
  None

VARIABLES
  keyed,     \* the segment of the key, or None
  named,     \* per name, "space" and "product", its semaphore, or None
  ring,      \* per segment the elements in it
  value,     \* per name and semaphore its value
  made,      \* per kind how many there were: segments and semaphores
  pc,        \* per process
  shmid,     \* per process its segment
  sem,       \* per process its two semaphores
  quitting,  \* per process what sig_quit has still to remove
  elems, kills,
  refused    \* history: a queue function printed its error line

mine == <<pc, shmid, sem, quitting>>
kept == <<keyed, named, made>>
vars == <<kept, ring, value, mine, elems, kills, refused>>

Procs == Producers \union Consumers
Names == {"space", "product"}
Things == <<"segment", "space", "product">>

Init ==
  /\ keyed = None
  /\ named = [n \in Names |-> None]
  /\ ring = [s \in Segments |-> <<>>]
  /\ value = [n \in Names |-> [s \in Segments |-> 0]]
  /\ made = [t \in Names \union {"segment"} |-> 0]
  /\ pc = [p \in Procs |-> "none"]
  /\ shmid = [p \in Procs |-> None]
  /\ sem = [p \in Procs |-> [n \in Names |-> None]]
  /\ quitting = [p \in Procs |-> <<>>]
  /\ elems = 0 /\ kills = 0 /\ refused = FALSE

To(p, from, to) ==
  /\ pc[p] = from /\ quitting[p] = <<>>
  /\ pc' = [pc EXCEPT ![p] = to]
  /\ UNCHANGED quitting

Starting == {p \in Procs : pc[p] \in {"created", "opens space", "opens product"}}

(* Assumed of the user: nothing is started while another process starts or *)
(* removes the ring.                                                       *)
MayStart == Starting = {} /\ \A p \in Procs : quitting[p] = <<>>

-----------------------------------------------------------------------------
(* GetShmId.                                                               *)
FindsSegment(p) ==
  /\ To(p, "none", "opens space")
  /\ MayStart /\ keyed # None
  /\ shmid' = [shmid EXCEPT ![p] = keyed]
  /\ UNCHANGED <<kept, ring, value, sem, elems, kills, refused>>

Creates(p) ==
  /\ To(p, "none", "created")
  /\ MayStart /\ keyed = None
  /\ made["segment"] + 1 \in Segments
  /\ made' = [made EXCEPT !["segment"] = @ + 1]
  /\ keyed' = made'["segment"]
  /\ shmid' = [shmid EXCEPT ![p] = keyed']
  /\ UNCHANGED <<named, ring, value, sem, elems, kills, refused>>

queue_init(p) ==
  /\ To(p, "created", "opens space")
  /\ ring' = [ring EXCEPT ![shmid[p]] = <<>>]
  /\ UNCHANGED <<kept, value, shmid, sem, elems, kills, refused>>

(* sem_open with O_CREAT: the initial value counts only for a new one.     *)
sem_open(p, n, initial) ==
  /\ \/ /\ named[n] # None
        /\ UNCHANGED <<named, value, made>>
     \/ /\ named[n] = None
        /\ made[n] + 1 \in Segments
        /\ made' = [made EXCEPT ![n] = @ + 1]
        /\ named' = [named EXCEPT ![n] = made'[n]]
        /\ value' = [value EXCEPT ![n][made'[n]] = initial]
  /\ sem' = [sem EXCEPT ![p][n] = named'[n]]
  /\ UNCHANGED <<keyed, ring, shmid, elems, kills, refused>>

OpensSpace(p) == To(p, "opens space", "opens product") /\ sem_open(p, "space", QUEUE_MAX_SIZE)
OpensProduct(p) == To(p, "opens product", "loop") /\ sem_open(p, "product", 0)

-----------------------------------------------------------------------------
Waits(p, n) ==
  /\ To(p, "loop", "inside")
  /\ value[n][sem[p][n]] > 0
  /\ value' = [value EXCEPT ![n][sem[p][n]] = @ - 1]
  /\ UNCHANGED <<kept, ring, shmid, sem, elems, kills, refused>>

queue_add(p) ==
  /\ To(p, "inside", "served")
  /\ elems < MaxElems
  /\ elems' = elems + 1
  /\ IF Len(ring[shmid[p]]) < QUEUE_MAX_SIZE
     THEN ring' = [ring EXCEPT ![shmid[p]] = Append(@, elems')] /\ UNCHANGED refused
     ELSE refused' = TRUE /\ UNCHANGED ring
  /\ UNCHANGED <<kept, value, shmid, sem, kills>>

queue_pop(p) ==
  /\ To(p, "inside", "served")
  /\ IF ring[shmid[p]] # <<>>
     THEN ring' = [ring EXCEPT ![shmid[p]] = Tail(@)] /\ UNCHANGED refused
     ELSE refused' = TRUE /\ UNCHANGED ring
  /\ UNCHANGED <<kept, value, shmid, sem, elems, kills>>

Posts(p, n) ==
  /\ To(p, "served", "loop")
  /\ value' = [value EXCEPT ![n][sem[p][n]] = @ + 1]
  /\ UNCHANGED <<kept, ring, shmid, sem, elems, kills, refused>>

Producer(p) == Waits(p, "space") \/ queue_add(p) \/ Posts(p, "product")
Consumer(p) == Waits(p, "product") \/ queue_pop(p) \/ Posts(p, "space")

-----------------------------------------------------------------------------
(* sig_quit interrupts the process where it is. Assumed of the user: who   *)
(* gets SIGQUIT still works on the segment of the key, for it would unlink *)
(* the names of a newer ring.                                              *)
sig_quit(p) ==
  /\ pc[p] \in {"loop", "inside", "served"} /\ quitting[p] = <<>>
  /\ MayStart /\ keyed = shmid[p]
  /\ quitting' = [quitting EXCEPT ![p] = Things]
  /\ UNCHANGED <<kept, ring, value, pc, shmid, sem, elems, kills, refused>>

(* A sig_quit that leaves a name, for mutation.                            *)
ForgetsProduct(p) ==
  /\ quitting[p] # <<>>
  /\ LET t == Head(quitting[p])
     IN IF t = "segment" THEN keyed' = None /\ UNCHANGED named
                         ELSE named' = [named EXCEPT !["space"] = None] /\ UNCHANGED keyed
  /\ quitting' = [quitting EXCEPT ![p] = Tail(@)]
  /\ UNCHANGED <<made, ring, value, pc, shmid, sem, elems, kills, refused>>

Removes(p) ==
  /\ quitting[p] # <<>>
  /\ LET t == Head(quitting[p])
     IN IF t = "segment" THEN keyed' = None /\ UNCHANGED named
                         ELSE named' = [named EXCEPT ![t] = None] /\ UNCHANGED keyed
  /\ quitting' = [quitting EXCEPT ![p] = Tail(@)]
  /\ UNCHANGED <<made, ring, value, pc, shmid, sem, elems, kills, refused>>

(* SIGINT, not in the middle of sig_quit; what was begun stays begun. The  *)
(* process may be started again.                                           *)
sig_int(p) ==
  /\ pc[p] # "none" /\ quitting[p] = <<>>
  /\ kills < MaxKills
  /\ kills' = kills + 1
  /\ pc' = [pc EXCEPT ![p] = "none"]
  /\ shmid' = [shmid EXCEPT ![p] = None]
  /\ sem' = [sem EXCEPT ![p] = [n \in Names |-> None]]
  /\ UNCHANGED <<kept, ring, value, quitting, elems, refused>>

Next ==
  \/ \E p \in Procs :
       \/ FindsSegment(p) \/ Creates(p) \/ queue_init(p) \/ OpensSpace(p) \/ OpensProduct(p)
       \/ sig_quit(p) \/ Removes(p) \/ sig_int(p)
  \/ \E p \in Producers : Producer(p)
  \/ \E p \in Consumers : Consumer(p)

Spec == Init /\ [][Next]_vars
-----------------------------------------------------------------------------
(***************************************************************************)
(* Neither error line of queue_add and queue_pop is ever printed: a ring   *)
(* that is set up after SIGQUIT inherits no count of the one before, and   *)
(* whoever finds a ring finds its semaphores.                              *)
(***************************************************************************)
NeverRefused == ~ refused
=============================================================================
