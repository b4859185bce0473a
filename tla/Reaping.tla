------------------------------- MODULE Reaping --------------------------------
(***************************************************************************)
(* How the programs of process_func/ collect their children: wait.c and    *)
(* wait_t1.c block in wait, waitpid.c and waitpid_2.c poll, wait_tmark.c   *)
(* is told of stops as well, and IPC/sigaction_child.c leaves it to its    *)
(* handler of SIGCHLD. What a child does before it ends is left out; some  *)
(* end at once, some only when somebody kills them.                        *)
(***************************************************************************)
EXTENDS Naturals, FiniteSets

CONSTANTS
  Children,
  None

VARIABLES
  program,
  pc,        \* the parent: "forking", "waiting", "asleep", "ended", and in
             \* sigaction_child.c "blocked", "installed" and "loop"
  child,     \* per child "none", "running", "stopped", "zombie" or "reaped"
  news,      \* per child a stop or continuation nobody was told of, or None
  sigchld,   \* sigaction_child.c: SIGCHLD is pending
  handler    \* sigaction_child.c: calls of waitpid the handler has left, or None

vars == <<program, pc, child, news, sigchld, handler>>

Blocking == {"wait", "wait_t1"}
Polling == {"waitpid", "waitpid_2"}
Programs == Blocking \union Polling \union {"wait_tmark", "sigaction_child"}

Of(states) == {c \in Children : child[c] \in states}
Living == {"running", "stopped"}
hcnt == Cardinality(Of({"reaped"}))
cnt == IF program = "wait_tmark" THEN 1 ELSE Cardinality(Children)

Init ==
  /\ program \in Programs
  /\ pc = "forking"
  /\ child = [c \in Children |-> "none"]
  /\ news = [c \in Children |-> None]
  /\ sigchld = FALSE
  /\ handler = None

Becomes(c, state) == child' = [child EXCEPT ![c] = state]

fork(c) ==
  /\ pc = "forking"
  /\ child[c] = "none" /\ Cardinality(Children \ Of({"none"})) < cnt
  /\ Becomes(c, "running")
  /\ UNCHANGED <<program, pc, news, sigchld, handler>>

ForksDone ==
  /\ pc = "forking"
  /\ Cardinality(Children \ Of({"none"})) = cnt
  /\ pc' = IF program = "sigaction_child" THEN "blocked" ELSE "waiting"
  /\ UNCHANGED <<program, child, news, sigchld, handler>>

-----------------------------------------------------------------------------
(* The children. SIGCHLD stays pending while it is blocked or handled.     *)
Raises == sigchld' = (program = "sigaction_child")

Ends(c) ==
  /\ child[c] \in Living
  /\ Becomes(c, "zombie")
  /\ Raises
  /\ UNCHANGED <<program, pc, news, handler>>

Stops(c) ==
  /\ child[c] = "running"
  /\ Becomes(c, "stopped")
  /\ news' = [news EXCEPT ![c] = "stopped"]
  /\ Raises
  /\ UNCHANGED <<program, pc, handler>>

Continues(c) ==
  /\ child[c] = "stopped"
  /\ Becomes(c, "running")
  /\ news' = [news EXCEPT ![c] = "continued"]
  /\ Raises
  /\ UNCHANGED <<program, pc, handler>>

-----------------------------------------------------------------------------
(* wait and waitpid in the parent's loop.                                  *)
wait(c) ==
  /\ program # "sigaction_child" /\ pc = "waiting"
  /\ child[c] = "zombie"
  /\ Becomes(c, "reaped")
  /\ pc' = IF program = "wait_tmark" THEN "ended" ELSE "waiting"
  /\ UNCHANGED <<program, news, sigchld, handler>>

WaitFails ==
  /\ program # "sigaction_child" /\ pc = "waiting"
  /\ Of(Living \union {"zombie"}) = {}
  /\ pc' = "ended"
  /\ UNCHANGED <<program, child, news, sigchld, handler>>

FindsNone ==
  /\ program \in Polling /\ pc = "waiting"
  /\ Of({"zombie"}) = {} /\ Of(Living) # {}
  /\ pc' = "asleep"
  /\ UNCHANGED <<program, child, news, sigchld, handler>>

Wakes ==
  /\ pc = "asleep"
  /\ pc' = "waiting"
  /\ UNCHANGED <<program, child, news, sigchld, handler>>

(* WUNTRACED and WCONTINUED.                                               *)
IsTold(c) ==
  /\ program = "wait_tmark" /\ pc = "waiting"
  /\ child[c] \in Living /\ news[c] # None
  /\ news' = [news EXCEPT ![c] = None]
  /\ UNCHANGED <<program, pc, child, sigchld, handler>>

-----------------------------------------------------------------------------
(* sigaction_child.c installs the handler with SIGCHLD blocked.            *)
Installs ==
  /\ pc = "blocked"
  /\ pc' = "installed"
  /\ UNCHANGED <<program, child, news, sigchld, handler>>

Unblocks ==
  /\ pc = "installed"
  /\ pc' = "loop"
  /\ UNCHANGED <<program, child, news, sigchld, handler>>

(* One call of waitpid for one signal, for mutation.                       *)
TriesOnce ==
  /\ pc = "loop" /\ sigchld /\ handler = None
  /\ sigchld' = FALSE
  /\ handler' = 1
  /\ UNCHANGED <<program, pc, child, news>>

HandlerStarts ==
  /\ pc = "loop" /\ sigchld /\ handler = None
  /\ sigchld' = FALSE
  /\ handler' = cnt - hcnt
  /\ UNCHANGED <<program, pc, child, news>>

HandlerCollects(c) ==
  /\ handler # None /\ handler # 0
  /\ child[c] = "zombie"
  /\ Becomes(c, "reaped")
  /\ handler' = handler - 1
  /\ UNCHANGED <<program, pc, news, sigchld>>

HandlerFindsNone ==
  /\ handler # None /\ handler # 0
  /\ Of({"zombie"}) = {}
  /\ handler' = IF Of(Living) = {} THEN 0 ELSE handler - 1
  /\ UNCHANGED <<program, pc, child, news, sigchld>>

HandlerReturns ==
  /\ handler = 0
  /\ handler' = None
  /\ UNCHANGED <<program, pc, child, news, sigchld>>

Parent ==
  \/ ForksDone \/ WaitFails \/ FindsNone \/ Wakes \/ Installs \/ Unblocks
  \/ HandlerStarts \/ HandlerFindsNone \/ HandlerReturns
  \/ \E c \in Children : fork(c) \/ wait(c) \/ IsTold(c) \/ HandlerCollects(c)

Next == Parent \/ \E c \in Children : Ends(c) \/ Stops(c) \/ Continues(c)

Spec == Init /\ [][Next]_vars
FairSpec == Spec /\ WF_vars(Parent)
-----------------------------------------------------------------------------
(***************************************************************************)
(* Every child that ended is collected, though signals merge, handlers run *)
(* while more children end, and polling may look too early.                *)
(***************************************************************************)
AllReaped == \A c \in Children : (child[c] = "zombie") ~> (child[c] = "reaped")
=============================================================================
