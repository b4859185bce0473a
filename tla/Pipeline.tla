------------------------------- MODULE Pipeline -------------------------------
(***************************************************************************)
(* The pipes of process_func/IPC: pipe1.c, pipe5.c (pipe7.c is the same),  *)
(* pipe6.c, pipe8.c and fifo1.c. A process makes a pipe and one or two     *)
(* children; who writes and who reads gives up the ends it does not need,  *)
(* and so does a parent that only waits. The end of the data is nobody     *)
(* being left who could write; so an end kept too long keeps a reader      *)
(* waiting, even for itself. Kernel and the programs that are run, which   *)
(* write what they like or read to the end, are external.                  *)
(***************************************************************************)
EXTENDS Naturals

CONSTANTS
  CAP,        \* what a pipe holds
  MaxUnits    \* bound: what is written

VARIABLES
  program,
  pc,       \* none, opening, forking, closing, running, waiting, ended, reaped
  holds,    \* the ends a process has, its copies by dup2 included
  pipe,     \* units in the pipe
  made      \* units written

vars == <<program, pc, holds, pipe, made>>

(* Who makes the pipe, whether it waits for its children, and whether they *)
(* run other programs.                                                     *)
pipe1 == [maker |-> "writer", waits |-> TRUE,  execs |-> FALSE]
pipe5 == [maker |-> "writer", waits |-> FALSE, execs |-> TRUE]
pipe6 == [maker |-> "parent", waits |-> TRUE,  execs |-> TRUE]
pipe8 == [maker |-> "parent", waits |-> TRUE,  execs |-> TRUE]
fifo1 == [maker |-> "parent", waits |-> TRUE,  execs |-> FALSE]

Shape == [pipe1 |-> pipe1, pipe5 |-> pipe5, pipe6 |-> pipe6, pipe8 |-> pipe8,
          fifo1 |-> fifo1]
Programs == DOMAIN Shape

Maker == Shape[program].maker
Children == {"writer", "reader"} \ {Maker}

(* "other" is whoever has the FIFO open for reading before fifo1.c runs.   *)
Procs == {"parent", "writer", "reader", "other"}
Holders(end) == {p \in Procs : end \in holds[p]}

Init ==
  /\ program \in Programs
  /\ pc = [p \in Procs |->
             CASE p = Maker -> IF program = "fifo1" THEN "opening" ELSE "forking"
               [] p = "other" /\ program = "fifo1" -> "running"
               [] OTHER -> "none"]
  /\ holds = [p \in Procs |->
                CASE p = Maker /\ program # "fifo1" -> {"r", "w"}
                  [] p = "other" /\ program = "fifo1" -> {"r"}
                  [] OTHER -> {}]
  /\ pipe = 0 /\ made = 0

At(p, from) == pc[p] = from /\ UNCHANGED program
To(p, to) == pc' = [pc EXCEPT ![p] = to]
Ends(p) == To(p, "ended") /\ holds' = [holds EXCEPT ![p] = {}]

-----------------------------------------------------------------------------
(* Not blocking, so that the writing end can only be had if somebody reads.*)
Opens ==
  /\ At("parent", "opening")
  /\ \/ /\ holds["parent"] = {} /\ Holders("r") # {}
        /\ holds' = [holds EXCEPT !["parent"] = {"w"}] /\ UNCHANGED pc
     \/ holds["parent"] = {} /\ Holders("r") = {} /\ Ends("parent")
     \/ /\ holds["parent"] = {"w"}
        /\ holds' = [holds EXCEPT !["parent"] = {"r", "w"}] /\ To("parent", "forking")
  /\ UNCHANGED <<pipe, made>>

Forks ==
  /\ At(Maker, "forking")
  /\ LET child == IF "writer" \in Children /\ pc["writer"] = "none"
                  THEN "writer" ELSE "reader"
     IN  /\ holds' = [holds EXCEPT ![child] = holds[Maker]]
         /\ pc' = [pc EXCEPT ![child] = "closing",
                             ![Maker] = IF child = "reader" THEN "closing" ELSE @]
  /\ UNCHANGED <<pipe, made>>

(* A fork that fails ends the parent, whatever it has started.             *)
ForkFails ==
  /\ At(Maker, "forking") /\ Ends(Maker)
  /\ UNCHANGED <<pipe, made>>

(* A reader that keeps the end it would write to, for mutation.            *)
ReaderKeepsBoth(p) ==
  CASE p = "writer" -> {"w"} [] p = "reader" -> {"r", "w"} [] OTHER -> {}

(* What dup2 makes standard input or output, or is used as it is.          *)
Keeps(p) == CASE p = "writer" -> {"w"} [] p = "reader" -> {"r"} [] OTHER -> {}

(* The reading end is closed before the writing end.                       *)
Closes(p) ==
  /\ At(p, "closing")
  /\ LET more == holds[p] \ Keeps(p)
     IN  /\ more # {}
         /\ holds' = [holds EXCEPT ![p] = @ \ (IF "r" \in more THEN {"r"} ELSE {"w"})]
  /\ UNCHANGED <<pc, pipe, made>>

(* execlp, which may fail, or the loop that writes or reads.               *)
Starts(p) ==
  /\ At(p, "closing") /\ holds[p] = Keeps(p)
  /\ \/ To(p, IF p = "parent" THEN "waiting" ELSE "running") /\ UNCHANGED holds
     \/ Shape[program].execs /\ p # "parent" /\ Ends(p)
  /\ UNCHANGED <<pipe, made>>

(* Blocks while the pipe is full; SIGPIPE when nobody is left to read.     *)
Writes ==
  /\ At("writer", "running") /\ made < MaxUnits
  /\ made' = made + 1
  /\ IF Holders("r") = {} THEN Ends("writer") /\ UNCHANGED pipe
     ELSE pipe < CAP /\ pipe' = pipe + 1 /\ UNCHANGED <<pc, holds>>

WriterEnds ==
  /\ At("writer", "running")
  /\ program = "fifo1" => made = MaxUnits
  /\ IF Maker = "writer" /\ Shape[program].waits
     THEN To("writer", "waiting") /\ holds' = [holds EXCEPT !["writer"] = {}]
     ELSE Ends("writer")
  /\ UNCHANGED <<pipe, made>>

Reads(p) ==
  /\ p \in {"reader", "other"} /\ At(p, "running") /\ pipe > 0
  /\ \E n \in 1 .. pipe : pipe' = pipe - n
  /\ UNCHANGED <<pc, holds, made>>

ReadsEnd ==
  /\ At("reader", "running") /\ pipe = 0 /\ Holders("w") = {} /\ Ends("reader")
  /\ UNCHANGED <<pipe, made>>

OtherLeaves ==
  /\ At("other", "running") /\ Ends("other")
  /\ UNCHANGED <<pipe, made>>

(* wait, or waitpid again and again, until no child is left.               *)
Waits ==
  /\ At(Maker, "waiting")
  /\ \/ \E p \in Children : pc[p] = "ended" /\ To(p, "reaped") /\ UNCHANGED holds
     \/ (\A p \in Children : pc[p] = "reaped") /\ Ends(Maker)
  /\ UNCHANGED <<pipe, made>>

Next ==
  \/ Opens \/ Forks \/ ForkFails \/ Writes \/ WriterEnds \/ ReadsEnd \/ OtherLeaves
  \/ Waits
  \/ \E p \in Procs : Closes(p) \/ Starts(p) \/ Reads(p)

Spec == Init /\ [][Next]_vars
-----------------------------------------------------------------------------
Stands(p) ==
  \/ pc[p] = "waiting"
  \/ p = "reader" /\ pc[p] = "running" /\ pipe = 0
  \/ p = "writer" /\ pc[p] = "running" /\ pipe = CAP

(***************************************************************************)
(* Nobody waits for data, or for room, that only those could give who wait *)
(* as well: the reader itself, or the parent for its children. It holds    *)
(* when a fork or a program fails, or somebody leaves, as well.            *)
(***************************************************************************)
NobodyKeepsAnEnd ==
  /\ Stands("reader") => Holders("w") = {} \/ \E p \in Holders("w") : ~ Stands(p)
  /\ Stands("writer") /\ pc["writer"] = "running" =>
       Holders("r") = {} \/ \E p \in Holders("r") : ~ Stands(p)
=============================================================================
