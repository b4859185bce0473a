----------------------------- MODULE SigioServers -----------------------------
(***************************************************************************)
(* internet/aio_sigio.c and aio_sigio2.c: an echo server that does all its *)
(* work in a handler for SIGIO. The signal comes once for what arrives, to *)
(* the owner of the descriptor, and is lost in one that is already         *)
(* pending; each run accepts at most one client and reads once from every  *)
(* connection in cfd_list. aio_sigio2.c forks: the parent, which owns the  *)
(* listener, passes the signal on, and the child serves.                   *)
(***************************************************************************)
EXTENDS Peers

CONSTANTS
  LIST_MAX,   \* length of cfd_list
  READ_MAX    \* what one read takes

VARIABLES
  program,
  main,       \* the first process: "start", "listening", "forked", "forwarding"
  cfd_list,   \* per process and entry the connection, or None
  owner,      \* per connection the process its SIGIO goes to, if set_aio is done
  sigio,      \* per process: pending
  handler,    \* per process: where it is, with the entry of cfd_list to read
  new,        \* per process: the connection just entered
  unseen      \* history: connections where something arrived since the last
              \* read of them

vars == <<conn, fds, program, main, cfd_list, owner, sigio, handler, new, unseen>>

aio_sigio == [forks |-> FALSE]
aio_sigio2 == [forks |-> TRUE]

Features == [aio_sigio |-> aio_sigio, aio_sigio2 |-> aio_sigio2]
Programs == DOMAIN Features
Procs == {"parent", "child"}
Entries == 1 .. LIST_MAX
None_ == <<"none", 0>>
Accept == <<"accept", 0>>
SetAio == <<"set_aio", 0>>
ReadOf(i) == IF i <= LIST_MAX THEN <<"read", i>> ELSE None_

Listed(p) == {cfd_list[p][i] : i \in Entries} \ {None}

Init ==
  /\ program \in Programs
  /\ InitPeers
  /\ main = "start"
  /\ cfd_list = [p \in Procs |-> [i \in Entries |-> None]]
  /\ owner = [c \in Clients |-> None]
  /\ sigio = [p \in Procs |-> FALSE]
  /\ handler = [p \in Procs |-> None_]
  /\ new = [p \in Procs |-> None]
  /\ unseen = {}

-----------------------------------------------------------------------------
(* main: the handler is installed and set_aio(lfd) makes the process the   *)
(* owner; then fork, with a copy of cfd_list, and child_do_flag. Not while *)
(* the handler runs.                                                       *)
Main(from, to) ==
  /\ main = from /\ handler["parent"] = None_
  /\ main' = to
  /\ UNCHANGED <<conn, fds, program, owner, sigio, handler, new, unseen>>

Listens == Main("start", "listening") /\ UNCHANGED cfd_list

Forks ==
  /\ Features[program].forks
  /\ Main("listening", "forked")
  /\ cfd_list' = [cfd_list EXCEPT !["child"] = cfd_list["parent"]]

SetsFlag == Main("forked", "forwarding") /\ UNCHANGED cfd_list

-----------------------------------------------------------------------------
Handler(p, from, to) ==
  /\ main # "exited"
  /\ handler[p] = from
  /\ handler' = [handler EXCEPT ![p] = to]
  /\ UNCHANGED <<fds, program>>

(* child_do_flag is set in the parent only: kill(child_pid, SIGIO).        *)
sig_io(p) ==
  LET passes == p = "parent" /\ main = "forwarding"
  IN  /\ sigio[p] /\ main # "start"
      /\ Handler(p, None_, IF passes THEN None_ ELSE Accept)
      /\ sigio' = IF passes THEN [q \in Procs |-> q = "child"] ELSE [sigio EXCEPT ![p] = FALSE]
      /\ UNCHANGED <<conn, main, cfd_list, owner, new, unseen>>

Free(p) == {i \in Entries : cfd_list[p][i] = None}

AcceptsNone(p) ==
  /\ Pending = {}
  /\ Handler(p, Accept, ReadOf(1))
  /\ UNCHANGED <<conn, main, cfd_list, owner, sigio, new, unseen>>

AcceptsOne(p, c) ==
  /\ c \in Pending
  /\ IF Free(p) = {}
     THEN /\ Handler(p, Accept, ReadOf(1))
          /\ conn' = [conn EXCEPT ![c].stage = "closed", ![c].unread = <<>>]
          /\ UNCHANGED <<cfd_list, new>>
     ELSE /\ Handler(p, Accept, SetAio)
          /\ conn' = [conn EXCEPT ![c].stage = "open"]
          /\ cfd_list' = [cfd_list EXCEPT ![p][Min(Free(p))] = c]
          /\ new' = [new EXCEPT ![p] = c]
  /\ UNCHANGED <<main, owner, sigio, unseen>>

Arms(p, to) ==
  /\ Handler(p, SetAio, to)
  /\ owner' = [owner EXCEPT ![new[p]] = p]
  /\ new' = [new EXCEPT ![p] = None]
  /\ UNCHANGED <<conn, main, cfd_list, sigio, unseen>>

(* A handler that leaves the new connection to the next signal, for        *)
(* mutation.                                                               *)
ReturnsArmed(p) == Arms(p, None_)

(* What comes before this raises no signal; the reads come after.          *)
set_aio(p) == Arms(p, ReadOf(1))

(* The loop over cfd_list, at entry i, with connection c.                  *)
AtEntry(p, i, c) ==
  /\ c = cfd_list[p][i]
  /\ Handler(p, ReadOf(i), ReadOf(i + 1))
  /\ unseen' = unseen \ {c}
  /\ UNCHANGED <<owner, sigio, new>>

(* Nobody there, or EAGAIN.                                                *)
ReadsNothing(p, i) ==
  /\ \/ AtEntry(p, i, None)
     \/ \E c \in Clients : AtEntry(p, i, c) /\ ~ Readable(c)
  /\ UNCHANGED <<conn, main, cfd_list>>

ReadsData(p, i, c) ==
  /\ AtEntry(p, i, c)
  /\ conn[c].unread # <<>>
  /\ Echoes(c, READ_MAX)
  /\ UNCHANGED <<main, cfd_list>>

(* The parent may still have the descriptor it gave the child in fork.     *)
ReadsEnd(p, i, c) ==
  /\ AtEntry(p, i, c)
  /\ conn[c].unread = <<>> /\ conn[c].fin /\ ~ conn[c].reset
  /\ cfd_list' = [cfd_list EXCEPT ![p][i] = None]
  /\ conn' = IF \E q \in Procs \ {p} : c \in Listed(q) THEN conn
             ELSE [conn EXCEPT ![c].stage = "closed"]
  /\ UNCHANGED main

(* A read that fails otherwise than with EAGAIN ends the serving process.  *)
Exits(p, i, c) ==
  /\ AtEntry(p, i, c)
  /\ conn[c].reset /\ conn[c].unread = <<>>
  /\ main' = "exited"
  /\ UNCHANGED <<conn, cfd_list>>

Server ==
  \/ Listens \/ Forks \/ SetsFlag
  \/ \E p \in Procs :
       \/ sig_io(p) \/ AcceptsNone(p) \/ set_aio(p)
       \/ \E c \in Clients : AcceptsOne(p, c)
       \/ \E i \in Entries :
            \/ ReadsNothing(p, i)
            \/ \E c \in Clients : ReadsData(p, i, c) \/ ReadsEnd(p, i, c) \/ Exits(p, i, c)

-----------------------------------------------------------------------------
(* SIGIO for the owner of the listener or of the connection.               *)
Raises(p) == sigio' = IF p = None THEN sigio ELSE [sigio EXCEPT ![p] = TRUE]

Environment ==
  /\ main # "exited"
  /\ \E c \in Clients :
       \/ Connects(c) /\ Raises(IF main = "start" THEN None ELSE "parent") /\ UNCHANGED unseen
       \/ Arrives(c) /\ Raises(owner[c]) /\ unseen' = unseen \union {c}
  /\ UNCHANGED <<fds, program, main, cfd_list, owner, handler, new>>

Next == Server \/ Environment

Spec == Init /\ [][Next]_vars

-----------------------------------------------------------------------------
Nothing(c) == <<>>

(* The handler echoes a read before it reads again; no two processes serve *)
(* one connection at a time.                                               *)
EchoExact == EchoedExactly(Nothing)

Serving == IF Features[program].forks THEN "child" ELSE "parent"

(***************************************************************************)
(* With no signal pending and no handler running, every connection of the  *)
(* serving process was read since something last arrived on it: no arrival *)
(* slips between accept, set_aio and the loop. (That one read may leave    *)
(* bytes behind is how the program is.) In aio_sigio2.c a connection that  *)
(* the parent accepted is served as long as the parent has it too; one it  *)
(* accepts after fork never reaches the child.                             *)
(***************************************************************************)
NothingUnseen ==
  (main \in {"listening", "forwarding"} /\ \A p \in Procs : ~ sigio[p] /\ handler[p] = None_)
    => \A c \in Listed(Serving) : c \in Listed(owner[c]) => c \notin unseen
=============================================================================
