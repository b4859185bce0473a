----------------------------- MODULE ForkServers -----------------------------
(***************************************************************************)
(* The echo servers of internet/ with a process or a thread per connection *)
(* (echo_server_multiprocess.c, echo_server_multiprocess_option.c,         *)
(* echo_server_multithread.c), and echo_server.c, which serves one and     *)
(* ends. A worker echoes line by line; a block is a line here. The parent  *)
(* collects its children in a handler for SIGCHLD.                         *)
(***************************************************************************)
EXTENDS Peers

CONSTANT LongLines   \* numbers of the lines that do not fit into 1023 bytes

VARIABLES
  program,
  pc,       \* main: "accept", "fork", "close", "exited"
  cfd,      \* main's local: the connection accepted last
  worker,   \* per connection [state, serves, line]; the argument it is
            \* started with names the connection
  holders,  \* per connection, who has its descriptor open
  sigchld,  \* SIGCHLD is pending
  handler   \* sig_chld is running

vars == <<conn, fds, program, pc, cfd, worker, holders, sigchld, handler>>

(* Whether each connection has a child, or a thread.                       *)
echo_server == [forks |-> FALSE, threads |-> FALSE]
echo_server_multiprocess == [forks |-> TRUE, threads |-> FALSE]
echo_server_multiprocess_option == [forks |-> TRUE, threads |-> FALSE]
echo_server_multithread == [forks |-> FALSE, threads |-> TRUE]

Features ==
  [echo_server |-> echo_server,
   echo_server_multiprocess |-> echo_server_multiprocess,
   echo_server_multiprocess_option |-> echo_server_multiprocess_option,
   echo_server_multithread |-> echo_server_multithread]

Programs == DOMAIN Features
Forks == Features[program].forks
Threads == Features[program].threads

NoWorker == [state |-> "none", serves |-> None, line |-> <<>>]

Init ==
  /\ program \in Programs
  /\ InitPeers
  /\ pc = "accept"
  /\ cfd = None
  /\ worker = [c \in Clients |-> NoWorker]
  /\ holders = [c \in Clients |-> {}]
  /\ sigchld = FALSE /\ handler = FALSE

-----------------------------------------------------------------------------
(* The last one to close a connection's descriptor closes the connection.  *)
Drops(c, who) ==
  /\ holders' = [holders EXCEPT ![c] = @ \ {who}]
  /\ conn' = IF holders'[c] = {}
             THEN [conn EXCEPT ![c].stage = "closed", ![c].unread = <<>>] ELSE conn

MainGoes(from, to) ==
  /\ pc = from /\ ~ handler
  /\ pc' = to
  /\ UNCHANGED <<fds, program, sigchld, handler>>

Accept(c) ==
  /\ MainGoes("accept", "fork")
  /\ c \in Pending
  /\ conn' = [conn EXCEPT ![c].stage = "open"]
  /\ cfd' = c
  /\ holders' = [holders EXCEPT ![c] = {"main"}]
  /\ UNCHANGED worker

(* addrlen is not initialised, except in echo_server_multithread.c; accept *)
(* takes a negative one amiss, drops the connection, and the server ends.  *)
(* The first call that succeeds sets it.                                   *)
AcceptFails(c) ==
  /\ MainGoes("accept", "exited")
  /\ c \in Pending
  /\ ~ Threads /\ cfd = None
  /\ conn' = [conn EXCEPT ![c].stage = "closed", ![c].unread = <<>>]
  /\ UNCHANGED <<cfd, worker, holders>>

(* fork, after which both have the descriptor; pthread_create, whose       *)
(* thread has yet to look at its argument; or DoReadWrite itself.          *)
Starts ==
  /\ MainGoes("fork", IF Forks THEN "close" ELSE IF Threads THEN "accept" ELSE "serve")
  /\ worker' = [worker EXCEPT ![cfd] =
       [state |-> "started", serves |-> None, line |-> <<>>]]
  /\ holders' = [holders EXCEPT ![cfd] = IF Forks THEN {"main", "child"} ELSE @]
  /\ UNCHANGED <<conn, cfd>>

(* A parent that leaves the descriptor open, for mutation.                 *)
KeepsOpen ==
  /\ MainGoes("close", "accept")
  /\ UNCHANGED <<conn, holders, cfd, worker>>

ParentCloses ==
  /\ MainGoes("close", "accept")
  /\ Drops(cfd, "main")
  /\ UNCHANGED <<cfd, worker>>

-----------------------------------------------------------------------------
WorkerSteps(c, from) ==
  /\ pc # "exited"
  /\ worker[c].state = from
  /\ UNCHANGED <<fds, program, cfd>>

(* A thread handed the address of main's cfd, for mutation.                *)
TakesLatest(c) ==
  /\ WorkerSteps(c, "started")
  /\ worker' = [worker EXCEPT ![c].state = "reading", ![c].serves = cfd]
  /\ UNCHANGED <<conn, pc, holders, sigchld, handler>>

(* The thread's threadNode, or the child's copy of cfd.                    *)
TakesArgument(c) ==
  /\ WorkerSteps(c, "started")
  /\ worker' = [worker EXCEPT ![c].state = "reading", ![c].serves = c]
  /\ UNCHANGED <<conn, pc, holders, sigchld, handler>>

TooLong(line) == line[2] \in LongLines

(* ReadLine takes the next line, also an unfinished one before the end.    *)
ReadsLine(c) ==
  LET s == worker[c].serves
  IN  /\ WorkerSteps(c, "reading")
      /\ conn[s].unread # <<>>
      /\ ~ TooLong(Head(conn[s].unread))
      /\ worker' = [worker EXCEPT ![c].state = "writing", ![c].line = <<Head(conn[s].unread)>>]
      /\ conn' = [conn EXCEPT ![s].unread = Tail(@)]
      /\ UNCHANGED <<pc, holders, sigchld, handler>>

WritesLine(c) ==
  LET s == worker[c].serves
  IN  /\ WorkerSteps(c, "writing")
      /\ ~ conn[s].reset
      /\ conn' = [conn EXCEPT ![s].echoed = @ \o worker[c].line]
      /\ worker' = [worker EXCEPT ![c].state = "reading", ![c].line = <<>>]
      /\ UNCHANGED <<pc, holders, sigchld, handler>>

(* The worker is done: a child exits and becomes a zombie, a thread closes *)
(* its descriptor, and echo_server ends.                                   *)
Leaves(c) ==
  /\ worker' = [worker EXCEPT ![c].state = IF Forks THEN "zombie" ELSE "gone"]
  /\ Drops(worker[c].serves, IF Forks THEN "child" ELSE "main")
  /\ sigchld' = (sigchld \/ Forks)
  /\ pc' = IF Forks \/ Threads THEN pc ELSE "exited"
  /\ UNCHANGED handler

(* ReadLine returns 0 at the end, -1 for a line that does not fit.         *)
StopsReading(c) ==
  LET s == worker[c].serves
  IN  /\ WorkerSteps(c, "reading")
      /\ IF conn[s].unread = <<>> THEN conn[s].fin /\ ~ conn[s].reset
                                  ELSE TooLong(Head(conn[s].unread))
      /\ Leaves(c)

(* A reset fails the read or the write, and ends the process.              *)
Fails(c) ==
  LET s == worker[c].serves
  IN  /\ WorkerSteps(c, worker[c].state)
      /\ \/ worker[c].state = "reading" /\ conn[s].unread = <<>>
         \/ worker[c].state = "writing"
      /\ conn[s].reset
      /\ IF Forks THEN Leaves(c)
         ELSE pc' = "exited" /\ UNCHANGED <<conn, worker, holders, sigchld, handler>>

-----------------------------------------------------------------------------
Zombies == {c \in Clients : worker[c].state = "zombie"}

(* sig_chld interrupts main anywhere; SIGCHLD is blocked while it runs.    *)
HandlerStarts ==
  /\ sigchld /\ ~ handler /\ pc # "exited"
  /\ handler' = TRUE /\ sigchld' = FALSE
  /\ UNCHANGED <<conn, fds, program, pc, cfd, worker, holders>>

(* One waitpid for each signal, for mutation.                              *)
WaitsOnce ==
  /\ handler
  /\ \E c \in Zombies : worker' = [worker EXCEPT ![c].state = "reaped"]
  /\ handler' = FALSE
  /\ UNCHANGED <<conn, fds, program, pc, cfd, holders, sigchld>>

HandlerWaits ==
  /\ handler
  /\ \E c \in Zombies : worker' = [worker EXCEPT ![c].state = "reaped"]
  /\ UNCHANGED <<conn, fds, program, pc, cfd, holders, sigchld, handler>>

(* waitpid returns 0 or -1.                                                *)
HandlerReturns ==
  /\ handler /\ Zombies = {}
  /\ handler' = FALSE
  /\ UNCHANGED <<conn, fds, program, pc, cfd, worker, holders, sigchld>>

Main ==
  \/ \E c \in Clients : Accept(c) \/ AcceptFails(c)
  \/ Starts \/ ParentCloses \/ HandlerStarts \/ HandlerWaits \/ HandlerReturns

Worker(c) ==
  \/ TakesArgument(c) \/ ReadsLine(c) \/ WritesLine(c) \/ StopsReading(c) \/ Fails(c)

Environment ==
  /\ \E c \in Clients : Connects(c) \/ Arrives(c)
  /\ UNCHANGED <<fds, program, pc, cfd, worker, holders, sigchld, handler>>

Next ==
  \/ Main
  \/ \E c \in Clients : Worker(c)
  \/ Environment /\ pc # "exited"

Spec == Init /\ [][Next]_vars

(* Main and each worker are scheduled independently.                       *)
Fairness == WF_vars(Main) /\ \A c \in Clients : WF_vars(Worker(c))

-----------------------------------------------------------------------------
Served(c) == worker[c].line

EchoExact == EchoedExactly(Served)

(* A connection is open as long as someone is there to close it, and only  *)
(* so long: no parent keeps a descriptor its child is done with.           *)
NothingLeaked ==
  \A c \in Clients : pc = "accept" /\ Open(c) =>
    worker[c].state \in {"started", "reading", "writing"}

(* Each child that ends is collected.                                      *)
AllReaped ==
  \A c \in Clients : (worker[c].state = "zombie") ~> (worker[c].state = "reaped" \/ pc = "exited")
=============================================================================
