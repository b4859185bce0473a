---------------------------- MODULE ServersProofs -----------------------------
(***************************************************************************)
(* Proofs about the servers, for any number of clients.                    *)
(***************************************************************************)
EXTENDS MCServers, FiniteSetTheorems, SequenceTheorems, WellFoundedInduction, TLAPS

(* The program under way never changes.                                    *)
LEMMA ProgramStays ==
  ASSUME [Next]_mcVars
  PROVE  program' = program
<1>1. CASE UNCHANGED mcVars
  BY <1>1 DEF mcVars
<1>2. CASE OnlyReactor \/ OnlyHttp
  BY <1>2 DEF OnlyReactor, OnlyHttp
<1>3. CASE E!Next
  BY <1>3 DEF E!Next, E!Server, E!EventLoop, E!DoAccept, E!Exits, E!ReadsEnd, E!IgnoresHangup,
              E!Reads, E!DoWrite, E!Handles, E!Environment
<1>4. CASE S!Next
  BY <1>4 DEF S!Next, S!Server, S!Select, S!PassEnds, S!handler_udp_read, S!NewConnection,
              S!TurnsAway, S!PassesBy, S!ReadsData, S!ReadsEnd, S!Exits, S!Handles,
              S!Environment, S!SendsDatagram, S!sig_int
<1>5. CASE F!Next
  <2>1. F!Main => program' = program
    BY DEF F!Main, F!Accept, F!AcceptFails, F!Starts, F!ParentCloses, F!HandlerStarts,
           F!HandlerWaits, F!HandlerReturns, F!MainGoes
  <2>2. ASSUME NEW c \in Clients, F!Worker(c)
        PROVE  program' = program
    <3>1. ASSUME NEW from, F!WorkerSteps(c, from)
          PROVE  program' = program
      BY <3>1 DEF F!WorkerSteps
    <3>. QED
      BY <2>2, <3>1 DEF F!Worker, F!TakesArgument, F!ReadsLine, F!WritesLine, F!StopsReading,
                        F!Fails
  <2>3. F!Environment => program' = program
    BY DEF F!Environment
  <2>. QED
    BY <1>5, <2>1, <2>2, <2>3 DEF F!Next
<1>6. CASE G!Next
  <2>1. ASSUME NEW p, NEW from, NEW to, G!Handler(p, from, to)
        PROVE  program' = program
    BY <2>1 DEF G!Handler
  <2>2. ASSUME NEW from, NEW to, G!Main(from, to)
        PROVE  program' = program
    BY <2>2 DEF G!Main
  <2>3. ASSUME NEW p, NEW i, NEW c, G!AtEntry(p, i, c)
        PROVE  program' = program
    BY <2>1, <2>3 DEF G!AtEntry
  <2>4. ASSUME NEW p \in G!Procs, NEW c, G!AcceptsOne(p, c)
        PROVE  program' = program
    BY <2>1, <2>4 DEF G!AcceptsOne
  <2>5. ASSUME NEW p \in G!Procs, G!sig_io(p) \/ G!AcceptsNone(p) \/ G!set_aio(p)
        PROVE  program' = program
    BY <2>1, <2>5 DEF G!sig_io, G!AcceptsNone, G!set_aio, G!Arms
  <2>6. ASSUME NEW p, NEW i, NEW c,
               G!ReadsNothing(p, i) \/ G!ReadsData(p, i, c) \/ G!ReadsEnd(p, i, c) \/ G!Exits(p, i, c)
        PROVE  program' = program
    BY <2>3, <2>6 DEF G!ReadsNothing, G!ReadsData, G!ReadsEnd, G!Exits
  <2>7. G!Listens \/ G!Forks \/ G!SetsFlag => program' = program
    BY <2>2 DEF G!Listens, G!Forks, G!SetsFlag
  <2>8. G!Server => program' = program
    BY <2>4, <2>5, <2>6, <2>7 DEF G!Server
  <2>9. G!Environment => program' = program
    BY DEF G!Environment
  <2>. QED
    BY <1>6, <2>8, <2>9 DEF G!Next
<1>7. CASE W!Next
  BY <1>7 DEF W!Next, W!Parent, W!ForksDone, W!WaitFails, W!FindsNone, W!Wakes, W!Installs,
              W!Unblocks, W!HandlerStarts, W!HandlerFindsNone, W!HandlerReturns, W!fork, W!wait,
              W!IsTold, W!HandlerCollects, W!Ends, W!Stops, W!Continues
<1>8. CASE L!Next
  BY <1>8 DEF L!Next, L!Server, L!Callback, L!acceptcb, L!connect_call_back, L!read_cb, L!Writes,
              L!event_cb, L!readcb, L!ReadsData, L!ReadsEnd, L!AtEnd, L!ReadFails, L!LoopExits,
              L!sigint, L!Environment
<1>9. CASE A!Next
  BY <1>9 DEF A!Next, A!Main, A!Checks, A!Turns, A!Ends, A!AcceptAlarm, A!Starts, A!AcceptsFull,
              A!AcceptsOne, A!MainGoes, A!Thread, A!read_cb, A!read_cb_failed, A!WriteFails,
              A!write_cb, A!Counts, A!Closes, A!sig_int, A!Environment
<1>. QED
  BY <1>1, <1>2, <1>3, <1>4, <1>5, <1>6, <1>7, <1>8, <1>9 DEF Next

(* The programs of each module.                                            *)
LEMMA ProgramNames ==
  /\ E!Programs = {"epoll_normal", "epoll_lt_et_1", "epoll_lt_et_2", "epoll_lt_et_3"}
  /\ S!Programs = {"select", "select_wait_signal", "echo_server_tcp_udp_select", "poll"}
  /\ F!Programs = {"echo_server", "echo_server_multiprocess", "echo_server_multiprocess_option",
                   "echo_server_multithread"}
  /\ G!Programs = {"aio_sigio", "aio_sigio2"}
  /\ W!Programs = {"wait", "wait_t1", "waitpid", "waitpid_2", "wait_tmark", "sigaction_child"}
  /\ L!Programs = {"test4", "test5", "test_lock", "test_log", "test_7", "normal_template_2"}
BY DEF E!Programs, E!Features, S!Programs, S!Features, F!Programs, F!Features, G!Programs,
       G!Features, W!Programs, W!Blocking, W!Polling, L!Programs, L!Features

(* A step of the composition is a step of the program under way.           *)
LEMMA OnlyOneRuns ==
  ASSUME Next
  PROVE  /\ Runs({"epoll_reactor"}) => R!Next
         /\ Runs(E!Programs) => E!Next
         /\ Runs(S!Programs) => S!Next
         /\ Runs(F!Programs) => F!Next
         /\ Runs(G!Programs) => G!Next
         /\ Runs({"myhttpd"}) => H!Next
         /\ Runs(L!Programs) => L!Next
         /\ Runs({"aio_echo_server"}) => A!Next
BY ProgramNames DEF Next, Runs, OnlyReactor, OnlyEpoll, OnlySelect, OnlyFork, OnlySigio, OnlyHttp,
                    OnlyReaping, OnlyEvent, OnlyAio

(* The composition starts the program under way as that program does.      *)
LEMMA OnlyOneStarts ==
  ASSUME Init
  PROVE  /\ Runs({"epoll_reactor"}) => R!Init
         /\ Runs(E!Programs) => E!Init
         /\ Runs(S!Programs) => S!Init
         /\ Runs(F!Programs) => F!Init
         /\ Runs(G!Programs) => G!Init
         /\ Runs({"myhttpd"}) => H!Init
         /\ Runs(L!Programs) => L!Init
         /\ Runs({"aio_echo_server"}) => A!Init
<1>1. E!Init => program \in E!Programs
  BY DEF E!Init
<1>2. S!Init => program \in S!Programs
  BY DEF S!Init
<1>3. F!Init => program \in F!Programs
  BY DEF F!Init
<1>4. G!Init => program \in G!Programs
  BY DEF G!Init
<1>5. W!Init => program \in W!Programs
  BY DEF W!Init
<1>6. L!Init => program \in L!Programs
  BY DEF L!Init
<1>7. A!Init => program \in {"aio_echo_server"}
  BY DEF A!Init
<1>. QED
  BY <1>1, <1>2, <1>3, <1>4, <1>5, <1>6, <1>7, ProgramNames DEF Init, Runs

(* What is known of a connection, whose bytes come back as those of Echo.  *)
Connection(Echo) ==
  [stage : {"none", "pending", "open", "closed"}, sent : Nat, unread : Seq(Clients \X Nat),
   echoed : Seq(Echo), fin : BOOLEAN, reset : BOOLEAN]

(* A client that has not connected has a well formed connection.           *)
LEMMA NoConnTyped ==
  ASSUME NEW Echo
  PROVE  NoConn \in Connection(Echo)
<1>1. <<>> \in Seq(Clients \X Nat) /\ <<>> \in Seq(Echo)
  OBVIOUS
<1>. QED
  BY <1>1 DEF NoConn, Connection

(* What the client and the network do to a connection.                     *)
LEMMA ArrivesTyped ==
  ASSUME NEW Echo, conn \in [Clients -> Connection(Echo)], NEW c \in Clients,
         Connects(c) \/ Arrives(c)
  PROVE  \E r \in Connection(Echo) :
           /\ conn' = [conn EXCEPT ![c] = r]
           /\ r.echoed = conn[c].echoed
           /\ \/ Arrives(c) /\ r.stage = conn[c].stage /\ r.stage \in {"pending", "open"}
              \/ conn[c].stage = "none" /\ r.stage = "pending"
<1>0. conn[c] \in Connection(Echo)
  OBVIOUS
<1>1. CASE Connects(c)
  <2>1. [conn[c] EXCEPT !.stage = "pending"] \in Connection(Echo)
    BY <1>0 DEF Connection
  <2>2. [conn[c] EXCEPT !.stage = "pending"].stage = "pending"
        /\ [conn[c] EXCEPT !.stage = "pending"].echoed = conn[c].echoed
    BY <1>0 DEF Connection
  <2>. QED
    BY <1>1, <2>1, <2>2 DEF Connects
<1>2. CASE Sends(c)
  <2>1. Append(conn[c].unread, <<c, conn[c].sent + 1>>) \in Seq(Clients \X Nat) /\ conn[c].sent + 1 \in Nat
    BY <1>0 DEF Connection
  <2>2. PICK r : r = [[conn[c] EXCEPT !.sent = conn[c].sent + 1]
                       EXCEPT !.unread = Append(conn[c].unread, <<c, conn[c].sent + 1>>)]
    OBVIOUS
  <2>3. r \in Connection(Echo) /\ r.stage = conn[c].stage /\ r.echoed = conn[c].echoed
    BY <1>0, <2>1, <2>2 DEF Connection
  <2>4. conn' = [conn EXCEPT ![c] = r]
    BY <1>2, <1>0, <2>2 DEF Sends, Connection
  <2>. QED
    BY <1>2, <2>3, <2>4 DEF Arrives, Sends, Alive
<1>3. CASE ShutsDown(c)
  <2>1. [conn[c] EXCEPT !.fin = TRUE] \in Connection(Echo)
    BY <1>0 DEF Connection
  <2>2. [conn[c] EXCEPT !.fin = TRUE].stage = conn[c].stage
        /\ [conn[c] EXCEPT !.fin = TRUE].echoed = conn[c].echoed
    BY <1>0 DEF Connection
  <2>. QED
    BY <1>3, <2>1, <2>2 DEF ShutsDown, Arrives, Alive
<1>4. CASE Resets(c)
  <2>1. [conn[c] EXCEPT !.reset = TRUE] \in Connection(Echo)
    BY <1>0 DEF Connection
  <2>2. [conn[c] EXCEPT !.reset = TRUE].stage = conn[c].stage
        /\ [conn[c] EXCEPT !.reset = TRUE].echoed = conn[c].echoed
    BY <1>0 DEF Connection
  <2>. QED
    BY <1>4, <2>1, <2>2 DEF Resets, Arrives, Alive
<1>. QED
  BY <1>1, <1>2, <1>3, <1>4 DEF Arrives

(* A connection that is accepted, or closed.                               *)
LEMMA StageTyped ==
  ASSUME NEW Echo, conn \in [Clients -> Connection(Echo)], NEW c \in Clients
  PROVE  /\ \E r \in Connection(Echo) :
              r.stage = "open" /\ [conn EXCEPT ![c].stage = "open"] = [conn EXCEPT ![c] = r]
         /\ \E r \in Connection(Echo) :
              r.stage = "closed"
              /\ [conn EXCEPT ![c].stage = "closed", ![c].unread = <<>>] = [conn EXCEPT ![c] = r]
<1>0. conn[c] \in Connection(Echo)
  OBVIOUS
<1>1. PICK r : r = [conn[c] EXCEPT !.stage = "open"]
  OBVIOUS
<1>2. r \in Connection(Echo) /\ r.stage = "open"
  BY <1>0, <1>1 DEF Connection
<1>3. PICK s : s = [[conn[c] EXCEPT !.stage = "closed"] EXCEPT !.unread = <<>>]
  OBVIOUS
<1>4. <<>> \in Seq(Clients \X Nat)
  OBVIOUS
<1>5. s \in Connection(Echo) /\ s.stage = "closed"
  BY <1>0, <1>3, <1>4 DEF Connection
<1>6. [conn EXCEPT ![c].stage = "closed", ![c].unread = <<>>] = [conn EXCEPT ![c] = s]
  BY <1>0, <1>3 DEF Connection
<1>. QED
  BY <1>1, <1>2, <1>5, <1>6

-----------------------------------------------------------------------------
(* ForkServers.                                                            *)
States == {"none", "started", "reading", "writing", "zombie", "gone", "reaped"}

Workers ==
  [state : States,
   serves : Clients \union {None}, line : Seq(Clients \X Nat)]

ForkTypes ==
  /\ program \in F!Programs
  /\ pc \in {"accept", "fork", "close", "serve", "exited"}
  /\ cfd \in Clients \union {None}
  /\ pc \in {"fork", "close"} => cfd \in Clients
  /\ pc = "close" => F!Forks
  /\ worker \in [Clients -> Workers]
  /\ holders \in [Clients -> SUBSET {"main", "child"}]
  /\ conn \in [Clients -> Connection(Clients \X Nat)]

MainAt(place, c) == pc = place /\ cfd = c

(* Who holds the descriptor of a connection: main until it has started the *)
(* worker, and a parent until it has closed it; then the worker, while it  *)
(* runs.                                                                   *)
ForkOk(c) ==
  /\ conn[c].stage \in {"none", "pending"} => worker[c].state = "none" /\ holders[c] = {}
  /\ conn[c].stage = "open" <=> holders[c] # {}
  /\ MainAt("fork", c) => worker[c].state = "none" /\ holders[c] = {"main"}
  /\ worker[c].state = "none" /\ ~ MainAt("fork", c) => holders[c] = {}
  /\ MainAt("close", c) => worker[c].state # "none" /\ "main" \in holders[c]
  /\ worker[c].state \in {"started", "reading", "writing"} =>
       IF F!Forks THEN "child" \in holders[c] /\ ("main" \in holders[c] => MainAt("close", c))
                  ELSE holders[c] = {"main"}
  /\ worker[c].state \in {"zombie", "gone", "reaped"} =>
       "child" \notin holders[c] /\ ("main" \in holders[c] => MainAt("close", c))
  /\ worker[c].state \in {"reading", "writing"} => worker[c].serves = c

ForkInv == ForkTypes /\ (pc # "exited" => \A c \in Clients : ForkOk(c))

(* No process holds a descriptor before the first accept.                  *)
LEMMA ForkInit ==
  ASSUME F!Init
  PROVE  ForkInv
<1>1. conn = [c \in Clients |-> NoConn]
  BY DEF F!Init, F!InitPeers, F!NoConn, NoConn
<1>2. conn \in [Clients -> Connection(Clients \X Nat)]
  BY <1>1, NoConnTyped
<1>3. worker = [c \in Clients |-> F!NoWorker] /\ <<>> \in Seq(Clients \X Nat)
  BY DEF F!Init
<1>4. worker \in [Clients -> Workers]
  BY <1>3 DEF F!NoWorker, Workers, States
<1>5. ForkTypes
  BY <1>2, <1>4 DEF F!Init, ForkTypes
<1>6. ASSUME NEW c \in Clients
      PROVE  ForkOk(c)
  <2>1. conn[c].stage = "none" /\ worker[c].state = "none" /\ holders[c] = {} /\ pc = "accept"
    BY <1>1, <1>3, <1>6 DEF NoConn, F!NoWorker, F!Init
  <2>. QED
    BY <2>1 DEF ForkOk, MainAt
<1>. QED
  BY <1>5, <1>6 DEF ForkInv

(* The variables of main alone.                                            *)
LEMMA ForkAccept ==
  ASSUME ForkInv, NEW c \in Clients, F!Accept(c) \/ F!AcceptFails(c), program' = program
  PROVE  ForkInv'
<1>0. /\ F!Forks' = F!Forks /\ pc = "accept" /\ \A d \in Clients : ForkOk(d)
      /\ conn[c].stage = "pending" /\ worker' = worker
  BY DEF ForkInv, F!Forks, F!Accept, F!AcceptFails, F!MainGoes, F!Pending
<1>1. CASE F!Accept(c)
  <2>1. PICK r \in Connection(Clients \X Nat) : r.stage = "open" /\ conn' = [conn EXCEPT ![c] = r]
    BY <1>1, StageTyped DEF F!Accept, ForkInv, ForkTypes
  <2>2. pc' = "fork" /\ cfd' = c /\ holders' = [holders EXCEPT ![c] = {"main"}]
    BY <1>1 DEF F!Accept, F!MainGoes
  <2>3. ForkTypes'
    BY <1>0, <2>1, <2>2 DEF ForkTypes, ForkInv
  <2>4. ASSUME NEW d \in Clients
        PROVE  ForkOk(d)'
    BY <1>0, <2>1, <2>2 DEF ForkOk, ForkTypes, ForkInv, MainAt
  <2>. QED
    BY <2>3, <2>4 DEF ForkInv
<1>2. CASE F!AcceptFails(c)
  <2>1. PICK r \in Connection(Clients \X Nat) : r.stage = "closed" /\ conn' = [conn EXCEPT ![c] = r]
    BY <1>2, StageTyped DEF F!AcceptFails, ForkInv, ForkTypes
  <2>2. pc' = "exited" /\ cfd' = cfd /\ holders' = holders
    BY <1>2 DEF F!AcceptFails, F!MainGoes
  <2>3. ForkTypes'
    BY <1>0, <2>1, <2>2 DEF ForkTypes, ForkInv
  <2>. QED
    BY <2>2, <2>3 DEF ForkInv
<1>. QED
  BY <1>1, <1>2

(* A worker starts, or main closes its descriptor.                         *)
LEMMA ForkStarts ==
  ASSUME ForkInv, F!Starts, program' = program
  PROVE  ForkInv'
<1>0. /\ F!Forks' = F!Forks /\ pc = "fork" /\ \A d \in Clients : ForkOk(d)
      /\ cfd \in Clients /\ cfd' = cfd /\ conn' = conn
  BY DEF ForkInv, ForkTypes, F!Forks, F!Starts, F!MainGoes
<1>1. PICK r \in Workers : r.state = "started" /\ worker' = [worker EXCEPT ![cfd] = r]
  <2>1. [state |-> "started", serves |-> None, line |-> <<>>] \in Workers
    <3>1. <<>> \in Seq(Clients \X Nat)
      OBVIOUS
    <3>. QED
      BY <3>1 DEF Workers, States
  <2>. QED
    BY <2>1 DEF F!Starts
<1>2. /\ F!Forks => pc' = "close" /\ holders' = [holders EXCEPT ![cfd] = {"main", "child"}]
      /\ ~ F!Forks => pc' \in {"accept", "serve"} /\ holders' = [holders EXCEPT ![cfd] = holders[cfd]]
  BY DEF F!Starts, F!MainGoes
<1>3. ForkTypes'
  BY <1>0, <1>1, <1>2 DEF ForkTypes, ForkInv
<1>4. ASSUME NEW d \in Clients
      PROVE  ForkOk(d)'
  <2>1. CASE d = cfd
    BY <1>0, <1>1, <1>2, <2>1 DEF ForkOk, ForkTypes, ForkInv, MainAt
  <2>2. CASE d # cfd
    BY <1>0, <1>1, <1>2, <2>2 DEF ForkOk, ForkTypes, ForkInv, MainAt
  <2>. QED
    BY <2>1, <2>2
<1>. QED
  BY <1>3, <1>4 DEF ForkInv

(* One of the holders of a descriptor closes it.                           *)
LEMMA ForkDrops ==
  ASSUME ForkTypes, NEW c \in Clients, NEW who, F!Drops(c, who)
  PROVE  /\ holders' \in [Clients -> SUBSET {"main", "child"}]
         /\ holders' = [holders EXCEPT ![c] = holders[c] \ {who}]
         /\ conn' \in [Clients -> Connection(Clients \X Nat)]
         /\ \A d \in Clients \ {c} : conn'[d] = conn[d]
         /\ conn'[c].stage = IF holders'[c] = {} THEN "closed" ELSE conn[c].stage
<1>1. holders' = [holders EXCEPT ![c] = holders[c] \ {who}]
  BY DEF F!Drops
<1>2. PICK r \in Connection(Clients \X Nat) :
        r.stage = "closed"
        /\ [conn EXCEPT ![c].stage = "closed", ![c].unread = <<>>] = [conn EXCEPT ![c] = r]
  BY StageTyped DEF ForkTypes
<1>3. conn' = IF holders'[c] = {} THEN [conn EXCEPT ![c] = r] ELSE conn
  BY <1>2 DEF F!Drops
<1>. QED
  BY <1>1, <1>2, <1>3 DEF ForkTypes

(* The parent lets go of a connection its child has taken.                 *)
LEMMA ForkParentCloses ==
  ASSUME ForkInv, F!ParentCloses, program' = program
  PROVE  ForkInv'
<1>0. /\ F!Forks' = F!Forks /\ pc = "close" /\ \A d \in Clients : ForkOk(d)
      /\ cfd \in Clients /\ cfd' = cfd /\ worker' = worker /\ pc' = "accept"
      /\ F!Drops(cfd, "main") /\ F!Forks
  BY DEF ForkInv, ForkTypes, F!Forks, F!ParentCloses, F!MainGoes
<1>1. /\ holders' \in [Clients -> SUBSET {"main", "child"}]
      /\ holders' = [holders EXCEPT ![cfd] = holders[cfd] \ {"main"}]
      /\ conn' \in [Clients -> Connection(Clients \X Nat)]
      /\ \A d \in Clients \ {cfd} : conn'[d] = conn[d]
      /\ conn'[cfd].stage = IF holders'[cfd] = {} THEN "closed" ELSE conn[cfd].stage
  BY <1>0, ForkDrops DEF ForkInv
<1>3. ForkTypes'
  BY <1>0, <1>1 DEF ForkTypes, ForkInv
<1>4. ASSUME NEW d \in Clients
      PROVE  ForkOk(d)'
  <2>1. CASE d = cfd
    BY <1>0, <1>1, <2>1 DEF ForkOk, ForkTypes, ForkInv, MainAt
  <2>2. CASE d # cfd
    BY <1>0, <1>1, <2>2 DEF ForkOk, ForkTypes, ForkInv, MainAt
  <2>. QED
    BY <2>1, <2>2
<1>. QED
  BY <1>3, <1>4 DEF ForkInv

(* A worker that runs, and goes on doing so.                               *)
LEMMA ForkWorks ==
  ASSUME ForkInv, NEW c \in Clients,
         F!TakesArgument(c) \/ F!ReadsLine(c) \/ F!WritesLine(c), program' = program
  PROVE  ForkInv'
<1>0. /\ F!Forks' = F!Forks /\ \A d \in Clients : ForkOk(d)
      /\ cfd' = cfd /\ pc' = pc /\ holders' = holders
      /\ worker \in [Clients -> Workers] /\ "reading" \in States /\ "writing" \in States
  BY DEF ForkInv, ForkTypes, States, F!Forks, F!TakesArgument, F!ReadsLine, F!WritesLine, F!WorkerSteps
<1>1. \E r \in Workers :
        /\ worker' = [worker EXCEPT ![c] = r]
        /\ r.state \in {"reading", "writing"} /\ r.serves = c
        /\ worker[c].state \in {"started", "reading", "writing"}
        /\ \/ conn' = conn
           \/ \E s \in Connection(Clients \X Nat) :
                s.stage = conn[c].stage /\ conn' = [conn EXCEPT ![c] = s]
  <2>1. CASE F!TakesArgument(c)
    <3>1. worker' = [worker EXCEPT ![c].state = "reading", ![c].serves = c]
          /\ worker[c].state = "started" /\ conn' = conn
      BY <2>1 DEF F!TakesArgument, F!WorkerSteps
    <3>2. PICK r : r = [[worker[c] EXCEPT !.state = "reading"] EXCEPT !.serves = c]
      OBVIOUS
    <3>3. worker[c] \in Workers
      BY <1>0
    <3>4. r \in Workers /\ r.state = "reading" /\ r.serves = c
      BY <3>2, <3>3 DEF Workers, States
    <3>5. worker' = [worker EXCEPT ![c] = r]
      BY <3>1, <3>2, <1>0
    <3>. QED
      BY <3>1, <3>4, <3>5
  <2>2. CASE F!ReadsLine(c)
    <3>1. worker[c].state = "reading" /\ worker[c].serves = c
      BY <2>2, <1>0 DEF F!ReadsLine, F!WorkerSteps, ForkOk
    <3>2. /\ conn[c].unread # <<>>
          /\ worker' = [worker EXCEPT ![c].state = "writing", ![c].line = <<Head(conn[c].unread)>>]
          /\ conn' = [conn EXCEPT ![c].unread = Tail(conn[c].unread)]
      BY <2>2, <3>1 DEF F!ReadsLine
    <3>3. conn[c] \in Connection(Clients \X Nat)
      BY DEF ForkInv, ForkTypes
    <3>4. <<Head(conn[c].unread)>> \in Seq(Clients \X Nat) /\ Tail(conn[c].unread) \in Seq(Clients \X Nat)
      BY <3>2, <3>3 DEF Connection
    <3>5. PICK r : r = [[worker[c] EXCEPT !.state = "writing"] EXCEPT !.line = <<Head(conn[c].unread)>>]
      OBVIOUS
    <3>9. r \in Workers /\ r.state = "writing" /\ r.serves = worker[c].serves
      BY <1>0, <3>4, <3>5 DEF Workers, States
    <3>10. worker' = [worker EXCEPT ![c] = r]
      BY <3>2, <3>5, <1>0
    <3>6. PICK s : s = [conn[c] EXCEPT !.unread = Tail(conn[c].unread)]
      OBVIOUS
    <3>7. s \in Connection(Clients \X Nat) /\ s.stage = conn[c].stage
      BY <3>3, <3>4, <3>6 DEF Connection
    <3>8. conn' = [conn EXCEPT ![c] = s]
      BY <3>2, <3>6
    <3>. QED
      BY <3>1, <3>9, <3>10, <3>7, <3>8
  <2>3. CASE F!WritesLine(c)
    <3>1. worker[c].state = "writing" /\ worker[c].serves = c
      BY <2>3, <1>0 DEF F!WritesLine, F!WorkerSteps, ForkOk
    <3>2. /\ worker' = [worker EXCEPT ![c].state = "reading", ![c].line = <<>>]
          /\ conn' = [conn EXCEPT ![c].echoed = conn[c].echoed \o worker[c].line]
      BY <2>3, <3>1 DEF F!WritesLine
    <3>3. conn[c] \in Connection(Clients \X Nat) /\ worker[c] \in Workers
      BY DEF ForkInv, ForkTypes
    <3>4. conn[c].echoed \o worker[c].line \in Seq(Clients \X Nat) /\ <<>> \in Seq(Clients \X Nat)
      BY <3>3 DEF Connection, Workers
    <3>5. PICK r : r = [[worker[c] EXCEPT !.state = "reading"] EXCEPT !.line = <<>>]
      OBVIOUS
    <3>9. r \in Workers /\ r.state = "reading" /\ r.serves = worker[c].serves
      BY <1>0, <3>4, <3>5 DEF Workers, States
    <3>10. worker' = [worker EXCEPT ![c] = r]
      BY <3>2, <3>5, <1>0
    <3>6. PICK s : s = [conn[c] EXCEPT !.echoed = conn[c].echoed \o worker[c].line]
      OBVIOUS
    <3>7. s \in Connection(Clients \X Nat) /\ s.stage = conn[c].stage
      BY <3>3, <3>4, <3>6 DEF Connection
    <3>8. conn' = [conn EXCEPT ![c] = s]
      BY <3>2, <3>6
    <3>. QED
      BY <3>1, <3>9, <3>10, <3>7, <3>8
  <2>. QED
    BY <2>1, <2>2, <2>3
<1>2. PICK r \in Workers :
        /\ worker' = [worker EXCEPT ![c] = r]
        /\ r.state \in {"reading", "writing"} /\ r.serves = c
        /\ worker[c].state \in {"started", "reading", "writing"}
        /\ \/ conn' = conn
           \/ \E s \in Connection(Clients \X Nat) :
                s.stage = conn[c].stage /\ conn' = [conn EXCEPT ![c] = s]
  BY <1>1
<1>3. ForkTypes'
  BY <1>0, <1>2 DEF ForkTypes, ForkInv
<1>4. \A d \in Clients : conn'[d].stage = conn[d].stage
  BY <1>2 DEF ForkTypes, ForkInv
<1>5. ASSUME NEW d \in Clients
      PROVE  ForkOk(d)'
  <2>1. CASE d = c
    BY <1>0, <1>2, <1>4, <2>1 DEF ForkOk, ForkTypes, ForkInv, MainAt
  <2>2. CASE d # c
    <3>1. worker'[d] = worker[d]
      BY <1>2, <2>2 DEF ForkTypes, ForkInv
    <3>. QED
      BY <1>0, <1>4, <3>1 DEF ForkOk, MainAt
  <2>. QED
    BY <2>1, <2>2
<1>. QED
  BY <1>3, <1>5 DEF ForkInv

(* A worker that is done closes its descriptor.                            *)
LEMMA ForkLeaves ==
  ASSUME ForkInv, NEW c \in Clients, F!Leaves(c), worker[c].state \in {"reading", "writing"},
         pc # "exited", program' = program, cfd' = cfd
  PROVE  ForkInv'
<1>0. /\ F!Forks' = F!Forks /\ \A d \in Clients : ForkOk(d)
      /\ worker[c].serves = c
  <2>1. \A d \in Clients : ForkOk(d)
    BY DEF ForkInv
  <2>. QED
    BY <2>1 DEF F!Forks, ForkOk
<1>1. PICK state \in States :
        /\ worker' = [worker EXCEPT ![c].state = state]
        /\ state = IF F!Forks THEN "zombie" ELSE "gone"
  BY DEF F!Leaves, States
<1>2. PICK r \in Workers : r.state = state /\ worker' = [worker EXCEPT ![c] = r]
  <2>1. worker \in [Clients -> Workers]
    BY DEF ForkInv, ForkTypes
  <2>2. PICK r : r = [worker[c] EXCEPT !.state = state]
    OBVIOUS
  <2>3. r \in Workers /\ r.state = state
    BY <2>1, <2>2 DEF Workers
  <2>. QED
    BY <1>1, <2>2, <2>3
<1>3. PICK who : who = (IF F!Forks THEN "child" ELSE "main") /\ F!Drops(c, who)
  BY <1>0 DEF F!Leaves
<1>4. /\ holders' \in [Clients -> SUBSET {"main", "child"}]
      /\ holders' = [holders EXCEPT ![c] = holders[c] \ {who}]
      /\ conn' \in [Clients -> Connection(Clients \X Nat)]
      /\ \A d \in Clients \ {c} : conn'[d] = conn[d]
      /\ conn'[c].stage = IF holders'[c] = {} THEN "closed" ELSE conn[c].stage
  BY <1>3, ForkDrops DEF ForkInv
<1>5. pc' = pc \/ (pc' = "exited" /\ ~ F!Forks)
  BY DEF F!Leaves
<1>6. ForkTypes'
  BY <1>0, <1>2, <1>4, <1>5 DEF ForkTypes, ForkInv
<1>7. ASSUME NEW d \in Clients, pc' = pc
      PROVE  ForkOk(d)'
  <2>1. CASE d = c
    BY <1>0, <1>1, <1>2, <1>3, <1>4, <1>7, <2>1 DEF ForkOk, ForkTypes, ForkInv, MainAt
  <2>2. CASE d # c
    <3>1. worker'[d] = worker[d] /\ conn'[d] = conn[d] /\ holders'[d] = holders[d]
      BY <1>2, <1>4, <2>2 DEF ForkTypes, ForkInv
    <3>. QED
      BY <1>0, <1>7, <3>1 DEF ForkOk, MainAt
  <2>. QED
    BY <2>1, <2>2
<1>. QED
  BY <1>5, <1>6, <1>7 DEF ForkInv

(* A child that stops, at the end of its client or on an error, closes     *)
(* what it held.                                                           *)
LEMMA ForkStops ==
  ASSUME ForkInv, NEW c \in Clients, F!StopsReading(c) \/ F!Fails(c), program' = program
  PROVE  ForkInv'
<1>1. CASE F!StopsReading(c)
  <2>1. F!Leaves(c) /\ worker[c].state = "reading" /\ pc # "exited" /\ cfd' = cfd
    BY <1>1 DEF F!StopsReading, F!WorkerSteps
  <2>. QED
    BY <2>1, ForkLeaves
<1>2. CASE F!Fails(c) /\ F!Forks
  <2>1. F!Leaves(c) /\ worker[c].state \in {"reading", "writing"} /\ pc # "exited" /\ cfd' = cfd
    BY <1>2 DEF F!Fails, F!WorkerSteps
  <2>. QED
    BY <2>1, ForkLeaves
<1>3. CASE F!Fails(c) /\ ~ F!Forks
  <2>1. /\ pc' = "exited" /\ cfd' = cfd
        /\ conn' = conn /\ worker' = worker /\ holders' = holders
    BY <1>3 DEF F!Fails, F!WorkerSteps
  <2>2. ForkTypes'
    BY <2>1 DEF ForkTypes, ForkInv
  <2>. QED
    BY <2>1, <2>2 DEF ForkInv
<1>. QED
  BY <1>1, <1>2, <1>3

(* The handler collects a child.                                           *)
LEMMA ForkHandler ==
  ASSUME ForkInv, F!HandlerStarts \/ F!HandlerWaits \/ F!HandlerReturns, program' = program
  PROVE  ForkInv'
<1>0. /\ F!Forks' = F!Forks /\ pc' = pc /\ cfd' = cfd /\ conn' = conn /\ holders' = holders
  BY DEF F!Forks, F!HandlerStarts, F!HandlerWaits, F!HandlerReturns
<1>1. CASE worker' = worker
  <2>1. ForkTypes'
    BY <1>0, <1>1 DEF ForkInv, ForkTypes
  <2>2. ASSUME pc # "exited", NEW c \in Clients
        PROVE  ForkOk(c)'
    <3>1. ForkOk(c)
      BY <2>2 DEF ForkInv
    <3>. QED
      BY <1>0, <1>1, <3>1 DEF ForkOk, MainAt
  <2>. QED
    BY <1>0, <2>1, <2>2 DEF ForkInv
<1>2. ASSUME NEW c \in Clients, worker[c].state = "zombie",
             worker' = [worker EXCEPT ![c].state = "reaped"]
      PROVE  ForkInv'
  <2>1. PICK r \in Workers : r.state = "reaped" /\ worker' = [worker EXCEPT ![c] = r]
    <3>1. "reaped" \in States /\ worker \in [Clients -> Workers]
      BY DEF States, ForkInv, ForkTypes
    <3>2. PICK r : r = [worker[c] EXCEPT !.state = "reaped"]
      OBVIOUS
    <3>3. r \in Workers /\ r.state = "reaped"
      BY <3>1, <3>2 DEF Workers
    <3>. QED
      BY <1>2, <3>2, <3>3
  <2>2. ForkTypes'
    BY <1>0, <2>1 DEF ForkInv, ForkTypes
  <2>3. ASSUME pc # "exited", NEW d \in Clients
        PROVE  ForkOk(d)'
    <3>1. ForkOk(d)
      BY <2>3 DEF ForkInv
    <3>2. d # c => worker'[d] = worker[d]
      BY <2>1 DEF ForkInv, ForkTypes
    <3>3. worker'[c].state = "reaped"
      BY <2>1 DEF ForkInv, ForkTypes
    <3>. QED
      BY <1>0, <1>2, <3>1, <3>2, <3>3 DEF ForkOk, MainAt
  <2>. QED
    BY <1>0, <2>2, <2>3 DEF ForkInv
<1>. QED
  BY <1>1, <1>2 DEF F!HandlerStarts, F!HandlerWaits, F!HandlerReturns, F!Zombies

(* What arrives from the clients changes no descriptor.                    *)
LEMMA ForkEnvironment ==
  ASSUME ForkInv, F!Environment, program' = program
  PROVE  ForkInv'
<1>0. /\ F!Forks' = F!Forks /\ pc' = pc /\ cfd' = cfd /\ worker' = worker /\ holders' = holders
  BY DEF F!Forks, F!Environment
<1>1. PICK c \in Clients : Connects(c) \/ Arrives(c)
  BY DEF F!Environment, F!Connects, F!Arrives, F!Sends, F!ShutsDown, F!Resets, F!Alive, F!Open,
         Connects, Arrives, Sends, ShutsDown, Resets, Alive, Open
<1>2. PICK r \in Connection(Clients \X Nat) :
        /\ conn' = [conn EXCEPT ![c] = r]
        /\ r.echoed = conn[c].echoed
        /\ \/ Arrives(c) /\ r.stage = conn[c].stage /\ r.stage \in {"pending", "open"}
           \/ conn[c].stage = "none" /\ r.stage = "pending"
  <2>1. conn \in [Clients -> Connection(Clients \X Nat)]
    BY DEF ForkInv, ForkTypes
  <2>. QED
    BY <1>1, <2>1, ArrivesTyped
<1>3. ForkTypes'
  BY <1>0, <1>2 DEF ForkInv, ForkTypes
<1>4. ASSUME pc # "exited", NEW d \in Clients
      PROVE  ForkOk(d)'
  <2>1. ForkOk(d)
    BY <1>4 DEF ForkInv
  <2>2. conn'[d].stage = conn[d].stage \/ (conn[d].stage = "none" /\ conn'[d].stage = "pending")
    BY <1>2 DEF ForkInv, ForkTypes
  <2>. QED
    BY <1>0, <2>1, <2>2 DEF ForkOk, MainAt
<1>. QED
  BY <1>0, <1>3, <1>4 DEF ForkInv

(* Every step of a multi-process server keeps the invariant.               *)
LEMMA ForkNext ==
  ASSUME ForkInv, F!Next, program' = program
  PROVE  ForkInv'
<1>1. CASE F!Main
  BY <1>1, ForkAccept, ForkStarts, ForkParentCloses, ForkHandler DEF F!Main
<1>2. CASE \E c \in Clients : F!Worker(c)
  BY <1>2, ForkWorks, ForkStops DEF F!Worker
<1>3. CASE F!Environment
  BY <1>3, ForkEnvironment
<1>. QED
  BY <1>1, <1>2, <1>3 DEF F!Next

(* The invariant holds throughout the runs of the multi-process servers.   *)
LEMMA ForkAlways == Spec => [](Runs(F!Programs) => ForkInv)
<1>1. Init => (Runs(F!Programs) => ForkInv)
  BY OnlyOneStarts, ForkInit
<1>2. ASSUME Runs(F!Programs) => ForkInv, [Next]_mcVars
      PROVE  (Runs(F!Programs) => ForkInv)'
  <2>1. program' = program
    BY <1>2, ProgramStays
  <2>2. CASE UNCHANGED mcVars
    <3>1. /\ conn' = conn /\ pc' = pc /\ cfd' = cfd /\ worker' = worker /\ holders' = holders
      BY <2>2 DEF mcVars, forkVars
    <3>2. F!Forks' = F!Forks
      BY <2>1 DEF F!Forks
    <3>3. ForkTypes => ForkTypes'
      BY <2>1, <3>1, <3>2 DEF ForkTypes
    <3>4. ASSUME NEW c \in Clients, ForkOk(c)
          PROVE  ForkOk(c)'
      BY <3>1, <3>2, <3>4 DEF ForkOk, MainAt
    <3>. QED
      BY <1>2, <2>1, <3>1, <3>3, <3>4 DEF ForkInv, Runs
  <2>3. CASE Next
    BY <1>2, <2>1, <2>3, OnlyOneRuns, ForkNext DEF Runs
  <2>. QED
    BY <1>2, <2>2, <2>3
<1>. QED
  BY <1>1, <1>2, PTL DEF Spec

(***************************************************************************)
(* No parent keeps a descriptor open that its child is done with: while    *)
(* main waits for a client, every open connection has a worker, for any    *)
(* number of clients.                                                      *)
(***************************************************************************)
THEOREM NoDescriptorLeaked == Spec => []NothingLeaked
<1>1. (Runs(F!Programs) => ForkInv) => NothingLeaked
  <2>1. ASSUME ForkInv, NEW c \in Clients, pc = "accept", conn[c].stage = "open"
        PROVE  worker[c].state \in {"started", "reading", "writing"}
    <3>1. ForkOk(c) /\ worker[c] \in Workers
      BY <2>1 DEF ForkInv, ForkTypes
    <3>2. worker[c].state \in States
      BY <3>1 DEF Workers
    <3>3. holders[c] \in SUBSET {"main", "child"}
      BY <2>1 DEF ForkInv, ForkTypes
    <3>. QED
      BY <2>1, <3>1, <3>2, <3>3 DEF ForkOk, MainAt, States
  <2>. QED
    BY <2>1 DEF NothingLeaked, F!NothingLeaked, F!Open
<1>. QED
  BY <1>1, ForkAlways, PTL

-----------------------------------------------------------------------------
(* HttpServer.                                                             *)
Answers == [type : {"html", "file"}, body : {"invalid", "404", "file", "dir"}]

Jobs ==
  [client : Clients \union {None}, path : Paths \union {H!Root, None},
   type : H!Kinds \union {None}, entries : SUBSET Paths, seen : SUBSET H!Kinds]

Handling == {"access", "stat", "open", "entries"}

HttpTypes ==
  /\ conn \in [Clients -> Connection(Answers)]
  /\ asked \in [Clients -> Paths \union {H!Root, None}]
  /\ tree \in [Paths -> H!Kinds]
  /\ job \in Jobs
  /\ out \in [Clients -> Seq(Answers)]
  /\ reads \in [Clients -> Nat]
  /\ pc \in Handling \union {"loop", "exited"}

(* A job is at a path that was read, and what is there now was seen; the   *)
(* entries of a directory are looked at because there was one.             *)
JobOk ==
  /\ pc = "loop" => job.client = None
  /\ pc \in Handling =>
       job.client \in Clients /\ job.path \in Paths \union {H!Root} /\ H!At(job.path) \in job.seen
  /\ pc = "entries" => "dir" \in job.seen

(* OneAnswerPerRead holds from before the connection is accepted.          *)
Answered(c) ==
  conn[c].stage # "closed" =>
    /\ job.client # c => reads[c] = Len(conn[c].echoed) + Len(out[c])
    /\ job.client = c => reads[c] = Len(conn[c].echoed) + Len(out[c]) + 1

HttpInv == HttpTypes /\ JobOk /\ \A c \in Clients : Answered(c)

(* Nothing is asked or answered before the first client.                   *)
LEMMA HttpInit ==
  ASSUME H!Init
  PROVE  HttpInv
<1>1. conn = [c \in Clients |-> NoConn]
  BY DEF H!Init, H!InitPeers, H!NoConn, NoConn
<1>2. conn \in [Clients -> Connection(Answers)]
  BY <1>1, NoConnTyped
<1>3. job = [client |-> None, path |-> None, type |-> None, entries |-> {}, seen |-> {}]
  BY DEF H!Init, H!NoJob
<1>4. job \in Jobs /\ job.client = None
  BY <1>3 DEF Jobs
<1>5. tree \in [Paths -> H!Kinds]
  BY DEF H!Init, H!Kinds
<1>6. out = [c \in Clients |-> <<>>] /\ <<>> \in Seq(Answers)
  BY DEF H!Init
<1>7. HttpTypes
  BY <1>2, <1>4, <1>5, <1>6 DEF HttpTypes, H!Init
<1>8. JobOk
  BY <1>4 DEF H!Init, JobOk, Handling
<1>9. ASSUME NEW c \in Clients
      PROVE  Answered(c)
  <2>1. None # c
    BY PeersAssumption
  <2>2. conn[c].echoed = <<>> /\ out[c] = <<>> /\ reads[c] = 0
    BY <1>1, <1>6 DEF H!Init, NoConn
  <2>. QED
    BY <1>4, <2>1, <2>2 DEF Answered
<1>. QED
  BY <1>7, <1>8, <1>9 DEF HttpInv

(* read_cb takes what has come.                                            *)
LEMMA HttpReads ==
  ASSUME HttpInv, NEW c \in Clients, H!handler_invalid_request(c) \/ H!parse_request(c)
  PROVE  HttpInv'
<1>1. /\ pc = "loop" /\ conn[c].stage = "open" /\ conn' = [conn EXCEPT ![c].unread = <<>>]
      /\ reads' = [reads EXCEPT ![c] = reads[c] + 1]
      /\ asked' = asked /\ tree' = tree
  BY DEF H!handler_invalid_request, H!parse_request, H!Reads, H!Open
<1>2. PICK r : r = [conn[c] EXCEPT !.unread = <<>>]
  OBVIOUS
<1>3. conn[c] \in Connection(Answers) /\ <<>> \in Seq(Clients \X Nat)
  BY DEF HttpInv, HttpTypes
<1>4. r \in Connection(Answers) /\ r.echoed = conn[c].echoed /\ r.stage = conn[c].stage
  BY <1>2, <1>3 DEF Connection
<1>5. conn' = [conn EXCEPT ![c] = r]
  BY <1>1, <1>2
<1>6. job.client = None /\ None \notin Clients
  BY <1>1, PeersAssumption DEF HttpInv, JobOk
<1>7. \A d \in Clients : Len(conn[d].echoed) \in Nat /\ Len(out[d]) \in Nat /\ reads[d] \in Nat
  BY DEF HttpInv, HttpTypes, Connection
<1>8. \A d \in Clients : conn'[d].echoed = conn[d].echoed /\ conn'[d].stage = conn[d].stage
  BY <1>4, <1>5 DEF HttpInv, HttpTypes
<1>11. conn' \in [Clients -> Connection(Answers)] /\ reads' \in [Clients -> Nat]
       /\ asked' \in [Clients -> Paths \union {H!Root, None}] /\ tree' \in [Paths -> H!Kinds]
  <2>1. conn' \in [Clients -> Connection(Answers)]
    BY <1>4, <1>5 DEF HttpInv, HttpTypes
  <2>2. reads' \in [Clients -> Nat] /\ reads'[c] = reads[c] + 1
    BY <1>1, <1>7 DEF HttpInv, HttpTypes
  <2>. QED
    BY <1>1, <2>1, <2>2 DEF HttpInv, HttpTypes
<1>12. reads'[c] = reads[c] + 1 /\ reads[c] = Len(conn[c].echoed) + Len(out[c])
  <2>1. reads'[c] = reads[c] + 1
    BY <1>1 DEF HttpInv, HttpTypes
  <2>2. Answered(c)
    BY DEF HttpInv
  <2>. QED
    BY <1>1, <1>6, <2>1, <2>2 DEF Answered
<1>9. CASE H!handler_invalid_request(c)
  <2>1. PICK a : a = [type |-> "html", body |-> "invalid"]
    OBVIOUS
  <2>2. a \in Answers
    BY <2>1 DEF Answers
  <2>3. out' = [out EXCEPT ![c] = Append(out[c], a)] /\ job' = job /\ pc' = pc
    BY <1>9, <2>1 DEF H!handler_invalid_request, H!Adds
  <2>4. Append(out[c], a) \in Seq(Answers) /\ Len(Append(out[c], a)) = Len(out[c]) + 1
    BY <2>2 DEF HttpInv, HttpTypes
  <2>5. HttpTypes'
    <3>1. out' \in [Clients -> Seq(Answers)] /\ job' \in Jobs
      BY <2>3, <2>4 DEF HttpInv, HttpTypes
    <3>. QED
      BY <1>1, <1>11, <2>3, <3>1 DEF HttpTypes, Handling
  <2>6. JobOk'
    BY <1>1, <2>3 DEF HttpInv, JobOk, Handling
  <2>7. ASSUME NEW d \in Clients
        PROVE  Answered(d)'
    <3>1. Answered(d)
      BY DEF HttpInv
    <3>2. CASE d = c
      <4>1. Len(out'[c]) = Len(out[c]) + 1
        BY <2>3, <2>4 DEF HttpInv, HttpTypes
      <4>2. job'.client # c
        BY <1>6, <2>3
      <4>3. reads'[c] = Len(conn[c].echoed) + Len(out'[c])
        <5>1. PICK k \in Nat : k = Len(conn[c].echoed)
          BY <1>7
        <5>2. PICK l \in Nat : l = Len(out[c])
          BY <1>7
        <5>3. (k + l) + 1 = k + (l + 1)
          BY ONLY k \in Nat, l \in Nat
        <5>. QED
          BY <1>12, <4>1, <5>1, <5>2, <5>3, Zenon
      <4>. QED
        BY <1>8, <3>2, <4>2, <4>3 DEF Answered
    <3>3. CASE d # c
      <4>1. out'[d] = out[d] /\ reads'[d] = reads[d]
        BY <1>1, <2>3, <3>3 DEF HttpInv, HttpTypes
      <4>. QED
        BY <1>8, <2>3, <3>1, <4>1 DEF Answered
    <3>. QED
      BY <3>2, <3>3
  <2>. QED
    BY <2>5, <2>6, <2>7 DEF HttpInv
<1>10. CASE H!parse_request(c)
  <2>1. PICK path \in H!Parsed(c) \ {None} :
          job' = [H!NoJob EXCEPT !.client = c, !.path = path, !.seen = {H!At(path)}]
    BY <1>10 DEF H!parse_request
  <2>2. path \in Paths \union {H!Root}
    BY <2>1 DEF H!Parsed, HttpInv, HttpTypes
  <2>3. H!At(path) \in H!Kinds
    BY <2>2 DEF H!At, H!Kinds, HttpInv, HttpTypes
  <2>4. job' \in Jobs /\ job'.client = c /\ job'.path = path /\ job'.seen = {H!At(path)}
    BY <2>1, <2>2, <2>3 DEF H!NoJob, Jobs
  <2>5. pc' = "access" /\ out' = out
    BY <1>10 DEF H!parse_request
  <2>6. HttpTypes'
    <3>1. out' \in [Clients -> Seq(Answers)] /\ job' \in Jobs
      BY <2>4, <2>5 DEF HttpInv, HttpTypes
    <3>. QED
      BY <1>11, <2>5, <3>1 DEF HttpTypes, Handling
  <2>7. JobOk'
    BY <1>1, <2>2, <2>4, <2>5 DEF JobOk, Handling, H!At
  <2>8. ASSUME NEW d \in Clients
        PROVE  Answered(d)'
    <3>1. Answered(d)
      BY DEF HttpInv
    <3>2. CASE d = c
      <4>1. out'[c] = out[c] /\ job'.client = c
        BY <2>4, <2>5
      <4>. QED
        BY <1>7, <1>8, <1>12, <3>2, <4>1 DEF Answered
    <3>3. CASE d # c
      <4>1. reads'[d] = reads[d]
        BY <1>1, <3>3 DEF HttpInv, HttpTypes
      <4>. QED
        BY <1>6, <1>8, <2>4, <2>5, <3>1, <3>3, <4>1 DEF Answered
    <3>. QED
      BY <3>2, <3>3
  <2>. QED
    BY <2>6, <2>7, <2>8 DEF HttpInv
<1>. QED
  BY <1>9, <1>10

(* main_handler is done with a request.                                    *)
LEMMA HttpReplies ==
  ASSUME HttpInv, pc \in Handling, NEW a \in Answers,
         out' = [out EXCEPT ![job.client] = Append(out[job.client], a)],
         job' = H!NoJob, pc' = "loop", UNCHANGED <<conn, asked, tree, reads>>
  PROVE  HttpInv'
<1>1. PICK c \in Clients : c = job.client
  BY DEF HttpInv, JobOk
<1>2. None \notin Clients
  BY PeersAssumption
<1>3. job' \in Jobs /\ job'.client = None
  BY DEF H!NoJob, Jobs
<1>4. Append(out[c], a) \in Seq(Answers) /\ Len(Append(out[c], a)) = Len(out[c]) + 1
  BY DEF HttpInv, HttpTypes
<1>5. out' \in [Clients -> Seq(Answers)] /\ Len(out'[c]) = Len(out[c]) + 1
  BY <1>1, <1>4 DEF HttpInv, HttpTypes
<1>6. HttpTypes'
  BY <1>3, <1>5 DEF HttpInv, HttpTypes
<1>7. JobOk'
  BY <1>3 DEF JobOk, Handling
<1>8. ASSUME NEW d \in Clients
      PROVE  Answered(d)'
  <2>1. Answered(d)
    BY DEF HttpInv
  <2>2. CASE d = c
    <3>1. PICK k \in Nat : k = Len(conn[c].echoed)
      BY DEF HttpInv, HttpTypes, Connection
    <3>2. PICK l \in Nat : l = Len(out[c])
      BY DEF HttpInv, HttpTypes
    <3>3. (k + l) + 1 = k + (l + 1)
      BY ONLY k \in Nat, l \in Nat
    <3>4. job'.client # d
      BY <1>2, <1>3
    <3>5. conn[c].stage # "closed" => reads[c] = Len(conn[c].echoed) + Len(out[c]) + 1
      BY <1>1, <2>1, <2>2 DEF Answered
    <3>6. conn[c].stage # "closed" => reads[c] = Len(conn[c].echoed) + Len(out'[c])
      BY <1>5, <3>1, <3>2, <3>3, <3>5, Zenon
    <3>. QED
      BY <2>2, <3>4, <3>6 DEF Answered
  <2>3. CASE d # c
    <3>1. out'[d] = out[d]
      BY <1>1, <2>3 DEF HttpInv, HttpTypes
    <3>2. job.client # d /\ job'.client # d
      BY <1>1, <1>2, <1>3, <2>3
    <3>. QED
      BY <2>1, <3>1, <3>2 DEF Answered
  <2>. QED
    BY <2>2, <2>3
<1>. QED
  BY <1>6, <1>7, <1>8 DEF HttpInv

(* main_handler goes on, or ends the server.                               *)
LEMMA HttpGoesOn ==
  ASSUME HttpInv, H!Finds \/ H!Stats \/ H!Exits \/ H!Scans \/ H!StatsEntry
  PROVE  HttpInv'
<1>1. /\ UNCHANGED <<conn, asked, tree, reads, out>> /\ pc \in Handling
      /\ pc' \in {"stat", "open", "entries", "exited"}
  BY DEF H!Finds, H!Stats, H!Exits, H!Scans, H!StatsEntry, H!Handles, H!GoesOn, Handling
<1>2. /\ job' \in Jobs /\ job'.client = job.client /\ job'.path = job.path /\ job'.seen = job.seen
      /\ pc' = "entries" => "dir" \in job.seen
  <2>0. job \in Jobs
    BY DEF HttpInv, HttpTypes
  <2>1. CASE H!Finds \/ H!Exits
    BY <2>0, <2>1 DEF H!Finds, H!Exits, H!GoesOn
  <2>2. CASE H!Stats
    <3>1. job' = [job EXCEPT !.type = H!At(job.path)] /\ H!At(job.path) \in {"file", "dir"} /\ pc' = "open"
      BY <2>2 DEF H!Stats, H!GoesOn
    <3>. QED
      BY <2>0, <3>1 DEF Jobs, H!Kinds
  <2>3. CASE H!Scans
    <3>1. PICK entries \in SUBSET Paths : job' = [job EXCEPT !.entries = entries]
      BY <2>3 DEF H!Scans
    <3>2. H!At(job.path) = "dir" /\ H!At(job.path) \in job.seen
      BY <1>1, <2>3 DEF H!Scans, HttpInv, JobOk
    <3>. QED
      BY <2>0, <3>1, <3>2 DEF Jobs
  <2>4. CASE H!StatsEntry
    <3>1. PICK p \in job.entries : job' = [job EXCEPT !.entries = job.entries \ {p}]
      BY <2>4 DEF H!StatsEntry
    <3>2. pc = "entries" /\ "dir" \in job.seen
      BY <2>4 DEF H!StatsEntry, H!Handles, HttpInv, JobOk
    <3>. QED
      BY <2>0, <3>1, <3>2 DEF Jobs
  <2>. QED
    BY <2>1, <2>2, <2>3, <2>4
<1>3. HttpTypes'
  BY <1>1, <1>2 DEF HttpInv, HttpTypes, Handling
<1>4. JobOk'
  BY <1>1, <1>2 DEF HttpInv, JobOk, Handling, H!At
<1>5. \A d \in Clients : Answered(d)'
  BY <1>1, <1>2 DEF HttpInv, Answered
<1>. QED
  BY <1>3, <1>4, <1>5 DEF HttpInv

(* Each of the three handlers appends one honest answer for the client of  *)
(* the job.                                                                *)
LEMMA HttpAnswers ==
  ASSUME HttpInv, H!handler_404 \/ H!send_regular_file \/ H!send_dir
  PROVE  \E a \in Answers :
           /\ out' = [out EXCEPT ![job.client] = Append(out[job.client], a)]
           /\ job' = H!NoJob /\ pc' = "loop" /\ pc \in Handling
           /\ UNCHANGED <<conn, asked, tree, reads>>
           /\ H!Honest(a, job.seen)
<1>0. pc \in Handling => H!At(job.path) \in job.seen
  BY DEF HttpInv, JobOk
<1>1. CASE H!handler_404
  <2>1. PICK a : a = [type |-> "html", body |-> "404"]
    OBVIOUS
  <2>2. a \in Answers /\ a.body = "404"
    BY <2>1 DEF Answers
  <2>3. job.seen \cap {"none", "dangling"} # {}
    BY <1>0, <1>1 DEF H!handler_404, H!Handles, Handling
  <2>4. H!Honest(a, job.seen)
    BY <2>2, <2>3 DEF H!Honest
  <2>. QED
    BY <1>1, <2>1, <2>2, <2>4 DEF H!handler_404, H!Handles, Handling, H!Replies, H!Adds
<1>2. CASE H!send_regular_file
  <2>1. PICK a : a = [type |-> "file", body |-> "file"]
    OBVIOUS
  <2>2. a \in Answers /\ a.body = "file" /\ a.type = "file"
    BY <2>1 DEF Answers
  <2>3. "file" \in job.seen
    BY <1>0, <1>2 DEF H!send_regular_file, H!Handles, Handling
  <2>4. H!Honest(a, job.seen)
    BY <2>2, <2>3 DEF H!Honest
  <2>. QED
    BY <1>2, <2>1, <2>2, <2>4 DEF H!send_regular_file, H!Handles, Handling, H!Replies, H!Adds
<1>3. CASE H!send_dir
  <2>1. PICK a : a = [type |-> "html", body |-> "dir"]
    OBVIOUS
  <2>2. a \in Answers /\ a.body = "dir" /\ a.type = "html"
    BY <2>1 DEF Answers
  <2>3. "dir" \in job.seen
    BY <1>3 DEF H!send_dir, H!Handles, HttpInv, JobOk
  <2>4. H!Honest(a, job.seen)
    BY <2>2, <2>3 DEF H!Honest
  <2>. QED
    BY <1>3, <2>1, <2>2, <2>4 DEF H!send_dir, H!Handles, Handling, H!Replies, H!Adds
<1>. QED
  BY <1>1, <1>2, <1>3

(* libevent's events: a new connection, a write, an end, an error.         *)
LEMMA HttpConnects ==
  ASSUME HttpInv, NEW c \in Clients, H!connect_call_back(c)
  PROVE  HttpInv'
<1>1. /\ conn' = [conn EXCEPT ![c].stage = "open"] /\ conn[c].stage = "pending"
      /\ UNCHANGED <<asked, tree, job, out, reads, pc>>
  BY DEF H!connect_call_back, H!Pending
<1>2. PICK r : r = [conn[c] EXCEPT !.stage = "open"]
  OBVIOUS
<1>3. conn[c] \in Connection(Answers)
  BY DEF HttpInv, HttpTypes
<1>4. r \in Connection(Answers) /\ r.echoed = conn[c].echoed
  BY <1>2, <1>3 DEF Connection
<1>5. conn' = [conn EXCEPT ![c] = r]
  BY <1>1, <1>2
<1>6. HttpTypes'
  BY <1>1, <1>4, <1>5 DEF HttpInv, HttpTypes
<1>7. JobOk'
  BY <1>1 DEF HttpInv, JobOk, H!At
<1>8. \A d \in Clients : Answered(d)'
  BY <1>1, <1>4, <1>5 DEF HttpInv, HttpTypes, Answered
<1>. QED
  BY <1>6, <1>7, <1>8 DEF HttpInv

(* Freeing a connection drops its answers and no others.                   *)
LEMMA HttpFrees ==
  ASSUME HttpInv, NEW c \in Clients, NEW written \in Seq(Answers), H!Frees(c, written),
         UNCHANGED <<asked, tree, job, reads, pc>>
  PROVE  HttpInv'
<1>1. conn' = [conn EXCEPT ![c].stage = "closed", ![c].unread = <<>>,
                           ![c].echoed = conn[c].echoed \o written]
      /\ out' = [out EXCEPT ![c] = <<>>]
  BY DEF H!Frees
<1>2. PICK r : r = [[[conn[c] EXCEPT !.stage = "closed"] EXCEPT !.unread = <<>>]
                     EXCEPT !.echoed = conn[c].echoed \o written]
  OBVIOUS
<1>3. conn[c] \in Connection(Answers)
  BY DEF HttpInv, HttpTypes
<1>4. conn[c].echoed \o written \in Seq(Answers) /\ <<>> \in Seq(Clients \X Nat) /\ <<>> \in Seq(Answers)
  BY <1>3 DEF Connection
<1>5. r \in Connection(Answers) /\ r.stage = "closed"
  BY <1>2, <1>3, <1>4 DEF Connection
<1>6. conn' = [conn EXCEPT ![c] = r]
  <2>1. PICK f : f = [conn EXCEPT ![c].stage = "closed", ![c].unread = <<>>]
    OBVIOUS
  <2>2. DOMAIN f = Clients /\ f[c] = [[conn[c] EXCEPT !.stage = "closed"] EXCEPT !.unread = <<>>]
        /\ [f EXCEPT ![c] = r] = [conn EXCEPT ![c] = r]
    BY <2>1 DEF HttpInv, HttpTypes
  <2>3. conn' = [f EXCEPT ![c].echoed = conn[c].echoed \o written]
    BY <1>1, <2>1, Zenon
  <2>4. conn' = [f EXCEPT ![c] = r]
    BY <1>2, <2>2, <2>3
  <2>. QED
    BY <2>2, <2>4
<1>7. conn' \in [Clients -> Connection(Answers)] /\ out' \in [Clients -> Seq(Answers)]
  <2>1. conn' \in [Clients -> Connection(Answers)]
    BY <1>5, <1>6 DEF HttpInv, HttpTypes
  <2>2. out' \in [Clients -> Seq(Answers)]
    BY <1>1, <1>4 DEF HttpInv, HttpTypes
  <2>. QED
    BY <2>1, <2>2
<1>8. HttpTypes'
  BY <1>7 DEF HttpInv, HttpTypes
<1>9. JobOk'
  BY DEF HttpInv, JobOk, H!At
<1>10. ASSUME NEW d \in Clients
       PROVE  Answered(d)'
  <2>1. CASE d = c
    BY <1>5, <1>6, <2>1 DEF HttpInv, HttpTypes, Answered
  <2>2. CASE d # c
    <3>1. conn'[d] = conn[d] /\ out'[d] = out[d]
      BY <1>1, <1>6, <2>2 DEF HttpInv, HttpTypes
    <3>. QED
      BY <3>1 DEF HttpInv, Answered
  <2>. QED
    BY <2>1, <2>2
<1>. QED
  BY <1>8, <1>9, <1>10 DEF HttpInv

(* Writing to one client shortens its own answers only.                    *)
LEMMA HttpWritesSome ==
  ASSUME HttpInv, NEW c \in Clients, H!WritesSome(c)
  PROVE  HttpInv' /\ Len(out'[c]) =< Len(out[c]) /\ \A d \in Clients \ {c} : out'[d] = out[d]
<1>1. /\ pc = "loop" /\ Len(out[c]) > 1 /\ pc' = pc /\ UNCHANGED <<asked, tree, job, reads>>
      /\ conn' = [conn EXCEPT ![c].echoed = Append(conn[c].echoed, Head(out[c]))]
      /\ out' = [out EXCEPT ![c] = Tail(out[c])]
  BY DEF H!WritesSome, H!Event
<1>2. conn[c] \in Connection(Answers) /\ out[c] \in Seq(Answers)
  BY DEF HttpInv, HttpTypes
<1>3. PICK s \in Seq(Answers) : s = out[c]
  BY <1>2
<1>4. PICK e \in Seq(Answers) : e = conn[c].echoed
  BY <1>2 DEF Connection
<1>5. Len(s) > 1 /\ s # <<>>
  BY <1>1, <1>3
<1>6. /\ Tail(s) \in Seq(Answers) /\ Len(Tail(s)) = Len(s) - 1
      /\ Append(e, Head(s)) \in Seq(Answers) /\ Len(Append(e, Head(s))) = Len(e) + 1
      /\ Len(s) \in Nat /\ Len(e) \in Nat
  BY <1>5
<1>7. PICK r : r = [conn[c] EXCEPT !.echoed = Append(e, Head(s))]
  OBVIOUS
<1>8. r \in Connection(Answers) /\ r.echoed = Append(e, Head(s)) /\ r.stage = conn[c].stage
  BY <1>2, <1>6, <1>7 DEF Connection
<1>9. conn' = [conn EXCEPT ![c] = r]
  BY <1>1, <1>3, <1>4, <1>7
<1>10. conn' \in [Clients -> Connection(Answers)] /\ conn'[c] = r
  BY <1>8, <1>9 DEF HttpInv, HttpTypes
<1>11. out' \in [Clients -> Seq(Answers)] /\ out'[c] = Tail(s)
  BY <1>1, <1>3, <1>6 DEF HttpInv, HttpTypes
<1>12. HttpTypes'
  BY <1>1, <1>10, <1>11 DEF HttpInv, HttpTypes
<1>13. JobOk'
  BY <1>1 DEF HttpInv, JobOk, H!At
<1>14. ASSUME NEW d \in Clients
       PROVE  Answered(d)' /\ (d # c => out'[d] = out[d])
  <2>1. CASE d = c
    <3>1. job.client # c /\ job'.client # c /\ Answered(c)
      BY <1>1, PeersAssumption DEF HttpInv, JobOk
    <3>2. PICK k \in Nat : k = Len(e)
      BY <1>6
    <3>3. PICK l \in Nat : l = Len(s)
      BY <1>6
    <3>4. k + l = (k + 1) + (l - 1)
      BY ONLY k \in Nat, l \in Nat
    <3>5. Len(conn'[c].echoed) = k + 1 /\ Len(out'[c]) = l - 1
      BY <1>6, <1>8, <1>10, <1>11, <3>2, <3>3
    <3>6. conn[c].stage # "closed" => reads[c] = k + l
      BY <1>3, <1>4, <3>1, <3>2, <3>3 DEF Answered
    <3>7. conn'[c].stage # "closed" => reads'[c] = Len(conn'[c].echoed) + Len(out'[c])
      BY <1>1, <1>8, <1>10, <3>4, <3>5, <3>6
    <3>. QED
      BY <2>1, <3>1, <3>7 DEF Answered
  <2>2. CASE d # c
    <3>1. conn'[d] = conn[d] /\ out'[d] = out[d]
      BY <1>1, <1>9, <2>2 DEF HttpInv, HttpTypes
    <3>. QED
      BY <1>1, <3>1 DEF HttpInv, Answered
  <2>. QED
    BY <2>1, <2>2
<1>15. Len(out'[c]) =< Len(out[c])
  BY <1>3, <1>6, <1>11
<1>. QED
  BY <1>12, <1>13, <1>14, <1>15 DEF HttpInv

(* The clients, the files and SIGINT.                                      *)
LEMMA HttpEnvironment ==
  ASSUME HttpInv, H!Environment
  PROVE  HttpInv' /\ out' = out
<1>1. CASE H!sigint
  <2>1. UNCHANGED <<conn, asked, tree, job, out, reads, pc>>
    BY <1>1 DEF H!sigint
  <2>2. HttpTypes' /\ JobOk' /\ \A c \in Clients : Answered(c)'
    BY <2>1 DEF HttpInv, HttpTypes, JobOk, H!At, Answered
  <2>. QED
    BY <2>1, <2>2 DEF HttpInv
<1>2. CASE H!Changes
  <2>1. PICK p \in Paths, k \in H!Kinds : tree' = [tree EXCEPT ![p] = k]
    BY <1>2 DEF H!Changes
  <2>2. /\ job' = IF job.path \in Paths THEN [job EXCEPT !.seen = job.seen \union {tree'[job.path]}]
                                        ELSE job
        /\ UNCHANGED <<conn, asked, out, reads, pc>>
    BY <1>2 DEF H!Changes
  <2>3. tree' \in [Paths -> H!Kinds] /\ job \in Jobs
    BY <2>1 DEF HttpInv, HttpTypes
  <2>4. /\ job' \in Jobs /\ job'.client = job.client /\ job'.path = job.path
        /\ job.seen \subseteq job'.seen
        /\ job.path \in Paths => tree'[job.path] \in job'.seen
    <3>1. CASE job.path \in Paths
      <4>1. PICK seen \in SUBSET H!Kinds : seen = job.seen \union {tree'[job.path]}
        BY <2>3, <3>1 DEF Jobs
      <4>2. job' = [job EXCEPT !.seen = seen]
        BY <2>2, <3>1, <4>1
      <4>. QED
        BY <2>3, <4>1, <4>2 DEF Jobs
    <3>2. CASE job.path \notin Paths
      BY <2>2, <2>3, <3>2
    <3>. QED
      BY <3>1, <3>2
  <2>5. HttpTypes'
    BY <2>2, <2>3, <2>4 DEF HttpInv, HttpTypes
  <2>6. pc \in Handling => H!At(job.path)' \in job'.seen
    BY <2>4 DEF HttpInv, JobOk, H!At
  <2>7. JobOk'
    BY <2>2, <2>4, <2>6 DEF HttpInv, JobOk
  <2>8. \A c \in Clients : Answered(c)'
    BY <2>2, <2>4 DEF HttpInv, Answered
  <2>. QED
    BY <2>2, <2>5, <2>7, <2>8 DEF HttpInv
<1>3. ASSUME NEW c \in Clients, Connects(c) \/ Arrives(c), UNCHANGED <<tree, job, out, reads, pc>>,
             asked' \in [Clients -> Paths \union {H!Root, None}]
      PROVE  HttpInv'
  <2>1. conn \in [Clients -> Connection(Answers)]
    BY DEF HttpInv, HttpTypes
  <2>2. PICK r \in Connection(Answers) :
          /\ conn' = [conn EXCEPT ![c] = r]
          /\ r.echoed = conn[c].echoed
          /\ \/ Arrives(c) /\ r.stage = conn[c].stage /\ r.stage \in {"pending", "open"}
             \/ conn[c].stage = "none" /\ r.stage = "pending"
    BY <1>3, <2>1, ArrivesTyped
  <2>3. conn[c].stage # "closed" /\ r.stage # "closed"
    BY <2>2
  <2>4. HttpTypes'
    BY <1>3, <2>2 DEF HttpInv, HttpTypes
  <2>5. JobOk'
    BY <1>3 DEF HttpInv, JobOk, H!At
  <2>6. \A d \in Clients : Answered(d)'
    BY <1>3, <2>1, <2>2, <2>3 DEF HttpInv, Answered
  <2>. QED
    BY <2>4, <2>5, <2>6 DEF HttpInv
<1>4. \A c \in Clients : (H!Connects(c) => Connects(c)) /\ (H!Arrives(c) => Arrives(c))
  BY DEF H!Connects, H!Arrives, H!Sends, H!ShutsDown, H!Resets, H!Alive, H!Open,
         Connects, Arrives, Sends, ShutsDown, Resets, Alive, Open
<1>5. ASSUME NEW c \in Clients, H!Arrives(c), UNCHANGED <<asked, tree, job, out, reads, pc>>
      PROVE  HttpInv'
  <2>1. asked' \in [Clients -> Paths \union {H!Root, None}]
    BY <1>5 DEF HttpInv, HttpTypes
  <2>. QED
    BY <1>3, <1>4, <1>5, <2>1
<1>6. ASSUME NEW c \in Clients, H!Connects(c), UNCHANGED <<tree, job, out, reads, pc>>,
             NEW path \in Paths \union {H!Root}, asked' = [asked EXCEPT ![c] = path]
      PROVE  HttpInv'
  <2>1. asked' \in [Clients -> Paths \union {H!Root, None}]
    BY <1>6 DEF HttpInv, HttpTypes
  <2>. QED
    BY <1>3, <1>4, <1>6, <2>1
<1>. QED
  BY <1>1, <1>2, <1>5, <1>6 DEF H!Environment

(* The answer that a step adds, if it adds one.                            *)
HonestStep ==
  \A c \in Clients : Len(out'[c]) > Len(out[c]) => H!Honest(Last(out'[c]), job.seen)

(* A step that adds no answer is an honest one.                            *)
LEMMA NothingAdded ==
  ASSUME HttpInv, \A c \in Clients : out'[c] = out[c] \/ out'[c] = <<>>
  PROVE  HonestStep
<1>1. ASSUME NEW c \in Clients
      PROVE  ~ (Len(out'[c]) > Len(out[c]))
  <2>1. PICK l \in Nat : l = Len(out[c])
    BY DEF HttpInv, HttpTypes
  <2>2. Len(<<>>) = 0
    OBVIOUS
  <2>. QED
    BY <2>1, <2>2
<1>. QED
  BY <1>1 DEF HonestStep

(* A step that adds one honest answer is an honest one.                    *)
LEMMA OneAdded ==
  ASSUME HttpInv, NEW c \in Clients, NEW a \in Answers, H!Honest(a, job.seen),
         out' = [out EXCEPT ![c] = Append(out[c], a)]
  PROVE  HonestStep
<1>1. ASSUME NEW d \in Clients, Len(out'[d]) > Len(out[d])
      PROVE  H!Honest(Last(out'[d]), job.seen)
  <2>1. PICK l \in Nat : l = Len(out[d])
    BY DEF HttpInv, HttpTypes
  <2>2. d = c
    BY <1>1, <2>1 DEF HttpInv, HttpTypes
  <2>3. PICK s \in Seq(Answers) : s = out[c]
    BY DEF HttpInv, HttpTypes
  <2>4. out'[d] = Append(s, a)
    BY <2>2, <2>3 DEF HttpInv, HttpTypes
  <2>5. Last(Append(s, a)) = a
    BY DEF Last
  <2>. QED
    BY <2>4, <2>5
<1>. QED
  BY <1>1 DEF HonestStep

(* Every step of myhttpd keeps the invariant, and what it adds is honest.  *)
LEMMA HttpNext ==
  ASSUME HttpInv, H!Next
  PROVE  HttpInv' /\ HonestStep
<1>1. CASE H!handler_404 \/ H!send_regular_file \/ H!send_dir
  <2>1. PICK a \in Answers :
          /\ out' = [out EXCEPT ![job.client] = Append(out[job.client], a)]
          /\ job' = H!NoJob /\ pc' = "loop" /\ pc \in Handling
          /\ UNCHANGED <<conn, asked, tree, reads>>
          /\ H!Honest(a, job.seen)
    BY <1>1, HttpAnswers
  <2>2. job.client \in Clients
    BY <2>1 DEF HttpInv, JobOk
  <2>. QED
    BY <2>1, <2>2, HttpReplies, OneAdded
<1>2. CASE H!Finds \/ H!Stats \/ H!Exits \/ H!Scans \/ H!StatsEntry
  <2>1. out' = out
    BY <1>2 DEF H!Finds, H!Stats, H!Exits, H!Scans, H!StatsEntry, H!GoesOn
  <2>. QED
    BY <1>2, <2>1, HttpGoesOn, NothingAdded
<1>3. ASSUME NEW c \in Clients, H!connect_call_back(c)
      PROVE  HttpInv' /\ HonestStep
  <2>1. out' = out
    BY <1>3 DEF H!connect_call_back
  <2>. QED
    BY <1>3, <2>1, HttpConnects, NothingAdded
<1>4. ASSUME NEW c \in Clients, H!parse_request(c)
      PROVE  HttpInv' /\ HonestStep
  <2>1. out' = out
    BY <1>4 DEF H!parse_request
  <2>. QED
    BY <1>4, <2>1, HttpReads, NothingAdded
<1>5. ASSUME NEW c \in Clients, H!handler_invalid_request(c)
      PROVE  HttpInv' /\ HonestStep
  <2>1. PICK a : a = [type |-> "html", body |-> "invalid"]
    OBVIOUS
  <2>2. a \in Answers /\ H!Honest(a, job.seen)
    BY <2>1 DEF Answers, H!Honest
  <2>3. out' = [out EXCEPT ![c] = Append(out[c], a)]
    BY <1>5, <2>1 DEF H!handler_invalid_request, H!Adds
  <2>. QED
    BY <1>5, <2>2, <2>3, HttpReads, OneAdded
<1>6. ASSUME NEW c \in Clients, H!WritesSome(c)
      PROVE  HttpInv' /\ HonestStep
  <2>1. HttpInv' /\ Len(out'[c]) =< Len(out[c]) /\ \A d \in Clients \ {c} : out'[d] = out[d]
    BY <1>6, HttpWritesSome
  <2>2. ASSUME NEW d \in Clients
        PROVE  ~ (Len(out'[d]) > Len(out[d]))
    <3>1. PICK l \in Nat : l = Len(out[d])
      BY DEF HttpInv, HttpTypes
    <3>2. PICK m \in Nat : m = Len(out'[d])
      BY <2>1 DEF HttpInv, HttpTypes
    <3>3. m =< l
      BY <2>1, <3>1, <3>2
    <3>. QED
      BY <3>1, <3>2, <3>3
  <2>. QED
    BY <2>1, <2>2 DEF HonestStep
<1>7. ASSUME NEW c \in Clients, H!write_cb(c) \/ H!event_cb_eof(c)
      PROVE  HttpInv' /\ HonestStep
  <2>1. PICK written \in Seq(Answers) : H!Frees(c, written)
    <3>1. out[c] \in Seq(Answers) /\ <<>> \in Seq(Answers)
      BY DEF HttpInv, HttpTypes
    <3>. QED
      BY <1>7, <3>1 DEF H!write_cb, H!event_cb_eof
  <2>2. UNCHANGED <<asked, tree, job, reads, pc>>
    BY <1>7 DEF H!write_cb, H!event_cb_eof, H!Event
  <2>3. \A d \in Clients : out'[d] = out[d] \/ out'[d] = <<>>
    BY <2>1 DEF H!Frees, HttpInv, HttpTypes
  <2>. QED
    BY <2>1, <2>2, <2>3, HttpFrees, NothingAdded
<1>8. ASSUME H!LoopExits \/ \E c \in Clients : H!event_cb_error(c)
      PROVE  HttpInv' /\ HonestStep
  <2>1. UNCHANGED <<conn, asked, tree, job, out, reads>> /\ pc' = "exited"
    BY <1>8 DEF H!LoopExits, H!event_cb_error, H!Event
  <2>2. HttpTypes' /\ JobOk' /\ \A c \in Clients : Answered(c)'
    BY <2>1 DEF HttpInv, HttpTypes, JobOk, Handling, Answered
  <2>. QED
    BY <2>1, <2>2, NothingAdded DEF HttpInv
<1>9. CASE H!Environment
  BY <1>9, HttpEnvironment, NothingAdded
<1>. QED
  BY <1>1, <1>2, <1>3, <1>4, <1>5, <1>6, <1>7, <1>8, <1>9 DEF H!Next, H!Server, H!main_handler

(* Invariant and honesty hold throughout the runs of myhttpd.              *)
LEMMA HttpAlways ==
  /\ Spec => [](Runs({"myhttpd"}) => HttpInv)
  /\ Spec => [][Runs({"myhttpd"}) => HonestStep]_mcVars
<1>1. Init => (Runs({"myhttpd"}) => HttpInv)
  BY OnlyOneStarts, HttpInit
<1>2. ASSUME Runs({"myhttpd"}) => HttpInv, [Next]_mcVars
      PROVE  /\ (Runs({"myhttpd"}) => HttpInv)'
             /\ [Runs({"myhttpd"}) => HonestStep]_mcVars
  <2>1. program' = program
    BY <1>2, ProgramStays
  <2>2. CASE UNCHANGED mcVars
    <3>1. UNCHANGED <<conn, asked, tree, job, out, reads, pc>>
      BY <2>2 DEF mcVars, httpVars
    <3>2. HttpInv => HttpTypes' /\ JobOk' /\ \A c \in Clients : Answered(c)'
      BY <3>1 DEF HttpInv, HttpTypes, JobOk, H!At, Answered
    <3>. QED
      BY <1>2, <2>1, <2>2, <3>2 DEF HttpInv, Runs
  <2>3. CASE Next
    <3>1. CASE Runs({"myhttpd"})
      BY <1>2, <2>3, <3>1, OnlyOneRuns, HttpNext
    <3>2. CASE ~ Runs({"myhttpd"})
      BY <2>1, <3>2 DEF Runs
    <3>. QED
      BY <3>1, <3>2
  <2>. QED
    BY <1>2, <2>2, <2>3
<1>. QED
  BY <1>1, <1>2, PTL DEF Spec

(***************************************************************************)
(* myhttpd.c: each read of an open connection has one answer, which was    *)
(* sent, waits its turn or is being made, for any number of clients, paths *)
(* and blocks of a request.                                                *)
(***************************************************************************)
THEOREM EachReadAnswered == Spec => []OneAnswerPerRead
<1>1. (Runs({"myhttpd"}) => HttpInv) => OneAnswerPerRead
  <2>1. ASSUME HttpInv, NEW c \in Clients, conn[c].stage = "open"
        PROVE  reads[c] = Len(conn[c].echoed) + Len(out[c]) + (IF job.client = c THEN 1 ELSE 0)
    <3>1. Answered(c)
      BY <2>1 DEF HttpInv
    <3>2. PICK k \in Nat : k = Len(conn[c].echoed)
      BY <2>1 DEF HttpInv, HttpTypes, Connection
    <3>3. PICK l \in Nat : l = Len(out[c])
      BY <2>1 DEF HttpInv, HttpTypes
    <3>4. (k + l) + 0 = k + l
      BY ONLY k \in Nat, l \in Nat
    <3>5. reads[c] = IF job.client = c THEN (k + l) + 1 ELSE k + l
      BY <2>1, <3>1, <3>2, <3>3 DEF Answered
    <3>. QED
      BY <3>2, <3>3, <3>4, <3>5
  <2>. QED
    BY <2>1 DEF OneAnswerPerRead, H!OneAnswerPerRead, H!Open
<1>. QED
  BY <1>1, HttpAlways, PTL

(***************************************************************************)
(* An answer of myhttpd.c tells what was there while it was made, however  *)
(* the files change between the looks at them.                             *)
(***************************************************************************)
THEOREM AnswersAreTrue == Spec => HonestAnswers
BY HttpAlways DEF HonestAnswers, HonestStep

-----------------------------------------------------------------------------
(* Descriptors.                                                            *)
LEMMA MinIsLeast ==
  ASSUME NEW T \in SUBSET Nat, T # {}
  PROVE  Min(T) \in T /\ \A n \in T : Min(T) =< n
<1>1. PICK Less : Less = OpToRel(<, Nat)
  OBVIOUS
<1>2. Less = {p \in Nat \X Nat : p[1] < p[2]}
  BY <1>1 DEF OpToRel
<1>3. IsWellFoundedOn(Less, Nat)
  BY <1>1, NatLessThanWellFounded, Zenon
<1>4. PICK m \in T : \A n \in T : ~ (<<n, m>> \in Less)
  BY <1>3, WFMin
<1>5. \A n \in T : m =< n
  <2>1. ASSUME NEW n \in T
        PROVE  m =< n
    <3>1. m \in Nat /\ n \in Nat
      OBVIOUS
    <3>2. <<n, m>> \in Less <=> n < m
      BY <1>2, <3>1
    <3>3. ~ (n < m)
      BY <1>4, <3>2
    <3>. QED
      BY <3>1, <3>3
  <2>. QED
    BY <2>1
<1>. QED
  BY <1>5 DEF Min

(* There are as many descriptors as clients, finitely many.                *)
LEMMA FdsFinite ==
  IsFiniteSet(Fds) /\ Cardinality(Fds) = Cardinality(Clients) /\ Cardinality(Clients) \in Nat
<1>1. Cardinality(Clients) \in Nat
  BY PeersAssumption, FS_CardinalityType
<1>. QED
  BY <1>1, FS_Interval DEF Fds

(* Each open connection has one descriptor, and no descriptor outlives its *)
(* connection.                                                             *)
FdTable ==
  /\ fds \in [Fds -> Clients \union {None}]
  /\ \A f, g \in Fds : fds[f] = fds[g] /\ fds[f] # None => f = g
  /\ \A c \in Clients : conn[c].stage = "open" <=> \E f \in Fds : fds[f] = c

(* accept finds a descriptor: a client has none while it waits for it, and *)
(* there are as many as clients.                                           *)
LEMMA FreeFdFound ==
  ASSUME FdTable, NEW c \in Clients, conn[c].stage = "pending"
  PROVE  FreeFd \in Fds /\ fds[FreeFd] = None /\ \A f \in Fds : fds[f] = None => FreeFd =< f
<1>1. {f \in Fds : fds[f] = None} # {}
  <2>1. SUFFICES ASSUME \A f \in Fds : fds[f] # None
                 PROVE  FALSE
    OBVIOUS
  <2>2. fds \in [Fds -> Clients \ {c}]
    BY <2>1 DEF FdTable
  <2>3. IsFiniteSet(Clients \ {c}) /\ Cardinality(Clients \ {c}) = Cardinality(Clients) - 1
    BY PeersAssumption, FS_RemoveElement
  <2>4. Cardinality(Clients \ {c}) < Cardinality(Fds)
    BY <2>3, FdsFinite
  <2>5. PICK f, g \in Fds : f # g /\ fds[f] = fds[g]
    BY <2>2, <2>3, <2>4, FdsFinite, FS_PigeonHole
  <2>. QED
    BY <2>1, <2>5 DEF FdTable
<1>2. {f \in Fds : fds[f] = None} \in SUBSET Nat
  BY DEF Fds
<1>. QED
  BY <1>1, <1>2, MinIsLeast DEF FreeFd

(* An accept gives the client the lowest free descriptor and changes       *)
(* nothing else.                                                           *)
LEMMA AcceptsTyped ==
  ASSUME NEW Echo, conn \in [Clients -> Connection(Echo)], FdTable, NEW c \in Clients, Accepts(c)
  PROVE  /\ conn' \in [Clients -> Connection(Echo)] /\ FdTable'
         /\ conn[c].stage = "pending" /\ FreeFd \in Fds /\ fds[FreeFd] = None
         /\ fds' = [fds EXCEPT ![FreeFd] = c]
         /\ \A d \in Clients \ {c} : conn'[d] = conn[d]
<1>1. /\ conn[c].stage = "pending" /\ conn' = [conn EXCEPT ![c].stage = "open"]
      /\ fds' = [fds EXCEPT ![FreeFd] = c]
  BY DEF Accepts, Pending
<1>2. FreeFd \in Fds /\ fds[FreeFd] = None
  BY <1>1, FreeFdFound
<1>3. PICK r \in Connection(Echo) : r.stage = "open" /\ conn' = [conn EXCEPT ![c] = r]
  <2>1. \E r \in Connection(Echo) :
          r.stage = "open"
          /\ [conn EXCEPT ![c].stage = "open"] = [conn EXCEPT ![c] = r]
    BY StageTyped
  <2>. QED
    BY <1>1, <2>1
<1>4. conn' \in [Clients -> Connection(Echo)] /\ conn'[c].stage = "open"
      /\ \A d \in Clients \ {c} : conn'[d] = conn[d]
  BY <1>3
<1>5. c # None /\ \A f \in Fds : fds[f] # c
  BY <1>1, PeersAssumption DEF FdTable
<1>6. PICK fd \in Fds : fd = FreeFd
  BY <1>2
<1>7. fds' = [fds EXCEPT ![fd] = c] /\ fds[fd] = None /\ fds \in [Fds -> Clients \union {None}]
  BY <1>1, <1>2, <1>6 DEF FdTable
<1>8. fds' \in [Fds -> Clients \union {None}]
      /\ fds'[fd] = c /\ \A f \in Fds \ {fd} : fds'[f] = fds[f]
  BY <1>7
<1>9. \A f, g \in Fds : fds'[f] = fds'[g] /\ fds'[f] # None => f = g
  BY <1>5, <1>8 DEF FdTable
<1>10. \A d \in Clients : conn'[d].stage = "open" <=> \E f \in Fds : fds'[f] = d
  <2>1. ASSUME NEW d \in Clients \ {c}
        PROVE  conn'[d].stage = "open" <=> \E f \in Fds : fds'[f] = d
    <3>1. (\E f \in Fds : fds'[f] = d) <=> (\E f \in Fds : fds[f] = d)
      BY <1>7, <1>8, PeersAssumption
    <3>. QED
      BY <1>4, <3>1 DEF FdTable
  <2>. QED
    BY <1>4, <1>8, <2>1
<1>11. FdTable'
  BY <1>8, <1>9, <1>10 DEF FdTable, Fds
<1>. QED
  BY <1>1, <1>2, <1>4, <1>11

(* A refusal ends the connection of one client and takes no descriptor.    *)
LEMMA RefusesTyped ==
  ASSUME NEW Echo, conn \in [Clients -> Connection(Echo)], FdTable, NEW c \in Clients, Refuses(c)
  PROVE  /\ conn' \in [Clients -> Connection(Echo)] /\ FdTable' /\ fds' = fds
         /\ conn[c].stage = "pending" /\ conn'[c].stage = "closed"
         /\ \A d \in Clients \ {c} : conn'[d] = conn[d]
<1>1. /\ conn[c].stage = "pending" /\ fds' = fds
      /\ conn' = [conn EXCEPT ![c].stage = "closed", ![c].unread = <<>>]
  BY DEF Refuses, Pending
<1>2. PICK r \in Connection(Echo) : r.stage = "closed" /\ conn' = [conn EXCEPT ![c] = r]
  <2>1. \E r \in Connection(Echo) :
          r.stage = "closed"
          /\ [conn EXCEPT ![c].stage = "closed", ![c].unread = <<>>] = [conn EXCEPT ![c] = r]
    BY StageTyped
  <2>. QED
    BY <1>1, <2>1
<1>3. FdTable'
  BY <1>1, <1>2 DEF FdTable, Fds
<1>. QED
  BY <1>1, <1>2, <1>3

(* Closing a set of descriptors frees them and ends their connections, no  *)
(* others.                                                                 *)
LEMMA ClosesTyped ==
  ASSUME NEW Echo, conn \in [Clients -> Connection(Echo)], FdTable, NEW C \in SUBSET Fds, CloseFds(C)
  PROVE  /\ conn' \in [Clients -> Connection(Echo)] /\ FdTable'
         /\ \A f \in Fds : fds'[f] = IF f \in C THEN None ELSE fds[f]
         /\ \A c \in Clients : (\A f \in C : fds[f] # c) => conn'[c] = conn[c]
         /\ \A c \in Clients : (\E f \in C : fds[f] = c) => conn'[c].stage = "closed"
         /\ \A c \in Clients : conn'[c].echoed = conn[c].echoed
<1>1. fds' = [f \in Fds |-> IF f \in C THEN None ELSE fds[f]]
  BY DEF CloseFds
<1>2. ASSUME NEW c \in Clients
      PROVE  /\ conn'[c] \in Connection(Echo) /\ conn'[c].echoed = conn[c].echoed
             /\ (\E f \in C : fds[f] = c) => conn'[c].stage = "closed"
             /\ (\A f \in C : fds[f] # c) => conn'[c] = conn[c]
  <2>1. PICK r : r = [[conn[c] EXCEPT !.stage = "closed"] EXCEPT !.unread = <<>>]
    OBVIOUS
  <2>2. conn'[c] = IF \E f \in C : fds[f] = c THEN r ELSE conn[c]
    BY <2>1 DEF CloseFds
  <2>3. conn[c] \in Connection(Echo) /\ <<>> \in Seq(Clients \X Nat)
    OBVIOUS
  <2>4. r \in Connection(Echo) /\ r.stage = "closed" /\ r.echoed = conn[c].echoed
    BY <2>1, <2>3 DEF Connection
  <2>. QED
    BY <2>2, <2>3, <2>4
<1>3. conn' \in [Clients -> Connection(Echo)]
  <2>1. PICK g : g = [c \in Clients |-> conn'[c]]
    OBVIOUS
  <2>2. conn' = g
    BY <2>1 DEF CloseFds
  <2>. QED
    BY <1>2, <2>1, <2>2
<1>4. FdTable'
  <2>1. fds' \in [Fds -> Clients \union {None}]
    BY <1>1 DEF FdTable
  <2>2. \A f, g \in Fds : fds'[f] = fds'[g] /\ fds'[f] # None => f = g
    BY <1>1 DEF FdTable
  <2>3. ASSUME NEW c \in Clients
        PROVE  conn'[c].stage = "open" <=> \E f \in Fds : fds'[f] = c
    <3>1. c # None
      BY PeersAssumption
    <3>2. CASE \E f \in C : fds[f] = c
      <4>1. ~ \E f \in Fds : fds'[f] = c
        BY <1>1, <3>1, <3>2 DEF FdTable
      <4>. QED
        BY <1>2, <3>2, <4>1
    <3>3. CASE \A f \in C : fds[f] # c
      <4>1. (\E f \in Fds : fds'[f] = c) <=> \E f \in Fds : fds[f] = c
        BY <1>1, <3>1, <3>3
      <4>. QED
        BY <1>2, <3>3, <4>1 DEF FdTable
    <3>. QED
      BY <3>2, <3>3
  <2>. QED
    BY <2>1, <2>2, <2>3 DEF FdTable, Fds
<1>. QED
  BY <1>1, <1>2, <1>3, <1>4

(* Nothing is opened or closed.                                            *)
LEMMA SameTable ==
  ASSUME FdTable, fds' = fds, \A c \in Clients : conn'[c].stage = "open" <=> conn[c].stage = "open"
  PROVE  FdTable'
BY DEF FdTable, Fds

-----------------------------------------------------------------------------
(* AioServer.                                                              *)
AioNode ==
  [status : BOOLEAN, fd : Fds \union {None}, phase : {"none", "read", "write", "failed"},
   buf : Seq(Clients \X Nat), told : BOOLEAN]

AioTypes ==
  /\ conn \in [Clients -> Connection(Clients \X Nat)]
  /\ FdTable
  /\ gNodeList \in [A!Nodes -> AioNode]
  /\ leaving \in [Clients -> [idx : A!Nodes \union {None}, at : {"no", "count", "close"}]]
  /\ actCnt \in Int
  /\ pc \in {"loop", "accept", "start", "ended", "exited", "undefined"}

Active == {i \in A!Nodes : gNodeList[i].phase # "none"}
Counting == {c \in Clients : leaving[c].at = "count"}

(* A node with a request that runs has the descriptor of a connection      *)
(* that nobody leaves, and no other node has it.                           *)
ActiveOk(i) ==
  gNodeList[i].phase # "none" =>
    /\ gNodeList[i].status
    /\ gNodeList[i].fd \in Fds
    /\ fds[gNodeList[i].fd] \in Clients
    /\ leaving[fds[gNodeList[i].fd]].at = "no"

Apart(i, j) ==
  gNodeList[i].phase # "none" /\ gNodeList[j].phase # "none" /\ gNodeList[i].fd = gNodeList[j].fd => i = j

(* Who leaves still has its descriptor, and knows its node.                *)
LeavingOk(c) ==
  leaving[c].at # "no" =>
    /\ \E f \in Fds : fds[f] = c
    /\ leaving[c].idx \in A!Nodes
    /\ gNodeList[leaving[c].idx].fd \in Fds

(* What main has taken for a new connection is nobody else's.              *)
TakenOk ==
  pc = "start" =>
    /\ taken.idx \in A!Nodes /\ taken.fd \in Fds
    /\ gNodeList[taken.idx].status /\ gNodeList[taken.idx].phase = "none"
    /\ fds[taken.fd] \in Clients /\ leaving[fds[taken.fd]].at = "no"
    /\ \A i \in A!Nodes : gNodeList[i].phase # "none" => gNodeList[i].fd # taken.fd

AioNodesOk ==
  /\ \A i \in A!Nodes : ActiveOk(i)
  /\ \A i, j \in A!Nodes : Apart(i, j)
  /\ \A c \in Clients : LeavingOk(c)
  /\ TakenOk
  /\ actCnt = Cardinality(Active) + Cardinality(Counting)

AioInv ==
  /\ AioTypes
  /\ A!Running => AioNodesOk
  /\ EndsIdle

(* The sets the server counts are finite.                                  *)
LEMMA AioFinite ==
  /\ IsFiniteSet(A!Nodes)
  /\ \A T \in SUBSET A!Nodes : IsFiniteSet(T) /\ Cardinality(T) \in Nat
  /\ \A T \in SUBSET Clients : IsFiniteSet(T) /\ Cardinality(T) \in Nat
<1>1. IsFiniteSet(A!Nodes)
  BY ServersAssumption, FS_Interval DEF A!Nodes
<1>. QED
  BY <1>1, PeersAssumption, FS_Subset, FS_CardinalityType

(* Both sides count the clients in the same way.                           *)
LEMMA AioFds == A!Fds = Fds
BY DEF A!Fds, Fds, A!Cardinality, Cardinality

(* No node is used and no client counted at the start.                     *)
LEMMA AioInit ==
  ASSUME A!Init, Runs({"aio_echo_server"})
  PROVE  AioInv
<1>1. conn = [c \in Clients |-> NoConn] /\ fds = [f \in Fds |-> None]
  BY AioFds DEF A!Init, A!InitPeers, A!NoConn, NoConn
<1>2. conn \in [Clients -> Connection(Clients \X Nat)]
  BY <1>1, NoConnTyped
<1>3. FdTable
  BY <1>1, PeersAssumption DEF FdTable, NoConn
<1>4. PICK n : n = [status |-> FALSE, fd |-> None, phase |-> "none", buf |-> <<>>, told |-> FALSE]
  OBVIOUS
<1>5. n \in AioNode /\ n.phase = "none"
  <2>1. <<>> \in Seq(Clients \X Nat)
    OBVIOUS
  <2>. QED
    BY <1>4, <2>1 DEF AioNode
<1>6. gNodeList = [i \in A!Nodes |-> n]
  BY <1>4 DEF A!Init
<1>7. leaving = [c \in Clients |-> A!NotLeaving] /\ actCnt = 0 /\ pc = "loop"
  BY DEF A!Init
<1>8. A!NotLeaving \in [idx : A!Nodes \union {None}, at : {"no", "count", "close"}] /\ A!NotLeaving.at = "no"
  BY DEF A!NotLeaving
<1>9. AioTypes
  <2>1. gNodeList \in [A!Nodes -> AioNode]
    BY <1>5, <1>6
  <2>2. leaving \in [Clients -> [idx : A!Nodes \union {None}, at : {"no", "count", "close"}]]
    BY <1>7, <1>8
  <2>. QED
    BY <1>2, <1>3, <1>7, <2>1, <2>2 DEF AioTypes
<1>10. Active = {} /\ Counting = {}
  BY <1>5, <1>6, <1>7, <1>8 DEF Active, Counting
<1>11. actCnt = Cardinality(Active) + Cardinality(Counting)
  BY <1>7, <1>10, FS_EmptySet
<1>12. /\ \A i \in A!Nodes : ActiveOk(i)
       /\ \A i, j \in A!Nodes : Apart(i, j)
       /\ \A c \in Clients : LeavingOk(c)
       /\ TakenOk
  BY <1>5, <1>6, <1>7, <1>8 DEF ActiveOk, Apart, LeavingOk, TakenOk
<1>. QED
  BY <1>7, <1>9, <1>11, <1>12 DEF AioInv, AioNodesOk, EndsIdle, A!EndsIdle

(* Main, but for accept and the start of a request.                        *)
LEMMA AioMain ==
  ASSUME AioInv, A!Checks \/ A!Turns \/ A!Ends \/ A!AcceptAlarm
  PROVE  AioInv'
<1>1. /\ UNCHANGED <<conn, fds, gNodeList, actCnt, leaving, taken>>
      /\ pc \in {"loop", "accept"} /\ pc' \in {"exited", "accept", "ended", "loop"}
      /\ pc' = "ended" => actCnt = 0
  BY DEF A!Checks, A!Turns, A!Ends, A!AcceptAlarm, A!MainGoes, A!aioVars
<1>2. AioNodesOk
  BY <1>1 DEF AioInv, A!Running
<1>3. FdTable'
  BY <1>1 DEF AioInv, AioTypes, FdTable, Fds
<1>4. AioTypes'
  BY <1>1, <1>3 DEF AioInv, AioTypes, A!Nodes, AioNode, Fds
<1>5. AioNodesOk'
  <2>1. Active' = Active /\ Counting' = Counting
    BY <1>1 DEF Active, Counting, A!Nodes
  <2>. QED
    BY <1>1, <1>2, <2>1 DEF AioNodesOk, ActiveOk, Apart, LeavingOk, TakenOk, A!Nodes, Fds
<1>6. actCnt = 0 => Active = {}
  <2>1. PICK m \in Nat : m = Cardinality(Active)
    BY AioFinite DEF Active
  <2>2. PICK n \in Nat : n = Cardinality(Counting)
    BY AioFinite DEF Counting
  <2>3. actCnt = 0 => Cardinality(Active) = 0
    BY <1>2, <2>1, <2>2 DEF AioNodesOk
  <2>. QED
    BY <2>3, AioFinite, FS_EmptySet DEF Active
<1>7. EndsIdle'
  BY <1>1, <1>6 DEF EndsIdle, A!EndsIdle, Active, Runs, A!Nodes
<1>. QED
  BY <1>4, <1>5, <1>7 DEF AioInv

(* The same operators, by both names.                                      *)
LEMMA AioPeers ==
  /\ A!FreeFd = FreeFd
  /\ \A T : A!Min(T) = Min(T)
  /\ \A c \in Clients : /\ A!Accepts(c) => Accepts(c)
                        /\ A!Refuses(c) => Refuses(c)
                        /\ A!Connects(c) => Connects(c)
                        /\ A!Arrives(c) => Arrives(c)
  /\ \A T : A!CloseFds(T) => CloseFds(T)
<1>1. \A T : A!Min(T) = Min(T)
  BY DEF A!Min, Min
<1>2. A!FreeFd = FreeFd
  BY <1>1, AioFds DEF A!FreeFd, FreeFd
<1>3. A!Pending = Pending
  BY DEF A!Pending, Pending
<1>4. ASSUME NEW c \in Clients
      PROVE  /\ A!Accepts(c) => Accepts(c)
             /\ A!Refuses(c) => Refuses(c)
  BY <1>2, <1>3 DEF A!Accepts, Accepts, A!Refuses, Refuses
<1>5. ASSUME NEW c \in Clients
      PROVE  /\ A!Connects(c) => Connects(c)
             /\ A!Arrives(c) => Arrives(c)
  BY DEF A!Connects, A!Arrives, A!Sends, A!ShutsDown, A!Resets, A!Alive, A!Open,
         Connects, Arrives, Sends, ShutsDown, Resets, Alive, Open
<1>6. ASSUME NEW T
      PROVE  A!CloseFds(T) => CloseFds(T)
  BY AioFds DEF A!CloseFds, CloseFds
<1>. QED
  BY <1>1, <1>2, <1>4, <1>5, <1>6

(* The types after a step, from those of the variables it changed.         *)
LEMMA AioTypesNext ==
  ASSUME conn' \in [Clients -> Connection(Clients \X Nat)], FdTable',
         gNodeList' \in [A!Nodes -> AioNode],
         leaving' \in [Clients -> [idx : A!Nodes \union {None}, at : {"no", "count", "close"}]],
         actCnt' \in Int, pc' \in {"loop", "accept", "start", "ended", "exited", "undefined"}
  PROVE  AioTypes'
<1>1. A!Nodes' = A!Nodes /\ AioNode' = AioNode
  BY DEF A!Nodes, AioNode, Fds
<1>2. Connection(Clients \X Nat)' = Connection(Clients \X Nat)
  BY DEF Connection
<1>. QED
  BY <1>1, <1>2 DEF AioTypes

(* A step that leaves the nodes alone, and opens and closes nothing.       *)
LEMMA AioSame ==
  ASSUME AioInv, AioTypes', UNCHANGED <<fds, gNodeList, actCnt, leaving>>,
         pc' \in {"exited", "undefined"} \/ (pc' = pc /\ taken' = taken) \/ (pc' = "loop" /\ A!Running),
         Runs({"aio_echo_server"})
  PROVE  AioInv'
<1>1. ASSUME A!Running'
      PROVE  AioNodesOk'
  <2>1. AioNodesOk
    BY <1>1 DEF AioInv, A!Running
  <2>2. Active' = Active /\ Counting' = Counting
    BY DEF Active, Counting, A!Nodes
  <2>. QED
    BY <1>1, <2>1, <2>2 DEF A!Running, AioNodesOk, ActiveOk, Apart, LeavingOk, TakenOk, A!Nodes, Fds
<1>2. EndsIdle'
  BY DEF AioInv, EndsIdle, A!EndsIdle, A!Running, Runs, A!Nodes
<1>. QED
  BY <1>1, <1>2 DEF AioInv

(* A connection for which there is no node is closed at once.              *)
LEMMA AioAcceptsFull ==
  ASSUME AioInv, NEW c \in Clients, A!AcceptsFull(c), Runs({"aio_echo_server"})
  PROVE  AioInv'
<1>1. /\ UNCHANGED <<gNodeList, actCnt, leaving>> /\ pc = "accept" /\ pc' = "loop" /\ Refuses(c)
  BY AioPeers DEF A!AcceptsFull, A!MainGoes, A!aioVars
<1>2. conn \in [Clients -> Connection(Clients \X Nat)] /\ FdTable
  BY DEF AioInv, AioTypes
<1>3. conn' \in [Clients -> Connection(Clients \X Nat)] /\ FdTable' /\ fds' = fds
  BY <1>1, <1>2, RefusesTyped
<1>4. AioTypes'
  BY <1>1, <1>3 DEF AioInv, AioTypes, A!Nodes, AioNode, Fds
<1>. QED
  BY <1>1, <1>3, <1>4, AioSame DEF A!Running

(* A connection takes a free node and is counted.                          *)
LEMMA AioAcceptsOne ==
  ASSUME AioInv, NEW c \in Clients, A!AcceptsOne(c), Runs({"aio_echo_server"})
  PROVE  AioInv'
<1>1. /\ UNCHANGED <<actCnt, leaving>> /\ pc = "accept" /\ pc' = "start" /\ Accepts(c)
      /\ taken' = [idx |-> Min(A!GetUnusedNode), fd |-> FreeFd]
      /\ A!GetUnusedNode # {}
      /\ gNodeList' = [gNodeList EXCEPT ![taken'.idx].status = TRUE]
  BY AioPeers DEF A!AcceptsOne, A!MainGoes
<1>2. conn \in [Clients -> Connection(Clients \X Nat)] /\ FdTable /\ AioTypes /\ AioNodesOk
  BY <1>1 DEF AioInv, AioTypes, A!Running
<1>3. /\ conn' \in [Clients -> Connection(Clients \X Nat)] /\ FdTable'
      /\ conn[c].stage = "pending" /\ FreeFd \in Fds /\ fds[FreeFd] = None
      /\ fds' = [fds EXCEPT ![FreeFd] = c]
  BY <1>1, <1>2, AcceptsTyped
<1>4. PICK idx : idx = Min(A!GetUnusedNode)
  OBVIOUS
<1>5. idx \in A!Nodes /\ ~ gNodeList[idx].status
  <2>1. A!GetUnusedNode \in SUBSET Nat
    BY DEF A!GetUnusedNode, A!Nodes
  <2>. QED
    BY <1>1, <1>4, <2>1, MinIsLeast DEF A!GetUnusedNode
<1>6. PICK fd \in Fds : fd = FreeFd
  BY <1>3
<1>7. taken'.idx = idx /\ taken'.fd = fd
  BY <1>1, <1>4, <1>6
<1>8. PICK n : n = [gNodeList[idx] EXCEPT !.status = TRUE]
  OBVIOUS
<1>9. gNodeList \in [A!Nodes -> AioNode] /\ gNodeList[idx] \in AioNode
  BY <1>2, <1>5 DEF AioTypes
<1>10. n \in AioNode /\ n.status /\ n.phase = gNodeList[idx].phase /\ n.fd = gNodeList[idx].fd
  BY <1>8, <1>9 DEF AioNode
<1>11. gNodeList' = [gNodeList EXCEPT ![idx] = n]
  BY <1>1, <1>7, <1>8
<1>12. /\ gNodeList' \in [A!Nodes -> AioNode]
       /\ \A i \in A!Nodes : /\ gNodeList'[i].phase = gNodeList[i].phase
                             /\ gNodeList'[i].fd = gNodeList[i].fd
                             /\ gNodeList[i].status => gNodeList'[i].status
       /\ gNodeList'[idx].status
  <2>1. /\ gNodeList' \in [A!Nodes -> AioNode] /\ gNodeList'[idx] = n
        /\ \A i \in A!Nodes \ {idx} : gNodeList'[i] = gNodeList[i]
    BY <1>5, <1>9, <1>10, <1>11
  <2>. QED
    BY <1>10, <2>1
<1>13. AioTypes'
  <2>1. /\ leaving' \in [Clients -> [idx : A!Nodes \union {None}, at : {"no", "count", "close"}]]
        /\ actCnt' \in Int /\ pc' \in {"loop", "accept", "start", "ended", "exited", "undefined"}
    BY <1>1, <1>2 DEF AioTypes
  <2>. QED
    BY <1>3, <1>12, <2>1, AioTypesNext
<1>14. \A f \in Fds : fds[f] # None => fds'[f] = fds[f]
  BY <1>3
<1>15. fds'[fd] = c /\ leaving[c].at = "no"
  <2>1. fds'[fd] = c
    BY <1>2, <1>3, <1>6 DEF FdTable
  <2>2. LeavingOk(c) /\ leaving[c] \in [idx : A!Nodes \union {None}, at : {"no", "count", "close"}]
    BY <1>2 DEF AioNodesOk, AioTypes
  <2>. QED
    BY <1>2, <1>3, <2>1, <2>2 DEF LeavingOk, FdTable
<1>16. \A i \in A!Nodes : gNodeList[i].phase # "none" => gNodeList[i].fd \in Fds /\ fds[gNodeList[i].fd] # None
  BY <1>2, PeersAssumption DEF AioNodesOk, ActiveOk
<1>17. \A i \in A!Nodes : ActiveOk(i)'
  BY <1>1, <1>2, <1>12, <1>14, <1>16 DEF AioNodesOk, ActiveOk, Fds
<1>18. \A i, j \in A!Nodes : Apart(i, j)'
  BY <1>2, <1>12 DEF AioNodesOk, Apart
<1>19. \A d \in Clients : LeavingOk(d)'
  <2>1. ASSUME NEW d \in Clients, leaving[d].at # "no"
        PROVE  /\ \E f \in Fds : fds'[f] = d
               /\ leaving[d].idx \in A!Nodes
               /\ gNodeList'[leaving[d].idx].fd \in Fds
    <3>1. LeavingOk(d)
      BY <1>2 DEF AioNodesOk
    <3>. QED
      BY <1>12, <1>14, <2>1, <3>1, PeersAssumption DEF LeavingOk
  <2>. QED
    BY <1>1, <2>1 DEF LeavingOk, A!Nodes, Fds
<1>20. TakenOk'
  <2>1. gNodeList[idx].phase = "none"
    BY <1>2, <1>5 DEF AioNodesOk, ActiveOk
  <2>2. \A i \in A!Nodes : gNodeList'[i].phase # "none" => gNodeList'[i].fd # fd
    BY <1>3, <1>6, <1>12, <1>16
  <2>. QED
    BY <1>1, <1>5, <1>6, <1>7, <1>12, <1>15, <2>1, <2>2 DEF TakenOk, A!Nodes, Fds
<1>21. actCnt' = Cardinality(Active') + Cardinality(Counting')
  <2>1. Active' = Active /\ Counting' = Counting
    BY <1>1, <1>12 DEF Active, Counting, A!Nodes
  <2>. QED
    BY <1>1, <1>2, <2>1 DEF AioNodesOk
<1>22. AioNodesOk'
  BY <1>17, <1>18, <1>19, <1>20, <1>21 DEF AioNodesOk, A!Nodes
<1>. QED
  BY <1>1, <1>13, <1>22 DEF AioInv, EndsIdle, A!EndsIdle

(* The first read of a connection starts on the node it took.              *)
LEMMA AioStarts ==
  ASSUME AioInv, A!Starts, Runs({"aio_echo_server"})
  PROVE  AioInv'
<1>1. /\ UNCHANGED <<conn, fds, leaving>> /\ pc = "start" /\ pc' = "loop"
      /\ actCnt' = actCnt + 1
      /\ gNodeList' = [gNodeList EXCEPT ![taken.idx].fd = taken.fd, ![taken.idx].phase = "read"]
  BY DEF A!Starts, A!MainGoes
<1>2. AioTypes /\ AioNodesOk /\ TakenOk
  BY <1>1 DEF AioInv, AioNodesOk, A!Running
<1>3. PICK idx \in A!Nodes, fd \in Fds : idx = taken.idx /\ fd = taken.fd
  BY <1>1, <1>2 DEF TakenOk
<1>4. /\ gNodeList[idx].status /\ gNodeList[idx].phase = "none"
      /\ fds[fd] \in Clients /\ leaving[fds[fd]].at = "no"
      /\ \A i \in A!Nodes : gNodeList[i].phase # "none" => gNodeList[i].fd # fd
  BY <1>1, <1>2, <1>3 DEF TakenOk
<1>5. gNodeList \in [A!Nodes -> AioNode] /\ gNodeList[idx] \in AioNode
  BY <1>2, <1>3 DEF AioTypes
<1>6. PICK n : n = [[gNodeList[idx] EXCEPT !.fd = fd] EXCEPT !.phase = "read"]
  OBVIOUS
<1>7. n \in AioNode /\ n.status = gNodeList[idx].status /\ n.phase = "read" /\ n.fd = fd
  BY <1>5, <1>6 DEF AioNode
<1>8. gNodeList' = [gNodeList EXCEPT ![idx] = n]
  BY <1>1, <1>3, <1>5, <1>6 DEF AioNode
<1>9. /\ gNodeList' \in [A!Nodes -> AioNode] /\ gNodeList'[idx] = n
      /\ \A i \in A!Nodes \ {idx} : gNodeList'[i] = gNodeList[i]
  BY <1>5, <1>7, <1>8
<1>10. AioTypes'
  <2>1. FdTable'
    BY <1>1, <1>2 DEF AioTypes, FdTable, Fds
  <2>2. /\ leaving' \in [Clients -> [idx : A!Nodes \union {None}, at : {"no", "count", "close"}]]
        /\ conn' \in [Clients -> Connection(Clients \X Nat)]
    BY <1>1, <1>2 DEF AioTypes
  <2>3. actCnt' \in Int
    <3>1. actCnt \in Int
      BY <1>2 DEF AioTypes
    <3>. QED
      BY <1>1, <3>1
  <2>. QED
    BY <1>1, <1>9, <2>1, <2>2, <2>3, AioTypesNext
<1>11. \A i \in A!Nodes : ActiveOk(i)'
  BY <1>1, <1>2, <1>4, <1>7, <1>9 DEF AioNodesOk, ActiveOk, Fds
<1>12. \A i, j \in A!Nodes : Apart(i, j)'
  BY <1>2, <1>4, <1>7, <1>9 DEF AioNodesOk, Apart
<1>13. \A d \in Clients : LeavingOk(d)'
  BY <1>1, <1>2, <1>7, <1>9 DEF AioNodesOk, LeavingOk, A!Nodes, Fds
<1>14. TakenOk'
  BY <1>1 DEF TakenOk
<1>15. actCnt' = Cardinality(Active') + Cardinality(Counting')
  <2>1. Active' = Active \union {idx} /\ idx \notin Active /\ Counting' = Counting
    BY <1>1, <1>4, <1>7, <1>9 DEF Active, Counting, A!Nodes
  <2>2. IsFiniteSet(Active)
    BY AioFinite DEF Active
  <2>3. Cardinality(Active') = Cardinality(Active) + 1
    BY <2>1, <2>2, FS_AddElement
  <2>4. PICK m \in Nat : m = Cardinality(Active)
    BY AioFinite DEF Active
  <2>5. PICK n2 \in Nat : n2 = Cardinality(Counting)
    BY AioFinite DEF Counting
  <2>6. actCnt = m + n2
    BY <1>2, <2>4, <2>5 DEF AioNodesOk
  <2>7. (m + n2) + 1 = (m + 1) + n2
    BY ONLY m \in Nat, n2 \in Nat
  <2>. QED
    BY <1>1, <2>1, <2>3, <2>4, <2>5, <2>6, <2>7, Zenon
<1>16. AioNodesOk'
  BY <1>11, <1>12, <1>13, <1>14, <1>15 DEF AioNodesOk, A!Nodes
<1>. QED
  BY <1>1, <1>10, <1>16 DEF AioInv, EndsIdle, A!EndsIdle

(* A request is done, and the next one of the same node is made.           *)
LEMMA AioKeeps ==
  ASSUME AioInv, A!Running, pc' = pc, taken' = taken, UNCHANGED <<fds, actCnt, leaving>>,
         AioTypes',
         \A i \in A!Nodes : /\ gNodeList'[i].status = gNodeList[i].status
                            /\ gNodeList'[i].fd = gNodeList[i].fd
                            /\ gNodeList'[i].phase = "none" <=> gNodeList[i].phase = "none"
  PROVE  AioInv'
<1>1. AioNodesOk
  BY DEF AioInv
<1>2. Active' = Active /\ Counting' = Counting
  BY DEF Active, Counting, A!Nodes
<1>3. /\ \A i \in A!Nodes : ActiveOk(i)'
      /\ \A i, j \in A!Nodes : Apart(i, j)'
  BY <1>1 DEF AioNodesOk, ActiveOk, Apart, Fds
<1>4. \A c \in Clients : LeavingOk(c)'
  BY <1>1 DEF AioNodesOk, LeavingOk, A!Nodes, Fds
<1>5. TakenOk'
  BY <1>1 DEF AioNodesOk, TakenOk, A!Nodes, Fds
<1>6. AioNodesOk'
  BY <1>1, <1>2, <1>3, <1>4, <1>5 DEF AioNodesOk, A!Nodes
<1>. QED
  BY <1>6 DEF AioInv, EndsIdle, A!EndsIdle, A!Running

(* A callback gives up its node.                                           *)
LEMMA AioLeaves ==
  ASSUME AioInv, A!Running, pc' = pc, taken' = taken, UNCHANGED <<fds, actCnt>>,
         conn' \in [Clients -> Connection(Clients \X Nat)], FdTable',
         NEW i \in A!Nodes, gNodeList[i].phase # "none", A!Leaves(i)
  PROVE  AioInv'
<1>1. AioTypes /\ AioNodesOk
  BY DEF AioInv
<1>2. PICK f \in Fds : f = gNodeList[i].fd
  BY <1>1 DEF AioNodesOk, ActiveOk
<1>3. PICK c \in Clients : c = fds[f] /\ leaving[c].at = "no"
  BY <1>1, <1>2 DEF AioNodesOk, ActiveOk
<1>4. A!Behind(i) = c
  BY <1>2, <1>3 DEF A!Behind
<1>5. gNodeList \in [A!Nodes -> AioNode] /\ gNodeList[i] \in AioNode /\ gNodeList[i].fd = f
  BY <1>1, <1>2 DEF AioTypes
<1>6. PICK n1 : n1 = [gNodeList[i] EXCEPT !.status = FALSE]
  OBVIOUS
<1>7. PICK n2 : n2 = [n1 EXCEPT !.phase = "none"]
  OBVIOUS
<1>8. PICK n3 : n3 = [n2 EXCEPT !.buf = <<>>]
  OBVIOUS
<1>9. PICK n : n = [n3 EXCEPT !.told = FALSE]
  OBVIOUS
<1>10. <<>> \in Seq(Clients \X Nat)
  OBVIOUS
<1>11. n1 \in AioNode /\ n1.fd = f
  BY <1>5, <1>6 DEF AioNode
<1>12. n2 \in AioNode /\ n2.fd = f /\ n2.phase = "none"
  BY <1>7, <1>11 DEF AioNode
<1>13. n3 \in AioNode /\ n3.fd = f /\ n3.phase = "none"
  BY <1>8, <1>10, <1>12 DEF AioNode
<1>14. n \in AioNode /\ n.fd = f /\ n.phase = "none"
  BY <1>9, <1>13 DEF AioNode
<1>15. PICK g1 : g1 = [gNodeList EXCEPT ![i] = n1]
  OBVIOUS
<1>16. PICK g2 : g2 = [g1 EXCEPT ![i] = n2]
  OBVIOUS
<1>17. PICK g3 : g3 = [g2 EXCEPT ![i] = n3]
  OBVIOUS
<1>18. gNodeList' = [g3 EXCEPT ![i] = n]
  <2>1. gNodeList' = [gNodeList EXCEPT ![i].status = FALSE, ![i].phase = "none",
                                       ![i].buf = <<>>, ![i].told = FALSE]
    BY DEF A!Leaves
  <2>2. g1 \in [A!Nodes -> AioNode] /\ g1[i] = n1 /\ g1 = [gNodeList EXCEPT ![i].status = FALSE]
    BY <1>5, <1>6, <1>11, <1>15
  <2>3. g2 \in [A!Nodes -> AioNode] /\ g2[i] = n2 /\ g2 = [g1 EXCEPT ![i].phase = "none"]
    BY <1>7, <1>12, <1>16, <2>2
  <2>4. g3 \in [A!Nodes -> AioNode] /\ g3[i] = n3 /\ g3 = [g2 EXCEPT ![i].buf = <<>>]
    BY <1>8, <1>13, <1>17, <2>3
  <2>5. [g3 EXCEPT ![i] = n] = [g3 EXCEPT ![i].told = FALSE]
    BY <1>9, <2>4
  <2>6. [gNodeList EXCEPT ![i].status = FALSE, ![i].phase = "none", ![i].buf = <<>>, ![i].told = FALSE]
          = [[[[gNodeList EXCEPT ![i].status = FALSE] EXCEPT ![i].phase = "none"]
                EXCEPT ![i].buf = <<>>] EXCEPT ![i].told = FALSE]
    OBVIOUS
  <2>. QED
    BY <2>1, <2>2, <2>3, <2>4, <2>5, <2>6, Zenon
<1>19. /\ gNodeList' \in [A!Nodes -> AioNode] /\ gNodeList'[i] = n
       /\ \A j \in A!Nodes \ {i} : gNodeList'[j] = gNodeList[j]
  <2>1. /\ g1 \in [A!Nodes -> AioNode]
        /\ \A j \in A!Nodes \ {i} : g1[j] = gNodeList[j]
    BY <1>5, <1>11, <1>15
  <2>2. /\ g2 \in [A!Nodes -> AioNode]
        /\ \A j \in A!Nodes \ {i} : g2[j] = gNodeList[j]
    BY <1>12, <1>16, <2>1
  <2>3. /\ g3 \in [A!Nodes -> AioNode]
        /\ \A j \in A!Nodes \ {i} : g3[j] = gNodeList[j]
    BY <1>13, <1>17, <2>2
  <2>. QED
    BY <1>14, <1>18, <2>3
<1>20. PICK r \in [idx : A!Nodes \union {None}, at : {"no", "count", "close"}] :
         r.idx = i /\ r.at = "count" /\ leaving' = [leaving EXCEPT ![c] = r]
  <2>1. leaving' = [leaving EXCEPT ![c] = [idx |-> i, at |-> "count"]]
    BY <1>4 DEF A!Leaves
  <2>. QED
    BY <2>1
<1>21. /\ leaving \in [Clients -> [idx : A!Nodes \union {None}, at : {"no", "count", "close"}]]
       /\ leaving' \in [Clients -> [idx : A!Nodes \union {None}, at : {"no", "count", "close"}]]
       /\ leaving'[c] = r /\ \A d \in Clients \ {c} : leaving'[d] = leaving[d]
  BY <1>1, <1>20 DEF AioTypes
<1>22. AioTypes'
  <2>1. actCnt' \in Int /\ pc' \in {"loop", "accept", "start", "ended", "exited", "undefined"}
    BY <1>1 DEF AioTypes
  <2>. QED
    BY <1>19, <1>21, <2>1, AioTypesNext
<1>23. \A j \in A!Nodes \ {i} : gNodeList[j].phase # "none" => fds[gNodeList[j].fd] # c
  <2>1. SUFFICES ASSUME NEW j \in A!Nodes \ {i}, gNodeList[j].phase # "none", fds[gNodeList[j].fd] = c
                 PROVE  FALSE
    OBVIOUS
  <2>2. gNodeList[j].fd \in Fds
    BY <1>1, <2>1 DEF AioNodesOk, ActiveOk
  <2>3. gNodeList[j].fd = f
    BY <1>1, <1>3, <2>1, <2>2, PeersAssumption DEF AioTypes, FdTable
  <2>. QED
    BY <1>1, <1>5, <2>1, <2>3 DEF AioNodesOk, Apart
<1>24. \A j \in A!Nodes : ActiveOk(j)'
  <2>1. ASSUME NEW j \in A!Nodes, gNodeList'[j].phase # "none"
        PROVE  /\ gNodeList'[j].status
               /\ gNodeList'[j].fd \in Fds
               /\ fds[gNodeList'[j].fd] \in Clients
               /\ leaving'[fds[gNodeList'[j].fd]].at = "no"
    <3>1. j # i
      BY <1>14, <1>19, <2>1
    <3>2. gNodeList'[j] = gNodeList[j] /\ ActiveOk(j)
      BY <1>1, <1>19, <3>1 DEF AioNodesOk
    <3>3. fds[gNodeList[j].fd] \in Clients \ {c}
      BY <1>23, <2>1, <3>1, <3>2 DEF ActiveOk
    <3>. QED
      BY <1>21, <2>1, <3>2, <3>3 DEF ActiveOk
  <2>. QED
    BY <2>1 DEF ActiveOk, Fds
<1>25. \A j, k \in A!Nodes : Apart(j, k)'
  BY <1>1, <1>14, <1>19 DEF AioNodesOk, Apart
<1>26. \A d \in Clients : LeavingOk(d)'
  <2>1. \A j \in A!Nodes : gNodeList'[j].fd = gNodeList[j].fd
    BY <1>5, <1>14, <1>19
  <2>2. ASSUME NEW d \in Clients, leaving'[d].at # "no"
        PROVE  /\ \E g \in Fds : fds[g] = d
               /\ leaving'[d].idx \in A!Nodes
               /\ gNodeList'[leaving'[d].idx].fd \in Fds
    <3>1. CASE d = c
      BY <1>3, <1>5, <1>20, <1>21, <2>1, <3>1
    <3>2. CASE d # c
      <4>1. leaving'[d] = leaving[d] /\ LeavingOk(d)
        BY <1>1, <1>21, <3>2 DEF AioNodesOk
      <4>. QED
        BY <2>1, <2>2, <4>1 DEF LeavingOk
    <3>. QED
      BY <3>1, <3>2
  <2>. QED
    BY <2>2 DEF LeavingOk, A!Nodes, Fds
<1>27. TakenOk'
  <2>1. ASSUME pc = "start"
        PROVE  TakenOk'
    <3>1. PICK idx \in A!Nodes, fd \in Fds : idx = taken.idx /\ fd = taken.fd
      BY <1>1, <2>1 DEF AioNodesOk, TakenOk
    <3>2. /\ gNodeList[idx].status /\ gNodeList[idx].phase = "none"
          /\ fds[fd] \in Clients /\ leaving[fds[fd]].at = "no"
          /\ \A j \in A!Nodes : gNodeList[j].phase # "none" => gNodeList[j].fd # fd
      BY <1>1, <2>1, <3>1 DEF AioNodesOk, TakenOk
    <3>3. idx # i /\ f # fd
      BY <1>5, <3>2
    <3>4. fds[fd] # c
      BY <1>1, <1>3, <3>3, PeersAssumption DEF AioTypes, FdTable
    <3>5. \A j \in A!Nodes : gNodeList'[j].phase # "none" => gNodeList'[j].fd # fd
      BY <1>14, <1>19, <3>2
    <3>6. leaving'[fds[fd]].at = "no" /\ gNodeList'[idx] = gNodeList[idx]
      BY <1>19, <1>21, <3>2, <3>3, <3>4
    <3>. QED
      BY <3>1, <3>2, <3>5, <3>6 DEF TakenOk, A!Nodes, Fds
  <2>. QED
    BY <2>1 DEF TakenOk
<1>28. actCnt' = Cardinality(Active') + Cardinality(Counting')
  <2>1. i \in Active /\ Active' = Active \ {i}
    BY <1>14, <1>19 DEF Active, A!Nodes
  <2>2. c \notin Counting /\ Counting' = Counting \union {c}
    BY <1>3, <1>20, <1>21 DEF Counting
  <2>3. IsFiniteSet(Active) /\ IsFiniteSet(Counting)
    BY AioFinite DEF Active, Counting
  <2>4. PICK m \in Nat : m = Cardinality(Active')
    BY <2>1, AioFinite DEF Active
  <2>5. PICK k \in Nat : k = Cardinality(Counting)
    BY AioFinite DEF Counting
  <2>6. Cardinality(Active) = m + 1
    <3>1. Active = Active' \union {i} /\ i \notin Active' /\ IsFiniteSet(Active')
      BY <2>1, <2>3, FS_RemoveElement
    <3>. QED
      BY <2>4, <3>1, FS_AddElement
  <2>7. Cardinality(Counting') = k + 1
    BY <2>2, <2>3, <2>5, FS_AddElement
  <2>8. actCnt = (m + 1) + k
    BY <1>1, <2>5, <2>6 DEF AioNodesOk
  <2>9. (m + 1) + k = m + (k + 1)
    BY ONLY m \in Nat, k \in Nat
  <2>10. actCnt' = actCnt
    OBVIOUS
  <2>. QED
    BY <2>4, <2>7, <2>8, <2>9, <2>10, Zenon
<1>29. AioNodesOk'
  BY <1>24, <1>25, <1>26, <1>27, <1>28 DEF AioNodesOk, A!Nodes
<1>. QED
  BY <1>22, <1>29 DEF AioInv, EndsIdle, A!EndsIdle, A!Running

(* The library's part of a request: what is behind a node with one.        *)
LEMMA AioBehind ==
  ASSUME AioInv, A!Running, NEW i \in A!Nodes, gNodeList[i].phase # "none"
  PROVE  A!Behind(i) \in Clients
BY DEF AioInv, AioNodesOk, ActiveOk, A!Behind

(* A request of a used node may end and be followed by another one.        *)
LEMMA AioBecomes ==
  ASSUME AioInv, A!Running, NEW i \in A!Nodes, gNodeList[i].phase # "none",
         NEW b \in Seq(Clients \X Nat), NEW p \in {"read", "write", "failed"}, NEW t \in BOOLEAN,
         pc' = pc, taken' = taken, UNCHANGED <<fds, actCnt, leaving>>,
         conn' \in [Clients -> Connection(Clients \X Nat)], FdTable',
         \/ gNodeList' = [gNodeList EXCEPT ![i].phase = p, ![i].buf = b]
         \/ gNodeList' = [gNodeList EXCEPT ![i].phase = p, ![i].buf = b, ![i].told = t]
  PROVE  AioInv'
<1>1. gNodeList \in [A!Nodes -> AioNode] /\ gNodeList[i] \in AioNode
  BY DEF AioInv, AioTypes
<1>2. PICK n1 : n1 = [gNodeList[i] EXCEPT !.phase = p]
  OBVIOUS
<1>3. n1 \in AioNode /\ n1.phase # "none" /\ n1.fd = gNodeList[i].fd /\ n1.status = gNodeList[i].status
  BY <1>1, <1>2 DEF AioNode
<1>4. PICK n2 : n2 = [n1 EXCEPT !.buf = b]
  OBVIOUS
<1>5. n2 \in AioNode /\ n2.phase # "none" /\ n2.fd = gNodeList[i].fd /\ n2.status = gNodeList[i].status
  BY <1>3, <1>4 DEF AioNode
<1>6. PICK n3 : n3 = [n2 EXCEPT !.told = t]
  OBVIOUS
<1>7. n3 \in AioNode /\ n3.phase # "none" /\ n3.fd = gNodeList[i].fd /\ n3.status = gNodeList[i].status
  BY <1>5, <1>6 DEF AioNode
<1>8. PICK g1 : g1 = [gNodeList EXCEPT ![i] = n1]
  OBVIOUS
<1>9. PICK g2 : g2 = [g1 EXCEPT ![i] = n2]
  OBVIOUS
<1>10. /\ g1 \in [A!Nodes -> AioNode] /\ g1[i] = n1 /\ g1 = [gNodeList EXCEPT ![i].phase = p]
       /\ \A j \in A!Nodes \ {i} : g1[j] = gNodeList[j]
  BY <1>1, <1>2, <1>3, <1>8
<1>11. /\ g2 \in [A!Nodes -> AioNode] /\ g2[i] = n2 /\ g2 = [g1 EXCEPT ![i].buf = b]
       /\ \A j \in A!Nodes \ {i} : g2[j] = gNodeList[j]
  BY <1>4, <1>5, <1>9, <1>10
<1>12. [gNodeList EXCEPT ![i].phase = p, ![i].buf = b] = g2
  BY <1>10, <1>11, Zenon
<1>13. [gNodeList EXCEPT ![i].phase = p, ![i].buf = b, ![i].told = t] = [g2 EXCEPT ![i] = n3]
  <2>1. [g2 EXCEPT ![i] = n3] = [g2 EXCEPT ![i].told = t]
    BY <1>6, <1>11
  <2>2. [gNodeList EXCEPT ![i].phase = p, ![i].buf = b, ![i].told = t]
          = [[[gNodeList EXCEPT ![i].phase = p] EXCEPT ![i].buf = b] EXCEPT ![i].told = t]
    OBVIOUS
  <2>. QED
    BY <1>10, <1>11, <2>1, <2>2, Zenon
<1>14. PICK n \in AioNode :
         /\ n.phase # "none" /\ n.fd = gNodeList[i].fd /\ n.status = gNodeList[i].status
         /\ gNodeList' \in [A!Nodes -> AioNode] /\ gNodeList'[i] = n
         /\ \A j \in A!Nodes \ {i} : gNodeList'[j] = gNodeList[j]
  <2>1. CASE gNodeList' = g2
    BY <1>5, <1>11, <2>1
  <2>2. CASE gNodeList' = [g2 EXCEPT ![i] = n3]
    BY <1>7, <1>11, <2>2
  <2>. QED
    BY <1>12, <1>13, <2>1, <2>2
<1>15. AioTypes'
  <2>1. /\ leaving' \in [Clients -> [idx : A!Nodes \union {None}, at : {"no", "count", "close"}]]
        /\ actCnt' \in Int /\ pc' \in {"loop", "accept", "start", "ended", "exited", "undefined"}
    BY DEF AioInv, AioTypes
  <2>. QED
    BY <1>14, <2>1, AioTypesNext
<1>. QED
  BY <1>14, <1>15, AioKeeps

(* The end of a read starts the write, or leaves the node.                 *)
LEMMA AioRead ==
  ASSUME AioInv, NEW i \in A!Nodes, A!read_cb(i)
  PROVE  AioInv'
<1>1. /\ A!Running /\ gNodeList[i].phase = "read" /\ A!Running
      /\ pc' = pc /\ taken' = taken /\ fds' = fds /\ actCnt' = actCnt
  BY DEF A!read_cb
<1>2. PICK c \in Clients : c = A!Behind(i)
  BY <1>1, AioBehind
<1>3. conn \in [Clients -> Connection(Clients \X Nat)] /\ FdTable
  BY DEF AioInv, AioTypes
<1>4. conn[c] \in Connection(Clients \X Nat) /\ conn[c].unread \in Seq(Clients \X Nat)
      /\ <<>> \in Seq(Clients \X Nat)
  BY <1>3 DEF Connection
<1>5. CASE A!Becomes(i, "failed", <<>>) /\ UNCHANGED <<conn, leaving>>
  <2>1. FdTable'
    BY <1>1, <1>3, <1>5, SameTable
  <2>. QED
    BY <1>1, <1>3, <1>4, <1>5, <2>1, AioBecomes DEF A!Becomes
<1>6. CASE /\ A!Becomes(i, "write", conn[c].unread) /\ UNCHANGED leaving
           /\ conn' = [conn EXCEPT ![c].unread = <<>>]
  <2>1. PICK r : r = [conn[c] EXCEPT !.unread = <<>>]
    OBVIOUS
  <2>2. r \in Connection(Clients \X Nat) /\ r.stage = conn[c].stage
    BY <1>4, <2>1 DEF Connection
  <2>3. conn' = [conn EXCEPT ![c] = r]
    BY <1>6, <2>1
  <2>4. conn' \in [Clients -> Connection(Clients \X Nat)]
        /\ \A d \in Clients : conn'[d].stage = conn[d].stage
    BY <1>3, <2>2, <2>3
  <2>5. FdTable'
    BY <1>1, <1>3, <2>4, SameTable
  <2>. QED
    BY <1>1, <1>4, <1>6, <2>4, <2>5, AioBecomes DEF A!Becomes
<1>7. CASE A!Leaves(i) /\ UNCHANGED conn
  <2>1. FdTable'
    BY <1>1, <1>3, <1>7, SameTable
  <2>. QED
    BY <1>1, <1>3, <1>7, <2>1, AioLeaves
<1>. QED
  BY <1>2, <1>5, <1>6, <1>7 DEF A!read_cb

(* The end of a write starts the next read, or leaves the node.            *)
LEMMA AioWrite ==
  ASSUME AioInv, NEW i \in A!Nodes, A!write_cb(i)
  PROVE  AioInv'
<1>1. /\ A!Running /\ gNodeList[i].phase = "write"
      /\ pc' = pc /\ taken' = taken /\ fds' = fds /\ actCnt' = actCnt
  BY DEF A!write_cb
<1>2. PICK c \in Clients : c = A!Behind(i)
  BY <1>1, AioBehind
<1>3. conn \in [Clients -> Connection(Clients \X Nat)] /\ FdTable
      /\ gNodeList[i] \in AioNode
  BY DEF AioInv, AioTypes
<1>4. conn[c] \in Connection(Clients \X Nat) /\ conn[c].echoed \in Seq(Clients \X Nat)
      /\ <<>> \in Seq(Clients \X Nat) /\ gNodeList[i].buf \in Seq(Clients \X Nat)
      /\ conn[c].reset \in BOOLEAN
  BY <1>3 DEF Connection, AioNode
<1>5. conn' \in [Clients -> Connection(Clients \X Nat)]
      /\ \A d \in Clients : conn'[d].stage = conn[d].stage
  <2>1. PICK r : r = [conn[c] EXCEPT !.echoed = conn[c].echoed \o gNodeList[i].buf]
    OBVIOUS
  <2>2. conn[c].echoed \o gNodeList[i].buf \in Seq(Clients \X Nat)
    BY <1>4
  <2>3. r \in Connection(Clients \X Nat) /\ r.stage = conn[c].stage
    BY <1>4, <2>1, <2>2 DEF Connection
  <2>4. conn' = conn \/ conn' = [conn EXCEPT ![c] = r]
    BY <1>2, <2>1 DEF A!write_cb
  <2>. QED
    BY <1>3, <2>3, <2>4
<1>6. FdTable'
  BY <1>1, <1>3, <1>5, SameTable
<1>7. CASE quit
  BY <1>1, <1>5, <1>6, <1>7, AioLeaves DEF A!write_cb
<1>8. CASE ~ quit
  <2>1. PICK t \in BOOLEAN : t = conn[c].reset
    BY <1>4
  <2>2. /\ leaving' = leaving
        /\ gNodeList' = [gNodeList EXCEPT ![i].phase = "read", ![i].buf = <<>>, ![i].told = t]
    BY <1>2, <1>8, <2>1 DEF A!write_cb
  <2>. QED
    BY <1>1, <1>4, <1>5, <1>6, <2>2, AioBecomes
<1>. QED
  BY <1>7, <1>8

(* A connection that leaves is counted off once.                           *)
LEMMA AioCounts ==
  ASSUME AioInv, NEW c \in Clients, A!Counts(c)
  PROVE  AioInv'
<1>1. /\ A!Running /\ leaving[c].at = "count" /\ actCnt' = actCnt - 1
      /\ leaving' = [leaving EXCEPT ![c].at = "close"]
      /\ UNCHANGED <<conn, fds, gNodeList, taken, pc>>
  BY DEF A!Counts
<1>2. AioTypes /\ AioNodesOk
  BY <1>1 DEF AioInv
<1>3. leaving \in [Clients -> [idx : A!Nodes \union {None}, at : {"no", "count", "close"}]]
      /\ gNodeList \in [A!Nodes -> AioNode]
  BY <1>2 DEF AioTypes
<1>4. PICK r : r = [leaving[c] EXCEPT !.at = "close"]
  OBVIOUS
<1>5. r \in [idx : A!Nodes \union {None}, at : {"no", "count", "close"}]
      /\ r.at = "close" /\ r.idx = leaving[c].idx
  BY <1>3, <1>4
<1>6. /\ leaving' \in [Clients -> [idx : A!Nodes \union {None}, at : {"no", "count", "close"}]]
      /\ leaving'[c] = r /\ \A d \in Clients \ {c} : leaving'[d] = leaving[d]
  <2>1. leaving' = [leaving EXCEPT ![c] = r]
    BY <1>1, <1>4
  <2>. QED
    BY <1>3, <1>5, <2>1
<1>7. \A d \in Clients : leaving'[d].at = "no" <=> leaving[d].at = "no"
  BY <1>1, <1>5, <1>6
<1>8. AioTypes'
  <2>1. /\ conn' \in [Clients -> Connection(Clients \X Nat)]
        /\ pc' \in {"loop", "accept", "start", "ended", "exited", "undefined"} /\ actCnt \in Int
    BY <1>1, <1>2 DEF AioTypes
  <2>2. FdTable'
    BY <1>1, <1>2 DEF AioTypes, FdTable, Fds
  <2>3. actCnt' \in Int /\ gNodeList' \in [A!Nodes -> AioNode]
    BY <1>1, <1>3, <2>1
  <2>. QED
    BY <1>6, <2>1, <2>2, <2>3, AioTypesNext
<1>9. /\ \A j \in A!Nodes : ActiveOk(j)'
      /\ \A j, k \in A!Nodes : Apart(j, k)'
      /\ TakenOk'
  BY <1>1, <1>2, <1>7 DEF AioNodesOk, ActiveOk, Apart, TakenOk, A!Nodes, Fds
<1>10. \A d \in Clients : LeavingOk(d)'
  <2>1. \A d \in Clients : leaving'[d].idx = leaving[d].idx
    BY <1>5, <1>6
  <2>. QED
    BY <1>1, <1>2, <1>7, <2>1 DEF AioNodesOk, LeavingOk, A!Nodes, Fds
<1>11. actCnt' = Cardinality(Active') + Cardinality(Counting')
  <2>1. Active' = Active
    BY <1>1 DEF Active, A!Nodes
  <2>2. c \in Counting /\ Counting' = Counting \ {c}
    BY <1>1, <1>5, <1>6 DEF Counting
  <2>3. IsFiniteSet(Counting)
    BY AioFinite DEF Counting
  <2>4. PICK m \in Nat : m = Cardinality(Active)
    BY AioFinite DEF Active
  <2>5. PICK k \in Nat : k = Cardinality(Counting')
    BY <2>2, AioFinite DEF Counting
  <2>6. Cardinality(Counting) = k + 1
    <3>1. Counting = Counting' \union {c} /\ c \notin Counting' /\ IsFiniteSet(Counting')
      BY <2>2, <2>3, FS_RemoveElement
    <3>. QED
      BY <2>5, <3>1, FS_AddElement
  <2>7. actCnt = m + (k + 1)
    BY <1>2, <2>4, <2>6 DEF AioNodesOk
  <2>8. (m + (k + 1)) - 1 = m + k
    BY ONLY m \in Nat, k \in Nat
  <2>. QED
    BY <1>1, <2>1, <2>4, <2>5, <2>7, <2>8, Zenon
<1>12. AioNodesOk'
  BY <1>9, <1>10, <1>11 DEF AioNodesOk, A!Nodes
<1>. QED
  BY <1>1, <1>8, <1>12 DEF AioInv, EndsIdle, A!EndsIdle, A!Running

(* A connection that leaves gives back its descriptor and its node.        *)
LEMMA AioCloses ==
  ASSUME AioInv, NEW c \in Clients, A!Closes(c)
  PROVE  AioInv'
<1>1. /\ A!Running /\ leaving[c].at = "close" /\ actCnt' = actCnt
      /\ leaving' = [leaving EXCEPT ![c] = A!NotLeaving]
      /\ gNodeList' = gNodeList /\ taken' = taken
  BY DEF A!Closes
<1>2. AioTypes /\ AioNodesOk
  BY <1>1 DEF AioInv
<1>3. leaving \in [Clients -> [idx : A!Nodes \union {None}, at : {"no", "count", "close"}]]
      /\ gNodeList \in [A!Nodes -> AioNode]
      /\ conn \in [Clients -> Connection(Clients \X Nat)] /\ FdTable
  BY <1>2 DEF AioTypes
<1>4. A!NotLeaving \in [idx : A!Nodes \union {None}, at : {"no", "count", "close"}]
      /\ A!NotLeaving.at = "no"
  BY DEF A!NotLeaving
<1>5. /\ leaving' \in [Clients -> [idx : A!Nodes \union {None}, at : {"no", "count", "close"}]]
      /\ leaving'[c].at = "no" /\ \A d \in Clients \ {c} : leaving'[d] = leaving[d]
  BY <1>1, <1>3, <1>4
<1>6. gNodeList' \in [A!Nodes -> AioNode] /\ actCnt' \in Int
  BY <1>1, <1>2, <1>3 DEF AioTypes
<1>7. CASE pc' = "undefined" /\ UNCHANGED <<conn, fds>>
  <2>1. FdTable' /\ conn' \in [Clients -> Connection(Clients \X Nat)]
    BY <1>3, <1>7, SameTable
  <2>2. AioTypes'
    BY <1>5, <1>6, <1>7, <2>1, AioTypesNext
  <2>. QED
    BY <1>7, <2>2 DEF AioInv, EndsIdle, A!EndsIdle, A!Running
<1>8. CASE /\ A!Behind(leaving[c].idx) = c /\ pc' = pc
           /\ A!CloseFds({gNodeList[leaving[c].idx].fd})
  <2>1. PICK i \in A!Nodes, f \in Fds : i = leaving[c].idx /\ f = gNodeList[i].fd /\ fds[f] = c
    BY <1>1, <1>2, <1>8 DEF AioNodesOk, LeavingOk, A!Behind
  <2>2. CloseFds({f}) /\ {f} \in SUBSET Fds
    BY <1>8, <2>1, AioPeers
  <2>3. /\ conn' \in [Clients -> Connection(Clients \X Nat)] /\ FdTable'
        /\ \A g \in Fds : fds'[g] = IF g \in {f} THEN None ELSE fds[g]
    BY <1>3, <2>2, ClosesTyped
  <2>4. \A g \in Fds : fds[g] # c => fds'[g] = fds[g]
    BY <2>1, <2>3
  <2>5. AioTypes'
    BY <1>2, <1>5, <1>6, <1>8, <2>3, AioTypesNext DEF AioTypes
  <2>6. \A j \in A!Nodes : ActiveOk(j)'
    <3>1. ASSUME NEW j \in A!Nodes, gNodeList[j].phase # "none"
          PROVE  /\ gNodeList[j].status
                 /\ gNodeList[j].fd \in Fds
                 /\ fds'[gNodeList[j].fd] \in Clients
                 /\ leaving'[fds'[gNodeList[j].fd]].at = "no"
      <4>1. ActiveOk(j)
        BY <1>2 DEF AioNodesOk
      <4>2. fds[gNodeList[j].fd] \in Clients \ {c}
        BY <1>1, <3>1, <4>1 DEF ActiveOk
      <4>. QED
        BY <1>5, <2>4, <3>1, <4>1, <4>2 DEF ActiveOk
    <3>. QED
      BY <1>1, <3>1 DEF ActiveOk, Fds
  <2>7. \A j, k \in A!Nodes : Apart(j, k)'
    BY <1>1, <1>2 DEF AioNodesOk, Apart
  <2>8. \A d \in Clients : LeavingOk(d)'
    <3>1. ASSUME NEW d \in Clients, leaving'[d].at # "no"
          PROVE  /\ \E g \in Fds : fds'[g] = d
                 /\ leaving'[d].idx \in A!Nodes
                 /\ gNodeList[leaving'[d].idx].fd \in Fds
      <4>1. d # c /\ leaving'[d] = leaving[d] /\ LeavingOk(d)
        BY <1>2, <1>5, <3>1 DEF AioNodesOk
      <4>. QED
        BY <2>4, <3>1, <4>1 DEF LeavingOk
    <3>. QED
      BY <1>1, <3>1 DEF LeavingOk, A!Nodes, Fds
  <2>9. TakenOk'
    <3>1. ASSUME pc = "start"
          PROVE  /\ fds'[taken.fd] \in Clients /\ leaving'[fds'[taken.fd]].at = "no"
      <4>1. TakenOk
        BY <1>2 DEF AioNodesOk
      <4>2. taken.fd \in Fds /\ fds[taken.fd] \in Clients \ {c}
        BY <1>1, <3>1, <4>1 DEF TakenOk
      <4>. QED
        BY <1>5, <2>4, <3>1, <4>1, <4>2 DEF TakenOk
    <3>. QED
      BY <1>1, <1>2, <1>8, <3>1 DEF AioNodesOk, TakenOk, A!Nodes, Fds
  <2>10. actCnt' = Cardinality(Active') + Cardinality(Counting')
    <3>1. Active' = Active
      BY <1>1 DEF Active, A!Nodes
    <3>2. Counting' = Counting
      BY <1>1, <1>5 DEF Counting
    <3>. QED
      BY <1>1, <1>2, <3>1, <3>2 DEF AioNodesOk
  <2>11. AioNodesOk'
    BY <2>6, <2>7, <2>8, <2>9, <2>10 DEF AioNodesOk, A!Nodes
  <2>. QED
    BY <1>1, <1>8, <2>5, <2>11 DEF AioInv, EndsIdle, A!EndsIdle, A!Running
<1>. QED
  BY <1>7, <1>8 DEF A!Closes

(* Every step of the asynchronous server keeps the invariant.              *)
LEMMA AioNext ==
  ASSUME AioInv, A!Next, Runs({"aio_echo_server"})
  PROVE  AioInv'
<1>1. CASE A!Main
  BY <1>1, AioMain, AioStarts, AioAcceptsFull, AioAcceptsOne DEF A!Main
<1>2. CASE A!Thread
  <2>1. ASSUME NEW i \in A!Nodes, A!read_cb_failed(i) \/ A!WriteFails(i)
        PROVE  AioInv'
    <3>1. /\ UNCHANGED <<conn, fds, gNodeList, actCnt, leaving>>
          /\ pc' \in {"exited", "undefined"}
      BY <2>1 DEF A!read_cb_failed, A!WriteFails, A!aioVars
    <3>2. FdTable'
      BY <3>1 DEF AioInv, AioTypes, FdTable, Fds
    <3>3. AioTypes'
      BY <3>1, <3>2, AioTypesNext DEF AioInv, AioTypes
    <3>. QED
      BY <3>1, <3>3, AioSame
  <2>. QED
    BY <1>2, <2>1, AioRead, AioWrite, AioCounts, AioCloses DEF A!Thread
<1>3. CASE A!sig_int
  <2>1. /\ UNCHANGED <<conn, fds, gNodeList, actCnt, leaving, taken>>
        /\ pc' = "exited" \/ pc' = pc
    BY <1>3 DEF A!sig_int, A!aioVars
  <2>2. FdTable'
    BY <2>1 DEF AioInv, AioTypes, FdTable, Fds
  <2>3. AioTypes'
    BY <2>1, <2>2, AioTypesNext DEF AioInv, AioTypes
  <2>. QED
    BY <2>1, <2>3, AioSame
<1>4. CASE A!Environment
  <2>1. /\ UNCHANGED <<fds, gNodeList, actCnt, leaving, taken, pc>>
        /\ \E c \in Clients : Connects(c) \/ Arrives(c)
    BY <1>4, AioPeers DEF A!Environment, A!aioVars
  <2>2. PICK c \in Clients : Connects(c) \/ Arrives(c)
    BY <2>1
  <2>3. conn \in [Clients -> Connection(Clients \X Nat)] /\ FdTable
    BY DEF AioInv, AioTypes
  <2>4. PICK r \in Connection(Clients \X Nat) :
          /\ conn' = [conn EXCEPT ![c] = r]
          /\ r.stage = "open" <=> conn[c].stage = "open"
    <3>1. \E r \in Connection(Clients \X Nat) :
            /\ conn' = [conn EXCEPT ![c] = r]
            /\ r.echoed = conn[c].echoed
            /\ \/ Arrives(c) /\ r.stage = conn[c].stage /\ r.stage \in {"pending", "open"}
               \/ conn[c].stage = "none" /\ r.stage = "pending"
      BY <2>2, <2>3, ArrivesTyped
    <3>. QED
      BY <3>1
  <2>5. conn' \in [Clients -> Connection(Clients \X Nat)]
        /\ \A d \in Clients : conn'[d].stage = "open" <=> conn[d].stage = "open"
    BY <2>3, <2>4
  <2>6. FdTable'
    BY <2>1, <2>3, <2>5, SameTable
  <2>7. AioTypes'
    BY <2>1, <2>5, <2>6, AioTypesNext DEF AioInv, AioTypes
  <2>. QED
    BY <2>1, <2>7, AioSame
<1>. QED
  BY <1>1, <1>2, <1>3, <1>4 DEF A!Next

(* The invariant holds throughout the runs of aio_echo_server.             *)
LEMMA AioAlways == Spec => [](Runs({"aio_echo_server"}) => AioInv)
<1>1. Init => (Runs({"aio_echo_server"}) => AioInv)
  BY OnlyOneStarts, AioInit
<1>2. ASSUME Runs({"aio_echo_server"}) => AioInv, [Next]_mcVars
      PROVE  (Runs({"aio_echo_server"}) => AioInv)'
  <2>1. program' = program
    BY <1>2, ProgramStays
  <2>2. CASE UNCHANGED mcVars
    <3>1. UNCHANGED <<conn, fds, gNodeList, actCnt, leaving, taken, pc>>
      BY <2>2 DEF mcVars, aioVars
    <3>2. ASSUME AioInv, Runs({"aio_echo_server"})
          PROVE  AioInv'
      <4>1. FdTable'
        BY <3>1, <3>2 DEF AioInv, AioTypes, FdTable, Fds
      <4>2. AioTypes'
        BY <3>1, <3>2, <4>1, AioTypesNext DEF AioInv, AioTypes
      <4>. QED
        BY <3>1, <3>2, <4>2, AioSame
    <3>. QED
      BY <1>2, <2>1, <3>2 DEF Runs
  <2>3. CASE Next
    <3>1. CASE Runs({"aio_echo_server"})
      BY <1>2, <2>3, <3>1, OnlyOneRuns, AioNext
    <3>2. CASE ~ Runs({"aio_echo_server"})
      BY <2>1, <3>2 DEF Runs
    <3>. QED
      BY <3>1, <3>2
  <2>. QED
    BY <1>2, <2>2, <2>3
<1>. QED
  BY <1>1, <1>2, PTL DEF Spec

(***************************************************************************)
(* aio_echo_server.c: when main ends after SIGINT and frees the buffers,   *)
(* no request is left that would use one, for any number of nodes and      *)
(* clients and however callbacks, SIGINT and accept interleave.            *)
(***************************************************************************)
THEOREM NothingInUse == Spec => []EndsIdle
<1>1. (Runs({"aio_echo_server"}) => AioInv) => EndsIdle
  BY DEF AioInv, EndsIdle
<1>. QED
  BY <1>1, AioAlways, PTL
=============================================================================
