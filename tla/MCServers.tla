------------------------------ MODULE MCServers ------------------------------
(***************************************************************************)
(* The servers, and the programs of which fairness promises something, for *)
(* TLC. The initial state picks a program; the servers have the same       *)
(* clients, and the variables of the programs that do not run are None.    *)
(***************************************************************************)
EXTENDS Epoll, TLC

CONSTANTS
  EVENT_NODE_MAX, MAX_WRITE_BYTE, READ_MAX, TABLE_MAX, Stacks, MaxDatagrams, LongLines,
  Paths, RequestBlocks, MaxVisitors,
  Children,
  Chosen     \* the programs to run

(* The tables have room for something, and what is read and written at     *)
(* once is something.                                                      *)
ASSUME ServersAssumption ==
  /\ EVENT_NODE_MAX \in Nat \ {0} /\ TABLE_MAX \in Nat \ {0}
  /\ EVENTS_MAX \in Nat \ {0}
  /\ MAX_WRITE_BYTE \in Nat \ {0} /\ READ_MAX \in Nat \ {0}

(* A connection without an owner is not that of a process.                 *)
ASSUME OwnerAssumption == None \notin {"parent", "child"}

VARIABLES
  program, pc,
  NodeList,                                                   \* Reactor
  buf,                                                        \* EpollServers
  table, stale, listening, ready, read_flag, datagrams,       \* SelectServers
  cfd, worker, holders, sigchld, handler,                     \* ForkServers
  main, cfd_list, owner, sigio, new, unseen,                  \* SigioServers
  asked, tree, job, out, reads, quit,                         \* HttpServer
  child, news,                                                \* Reaping
  evs,                                                        \* EventServers
  gNodeList, actCnt, leaving, taken                           \* AioServer

epollVars == <<interest, events>>
selectVars == <<table, stale, listening, ready, read_flag, datagrams>>
forkVars == <<cfd, worker, holders, sigchld>>
sigioVars == <<main, cfd_list, owner, sigio, new, unseen>>
httpVars == <<asked, tree, job, out, reads, quit>>
reapVars == <<child, news>>
aioVars == <<gNodeList, actCnt, leaving, taken>>
mcVars == <<conn, fds, epollVars, program, pc, NodeList, buf, selectVars, forkVars, handler,
            sigioVars, httpVars, reapVars, evs, aioVars>>

R == INSTANCE Reactor
E == INSTANCE EpollServers
S == INSTANCE SelectServers
F == INSTANCE ForkServers
G == INSTANCE SigioServers WITH LIST_MAX <- TABLE_MAX
H == INSTANCE HttpServer
W == INSTANCE Reaping
L == INSTANCE EventServers
A == INSTANCE AioServer WITH AIOCB_CNT <- TABLE_MAX

Runs(P) == program \in P

NoEpoll == interest = None /\ events = None
NoReactor == NodeList = None
NoBuf == buf = None
NoSelect == table = None /\ stale = None /\ listening = None /\ ready = None
            /\ read_flag = None /\ datagrams = None
NoFork == cfd = None /\ worker = None /\ holders = None /\ sigchld = None
NoSigio == main = None /\ cfd_list = None /\ owner = None /\ sigio = None
           /\ new = None /\ unseen = None
NoHttp == asked = None /\ tree = None /\ job = None /\ out = None /\ reads = None
          /\ quit = None
NoReaping == child = None /\ news = None
NoEvent == evs = None
NoAio == gNodeList = None /\ actCnt = None /\ leaving = None /\ taken = None

Init ==
  /\ \/ /\ program = "epoll_reactor" /\ R!Init
        /\ NoBuf /\ NoSelect /\ NoFork /\ NoSigio /\ NoHttp /\ NoReaping /\ NoEvent /\ NoAio /\ handler = None
     \/ /\ E!Init
        /\ NoReactor /\ NoSelect /\ NoFork /\ NoSigio /\ NoHttp /\ NoReaping /\ NoEvent /\ NoAio /\ handler = None
     \/ /\ S!Init
        /\ NoReactor /\ NoEpoll /\ NoBuf /\ NoFork /\ NoSigio /\ NoHttp /\ NoReaping /\ NoEvent /\ NoAio /\ handler = None
     \/ /\ F!Init
        /\ NoReactor /\ NoEpoll /\ NoBuf /\ NoSelect /\ NoSigio /\ NoHttp /\ NoReaping /\ NoEvent /\ NoAio
     \/ /\ G!Init
        /\ NoReactor /\ NoEpoll /\ NoBuf /\ NoSelect /\ NoFork /\ NoHttp /\ NoReaping /\ NoEvent /\ NoAio /\ pc = None
     \/ /\ program = "myhttpd" /\ H!Init
        /\ NoReactor /\ NoEpoll /\ NoBuf /\ NoSelect /\ NoFork /\ NoSigio /\ NoReaping
        /\ NoEvent /\ NoAio /\ handler = None
     \/ /\ W!Init
        /\ InitPeers
        /\ NoReactor /\ NoEpoll /\ NoBuf /\ NoSelect /\ NoSigio /\ NoHttp
        /\ NoEvent /\ NoAio /\ cfd = None /\ worker = None /\ holders = None
     \/ /\ L!Init
        /\ NoReactor /\ NoEpoll /\ NoBuf /\ NoSelect /\ NoFork /\ NoSigio /\ NoReaping
        /\ NoAio /\ asked = None /\ tree = None /\ job = None /\ reads = None /\ handler = None
     \/ /\ A!Init
        /\ NoReactor /\ NoEpoll /\ NoBuf /\ NoSelect /\ NoFork /\ NoSigio /\ NoReaping
        /\ NoEvent /\ asked = None /\ tree = None /\ job = None /\ out = None /\ reads = None
        /\ handler = None
  /\ program \in Chosen

(* The program that runs, and what its steps leave alone.                  *)
OnlyReactor == Runs({"epoll_reactor"})
  /\ UNCHANGED <<program, buf, selectVars, forkVars, handler, sigioVars, httpVars, reapVars, evs, aioVars>>
OnlyEpoll == Runs(E!Programs)
  /\ UNCHANGED <<NodeList, selectVars, forkVars, handler, sigioVars, httpVars, reapVars, evs, aioVars>>
OnlySelect == Runs(S!Programs)
  /\ UNCHANGED <<epollVars, NodeList, buf, forkVars, handler, sigioVars, httpVars, reapVars, evs, aioVars>>
OnlyFork == Runs(F!Programs)
  /\ UNCHANGED <<epollVars, NodeList, buf, selectVars, sigioVars, httpVars, reapVars, evs, aioVars>>
OnlySigio == Runs(G!Programs)
  /\ UNCHANGED <<epollVars, NodeList, buf, selectVars, forkVars, pc, httpVars, reapVars, evs, aioVars>>
OnlyHttp == Runs({"myhttpd"})
  /\ UNCHANGED <<program, epollVars, NodeList, buf, selectVars, forkVars, handler, sigioVars, reapVars, evs, aioVars>>
OnlyReaping == Runs(W!Programs)
  /\ UNCHANGED <<conn, fds, epollVars, NodeList, buf, selectVars, cfd, worker, holders, sigioVars, httpVars, evs, aioVars>>
OnlyEvent == Runs(L!Programs)
  /\ UNCHANGED <<epollVars, NodeList, buf, selectVars, forkVars, handler, sigioVars, asked, tree,
                 job, reads, reapVars, aioVars>>
OnlyAio == Runs({"aio_echo_server"})
  /\ UNCHANGED <<epollVars, NodeList, buf, selectVars, forkVars, handler, sigioVars, asked, tree,
                 job, out, reads, reapVars, evs>>

Next ==
  \/ OnlyReactor /\ R!Next
  \/ OnlyEpoll /\ E!Next
  \/ OnlySelect /\ S!Next
  \/ OnlyFork /\ F!Next
  \/ OnlySigio /\ G!Next
  \/ OnlyHttp /\ H!Next
  \/ OnlyReaping /\ W!Next
  \/ OnlyEvent /\ L!Next
  \/ OnlyAio /\ A!Next

Spec == Init /\ [][Next]_mcVars

(* The server runs on while it has something to do; the workers of         *)
(* ForkServers are scheduled independently of its main.                    *)
Serves ==
  \/ OnlyReactor /\ R!Server
  \/ OnlyEpoll /\ E!Server
  \/ OnlySelect /\ S!Server
  \/ OnlyFork /\ F!Main
  \/ OnlyHttp /\ H!Server
  \/ OnlyReaping /\ W!Parent
  \/ OnlyEvent /\ L!Server

Fairness ==
  /\ WF_mcVars(Serves)
  /\ \A c \in Clients : WF_mcVars(OnlyFork /\ F!Worker(c))

FairSpec == Spec /\ Fairness

Symmetry == Permutations(Clients)

-----------------------------------------------------------------------------
(* epoll_reactor.c: its events.                                            *)
NoStaleEvent == Runs({"epoll_reactor"}) => R!NoStaleEvent

(* The nodes, tables of connections and events of those that have them.    *)
TableAgrees ==
  /\ Runs({"epoll_reactor"}) => R!TableAgrees
  /\ Runs(S!Programs) => S!TableAgrees
  /\ Runs(L!Programs) => L!EventsAgree

(***************************************************************************)
(* A server that waits in epoll, select or poll waits nowhere else: what   *)
(* was reported to be ready still is when its turn comes.                  *)
(***************************************************************************)
NeverReadsDry ==
  /\ Runs(E!Programs) => E!NeverReadsDry
  /\ Runs(S!Programs) => S!NeverReadsDry

(* echo_server_multiprocess.c: descriptors that two processes hold.        *)
NothingLeaked == Runs(F!Programs) => F!NothingLeaked

(* aio_sigio.c, aio_sigio2.c: no arrival is overlooked.                    *)
NothingUnseen == Runs(G!Programs) => G!NothingUnseen

(* aio_echo_server.c: what is left when it ends.                           *)
EndsIdle == Runs({"aio_echo_server"}) => A!EndsIdle

(* myhttpd.c: one answer for each read, and a true one.                    *)
OneAnswerPerRead == Runs({"myhttpd"}) => H!OneAnswerPerRead
HonestAnswers ==
  [][Runs({"myhttpd"}) =>
       \A c \in Clients : Len(out'[c]) > Len(out[c]) => H!Honest(Last(out'[c]), job.seen)]_mcVars

(***************************************************************************)
(* Every server gives each client its own bytes back in order, and loses   *)
(* none while the connection is open.                                      *)
(***************************************************************************)
EchoExact ==
  /\ Runs({"epoll_reactor"}) => R!EchoExact
  /\ Runs(E!Programs) => E!EchoExact
  /\ Runs(S!Programs) => S!EchoExact
  /\ Runs(F!Programs) => F!EchoExact
  /\ Runs(G!Programs) => G!EchoExact
  /\ Runs(L!Programs) => L!EchoExact
  /\ Runs({"aio_echo_server"}) => A!EchoExact

(***************************************************************************)
(* A byte that reached an open connection is echoed in the end, unless the *)
(* connection is closed, the server ends, or SIGINT has it not read: no    *)
(* edge is lost and no connection starves. (A server driven by SIGIO does  *)
(* not promise this, see NothingUnseen.)                                   *)
(***************************************************************************)
EventuallyEchoed ==
  \A c \in Clients :
    (~ Runs(G!Programs \union W!Programs \union {"myhttpd", "aio_echo_server"}) /\ Open(c) /\ Len(conn[c].echoed) < conn[c].sent)
      ~> (~ Open(c) \/ Len(conn[c].echoed) = conn[c].sent
            \/ pc \in {"exited", "undefined"} \/ read_flag = FALSE)

(***************************************************************************)
(* myhttpd.c: who has sent anything is answered or gives up; no connection *)
(* stays open for ever once something arrived on it.                       *)
(***************************************************************************)
ClosedInTheEnd ==
  \A c \in Clients :
    (Runs({"myhttpd"}) /\ Open(c) /\ conn[c].sent > 0) ~> (~ Open(c) \/ pc = "exited")

(***************************************************************************)
(* echo_server_multiprocess.c, sigaction_child.c and the programs around   *)
(* wait: every child that ended is collected.                              *)
(***************************************************************************)
AllReaped ==
  /\ \A c \in Clients :
       (Runs(F!Programs) /\ worker[c].state = "zombie")
         ~> (Runs(F!Programs) => worker[c].state = "reaped")
  /\ (Runs(W!Programs) /\ \E c \in Children : child[c] = "zombie")
       ~> (Runs(W!Programs) => \A c \in Children : child[c] # "zombie")
=============================================================================
