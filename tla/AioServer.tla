------------------------------ MODULE AioServer ------------------------------
(***************************************************************************)
(* internet/aio_echo_server.c: main accepts, and each connection is one    *)
(* request to the aio library at a time, a read or a write, whose callback *)
(* runs in a thread of its own and makes the next request. The library is  *)
(* external: it runs every request at once, having more threads than there *)
(* are nodes, so that aio_cancel finds nothing it could cancel.            *)
(* Left out: updates of actCnt that get lost, ++ and -- being one          *)
(* instruction each and one processor assumed.                             *)
(***************************************************************************)
EXTENDS Peers

CONSTANT AIOCB_CNT

VARIABLES
  program,
  gNodeList,   \* per node [status, fd, phase, buf, told]; phase is the request
               \* that runs, "read" or "write", "failed", or "none"
  actCnt,
  leaving,     \* per client its callback after status = 0: [idx, at]
  taken,       \* main: the node and the descriptor of a new connection
  quit,        \* gQuitFlag
  pc           \* main, or "ended" by main, "exited", "undefined"

aioVars == <<gNodeList, actCnt, leaving, taken>>
vars == <<conn, fds, program, aioVars, quit, pc>>

Nodes == 0 .. AIOCB_CNT - 1

NotLeaving == [idx |-> None, at |-> "no"]

Init ==
  /\ program = "aio_echo_server"
  /\ InitPeers
  /\ gNodeList = [i \in Nodes |-> [status |-> FALSE, fd |-> None, phase |-> "none", buf |-> <<>>,
                               told |-> FALSE]]
  /\ actCnt = 0
  /\ leaving = [c \in Clients |-> NotLeaving]
  /\ taken = None
  /\ quit = FALSE
  /\ pc = "loop"

Running == pc \notin {"ended", "exited", "undefined"}

MainGoes(from, to) == pc = from /\ pc' = to /\ UNCHANGED <<program, quit>>

GetUnusedNode == {i \in Nodes : ~ gNodeList[i].status}

-----------------------------------------------------------------------------
(* main.                                                                   *)
(* The look at aio_error, at the end of a turn.                            *)
Failed == \E i \in Nodes : gNodeList[i].status /\ gNodeList[i].phase = "failed"

Checks == MainGoes("loop", "exited") /\ Failed /\ UNCHANGED <<conn, fds, aioVars>>

(* A server that ends as soon as it is told to, for mutation.              *)
EndsAtOnce ==
  /\ MainGoes("loop", "ended")
  /\ ~ Failed /\ quit
  /\ UNCHANGED <<conn, fds, aioVars>>

(* After which FreeNodeList frees the buffers.                             *)
Ends ==
  /\ MainGoes("loop", "ended")
  /\ ~ Failed /\ quit /\ actCnt = 0
  /\ UNCHANGED <<conn, fds, aioVars>>

Turns ==
  /\ MainGoes("loop", "accept")
  /\ ~ Failed /\ ~ quit
  /\ UNCHANGED <<conn, fds, aioVars>>

(* accept, which SIGINT does not end but the alarm does.                   *)
AcceptAlarm == MainGoes("accept", "loop") /\ UNCHANGED <<conn, fds, aioVars>>

AcceptsFull(c) ==
  /\ MainGoes("accept", "loop")
  /\ GetUnusedNode = {}
  /\ Refuses(c)
  /\ UNCHANGED aioVars

AcceptsOne(c) ==
  /\ MainGoes("accept", "start")
  /\ GetUnusedNode # {}
  /\ Accepts(c)
  /\ taken' = [idx |-> Min(GetUnusedNode), fd |-> FreeFd]
  /\ gNodeList' = [gNodeList EXCEPT ![taken'.idx].status = TRUE]
  /\ UNCHANGED <<actCnt, leaving>>

Starts ==
  /\ MainGoes("start", "loop")
  /\ actCnt' = actCnt + 1
  /\ gNodeList' = [gNodeList EXCEPT ![taken.idx].fd = taken.fd, ![taken.idx].phase = "read"]
  /\ taken' = None
  /\ UNCHANGED <<conn, fds, leaving>>

Main ==
  \/ Checks \/ Turns \/ Ends \/ AcceptAlarm \/ Starts
  \/ \E c \in Clients : AcceptsFull(c) \/ AcceptsOne(c)

-----------------------------------------------------------------------------
Behind(i) == fds[gNodeList[i].fd]

Becomes(i, phase, buf) ==
  gNodeList' = [gNodeList EXCEPT ![i].phase = phase, ![i].buf = buf]

(* A callback gives up its node, then counts, then closes what the node    *)
(* names as its descriptor by then.                                        *)
Leaves(i) ==
  /\ gNodeList' = [gNodeList EXCEPT ![i].status = FALSE, ![i].phase = "none",
                                    ![i].buf = <<>>, ![i].told = FALSE]
  /\ leaving' = [leaving EXCEPT ![Behind(i)] = [idx |-> i, at |-> "count"]]

(* The library has done the read of a node and calls read_cb. An error is  *)
(* reported once, after that the end.                                      *)
Fails(i) == conn[Behind(i)].reset /\ ~ gNodeList[i].told

read_cb(i) ==
  /\ Running /\ gNodeList[i].phase = "read" /\ Readable(Behind(i))
  /\ LET c == Behind(i)
     IN  \/ Fails(i) /\ Becomes(i, "failed", <<>>) /\ UNCHANGED <<conn, leaving>>
         \/ /\ ~ conn[c].reset /\ conn[c].unread # <<>>
            /\ Becomes(i, "write", conn[c].unread)
            /\ conn' = [conn EXCEPT ![c].unread = <<>>]
            /\ UNCHANGED leaving
         \/ /\ ~ Fails(i) /\ (conn[c].reset \/ conn[c].unread = <<>>)
            /\ Leaves(i)
            /\ UNCHANGED conn
  /\ UNCHANGED <<fds, program, actCnt, taken, quit, pc>>

(* read_cb after a read that failed, if main does not see that first: it   *)
(* writes bufp[-1], and asks for -1 bytes to be written.                   *)
read_cb_failed(i) ==
  /\ Running /\ gNodeList[i].phase = "failed"
  /\ pc' = "undefined"
  /\ UNCHANGED <<conn, fds, program, aioVars, quit>>

(* main sees the error of a write before write_cb has made the next read.  *)
WriteFails(i) ==
  /\ Running /\ gNodeList[i].phase = "write" /\ conn[Behind(i)].reset
  /\ pc' = "exited"
  /\ UNCHANGED <<conn, fds, program, aioVars, quit>>

(* The library has done a write, which a reset connection does not take.   *)
write_cb(i) ==
  /\ Running /\ gNodeList[i].phase = "write"
  /\ LET c == Behind(i)
     IN  /\ IF quit THEN Leaves(i)
            ELSE /\ gNodeList' = [gNodeList EXCEPT ![i].phase = "read", ![i].buf = <<>>,
                                                   ![i].told = conn[c].reset]
                 /\ UNCHANGED leaving
         /\ conn' = IF conn[c].reset THEN conn
                    ELSE [conn EXCEPT ![c].echoed = @ \o gNodeList[i].buf]
  /\ UNCHANGED <<fds, program, actCnt, taken, quit, pc>>

Counts(c) ==
  /\ Running /\ leaving[c].at = "count"
  /\ actCnt' = actCnt - 1
  /\ leaving' = [leaving EXCEPT ![c].at = "close"]
  /\ UNCHANGED <<conn, fds, program, gNodeList, taken, quit, pc>>

(* If main has given the node to a new connection meanwhile, that one is   *)
(* closed under its request: the end of what the model defines.            *)
Closes(c) ==
  /\ Running /\ leaving[c].at = "close"
  /\ leaving' = [leaving EXCEPT ![c] = NotLeaving]
  /\ IF Behind(leaving[c].idx) = c
     THEN CloseFds({gNodeList[leaving[c].idx].fd}) /\ UNCHANGED pc
     ELSE pc' = "undefined" /\ UNCHANGED <<conn, fds>>
  /\ UNCHANGED <<program, gNodeList, actCnt, taken, quit>>

Thread ==
  \/ \E i \in Nodes : read_cb(i) \/ read_cb_failed(i) \/ WriteFails(i) \/ write_cb(i)
  \/ \E c \in Clients : Counts(c) \/ Closes(c)

(* aio_cancel finds the requests running. Between status = 1 and the new   *)
(* descriptor it is given the old one, and the handler exits if that one   *)
(* is closed.                                                              *)
sig_int ==
  /\ Running /\ ~ quit
  /\ quit' = TRUE
  /\ IF \E i \in Nodes : gNodeList[i].status /\ gNodeList[i].fd # None /\ Behind(i) = None
     THEN pc' = "exited" ELSE UNCHANGED pc
  /\ UNCHANGED <<conn, fds, program, aioVars>>

Environment ==
  /\ \E c \in Clients : Connects(c) \/ Arrives(c)
  /\ UNCHANGED <<fds, program, aioVars, quit, pc>>

Next == Main \/ Thread \/ sig_int \/ (Environment /\ Running)

Spec == Init /\ [][Next]_vars
-----------------------------------------------------------------------------
(***************************************************************************)
(* When the server ends after SIGINT and frees the buffers, no request and *)
(* no callback is left that would use one, however callbacks, SIGINT and   *)
(* accept interleave.                                                      *)
(***************************************************************************)
EndsIdle == pc = "ended" => \A i \in Nodes : gNodeList[i].phase = "none"

InNode(c) ==
  LET mine == {i \in Nodes : gNodeList[i].phase # "none" /\ Behind(i) = c}
  IN  IF mine = {} THEN <<>> ELSE gNodeList[CHOOSE i \in mine : TRUE].buf

EchoExact == pc # "undefined" => EchoedExactly(InNode)
=============================================================================
