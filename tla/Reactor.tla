------------------------------- MODULE Reactor -------------------------------
(***************************************************************************)
(* internet/epoll_reactor.c: an echo server on one epoll instance. A table *)
(* of nodes holds, per connection, its descriptor, its buffer and the      *)
(* callback for its next event; epoll hands back pointers to nodes. A      *)
(* connection is read until EAGAIN, then written back in pieces, then read *)
(* again; one that nothing happened on for over a minute is closed.        *)
(* The kernel side (socket queues, epoll, time) is external. A callback is *)
(* one step: nothing but the loop touches the table, and what clients send *)
(* while it runs might as well have come before. Bytes stand for blocks.   *)
(***************************************************************************)
EXTENDS Epoll

CONSTANTS EVENT_NODE_MAX, MAX_WRITE_BYTE

Nodes == 0 .. EVENT_NODE_MAX - 1
Listener == EVENT_NODE_MAX        \* the node of lfd

VARIABLES
  NodeList,   \* [fd, buf, pfunc, regArgs, status, age]; buf is what is left
              \* to write, age the minutes since lastAccess, more than 1 being 2
  pc          \* where EventLoop is

vars == <<NodeList, fds, interest, conn, pc, events>>

FreeNode ==
  [fd |-> None, buf |-> <<>>, pfunc |-> None, regArgs |-> FALSE,
   status |-> FALSE, age |-> 0]

Init ==
  /\ NodeList = [n \in Nodes |-> FreeNode]
  /\ InitPeers /\ InitEpoll
  /\ pc = "sweep"

-----------------------------------------------------------------------------
MinutePasses ==
  /\ NodeList' = [n \in Nodes |-> IF NodeList[n].status /\ NodeList[n].age < 2
                                  THEN [NodeList[n] EXCEPT !.age = @ + 1]
                                  ELSE NodeList[n]]
  /\ UNCHANGED <<fds, interest, conn, pc, events>>

-----------------------------------------------------------------------------
(* EventLoop: close what has been idle too long.                           *)
Expired == {n \in Nodes : NodeList[n].status /\ NodeList[n].age > 1}

(* A close that forgets the node, for mutation.                            *)
DelKeepsStatus(S) ==
  NodeList' = [n \in Nodes |->
    IF n \in S THEN [NodeList[n] EXCEPT !.buf = <<>>, !.regArgs = FALSE] ELSE NodeList[n]]

(* EventDel on the nodes S, whose address has been freed.                  *)
EventDel(S) ==
  NodeList' = [n \in Nodes |->
    IF n \in S THEN [NodeList[n] EXCEPT !.buf = <<>>, !.regArgs = FALSE, !.status = FALSE]
               ELSE NodeList[n]]

(* Unregisters and closes the descriptors of the nodes S.                  *)
Close(S) ==
  LET gone == {NodeList[n].fd : n \in S}
  IN  Unregister(gone) /\ CloseFds(gone)

Sweep ==
  /\ pc = "sweep"
  /\ EventDel(Expired)
  /\ Close(Expired)
  /\ pc' = "wait"
  /\ UNCHANGED events

EpollWait ==
  /\ pc = "wait"
  /\ epoll_wait(Listener)
  /\ pc' = "handle"
  /\ UNCHANGED <<NodeList, fds, conn>>

(* The time-out of one second, or a signal.                                *)
WaitEnds ==
  /\ pc = "wait"
  /\ Reports(Listener) = {}
  /\ pc' = "sweep"
  /\ UNCHANGED <<NodeList, fds, interest, conn, events>>

-----------------------------------------------------------------------------
(* The callbacks; each takes its event off the batch.                      *)
Handles(ptr) ==
  /\ pc = "handle"
  /\ events # <<>>
  /\ Head(events).ptr = ptr
  /\ events' = Tail(events)

BatchEnds ==
  /\ pc = "handle"
  /\ events = <<>>
  /\ pc' = "sweep"
  /\ UNCHANGED <<NodeList, fds, interest, conn, events>>

(* A search that ignores status, for mutation.                             *)
AnyNode == Nodes

(* What FindUnuseNode picks the first of.                                  *)
Unused == {n \in Nodes : ~ NodeList[n].status}

(* With a full table the client stays in the queue of lfd, which is level  *)
(* triggered.                                                              *)
AcceptFindsNoNode ==
  /\ Handles(Listener)
  /\ Unused = {}
  /\ UNCHANGED <<NodeList, fds, interest, conn, pc>>

(* FindUnuseNode, Accept, SetEventNode and EventAdd.                       *)
DoAccept(c) ==
  /\ Handles(Listener)
  /\ Unused # {}
  /\ Accepts(c)
  /\ LET index == Min(Unused)
     IN  /\ NodeList' = [NodeList EXCEPT ![index] =
               [fd |-> FreeFd, buf |-> <<>>, pfunc |-> "DoReadLoop", regArgs |-> TRUE,
                status |-> TRUE, age |-> 0]]
         /\ interest' = [interest EXCEPT ![FreeFd] = Registered(index, c, "IN|ET")]
  /\ UNCHANGED pc

(* An error on a connection ends the whole server: exit in the callback or *)
(* in Write.                                                               *)
Exits(n) ==
  /\ Handles(n)
  /\ conn[fds[NodeList[n].fd]].reset
  /\ pc' = "exited"
  /\ UNCHANGED <<NodeList, fds, interest, conn>>

(* DoReadLoop, by what ends its loop: a read of 0, which closes, whatever  *)
(* was read before in the same call, or EAGAIN.                            *)
ReadsEnd(n) ==
  LET c == fds[NodeList[n].fd]
  IN  /\ Handles(n)
      /\ NodeList[n].pfunc = "DoReadLoop"
      /\ conn[c].fin /\ ~ conn[c].reset
      /\ EventDel({n})
      /\ Close({n})
      /\ UNCHANGED pc

ReadsAll(n) ==
  LET f == NodeList[n].fd
      c == fds[f]
  IN  /\ Handles(n)
      /\ NodeList[n].pfunc = "DoReadLoop"
      /\ ~ conn[c].fin /\ ~ conn[c].reset
      /\ NodeList' = [NodeList EXCEPT ![n].buf = conn[c].unread,
                                      ![n].pfunc = "DoWrite", ![n].age = 0]
      /\ conn' = [conn EXCEPT ![c].unread = <<>>]
      /\ interest' = [interest EXCEPT ![f] = Registered(n, c, "OUT")]
      /\ UNCHANGED <<fds, pc>>

(* A write that forgets wIndex, for mutation.                              *)
WritesFromStart(buf, cnt) == SubSeq(buf, 1, Len(buf) - cnt)

(* What is left after cnt bytes were written: bufLen and wIndex.           *)
Left(buf, cnt) == SubSeq(buf, cnt + 1, Len(buf))

(* DoWrite: up to MAX_WRITE_BYTE, of which write takes some; back to       *)
(* reading when all is written.                                            *)
DoWrite(n) ==
  LET f == NodeList[n].fd
      c == fds[f]
      buf == NodeList[n].buf
  IN  /\ Handles(n)
      /\ NodeList[n].pfunc = "DoWrite"
      /\ ~ conn[c].reset
      /\ \E cnt \in 1 .. Len(buf) :
           /\ cnt <= MAX_WRITE_BYTE
           /\ conn' = [conn EXCEPT ![c].echoed = @ \o SubSeq(buf, 1, cnt)]
           /\ NodeList' = [NodeList EXCEPT ![n].buf = Left(buf, cnt), ![n].age = 0,
                             ![n].pfunc = IF cnt = Len(buf) THEN "DoReadLoop" ELSE @]
           /\ interest' = IF cnt = Len(buf)
                          THEN [interest EXCEPT ![f] = Registered(n, c, "IN|ET")]
                          ELSE interest
      /\ UNCHANGED <<fds, pc>>

Server ==
  \/ Sweep \/ EpollWait \/ WaitEnds \/ BatchEnds
  \/ AcceptFindsNoNode \/ \E c \in Clients : DoAccept(c)
  \/ \E n \in Nodes : Exits(n) \/ ReadsEnd(n) \/ ReadsAll(n) \/ DoWrite(n)

(* Clients and the clock.                                                  *)
Environment ==
  \/ \E c \in Clients :
       \/ Connects(c) /\ UNCHANGED <<NodeList, fds, interest, pc, events>>
       \/ Arrives(c) /\ Signals(c) /\ UNCHANGED <<NodeList, fds, pc, events>>
  \/ MinutePasses

Next == Server \/ (Environment /\ pc # "exited")

Spec == Init /\ [][Next]_vars

(* The loop never waits for anything but epoll_wait, which times out.      *)
FairSpec == Spec /\ WF_vars(Server)

-----------------------------------------------------------------------------
(***************************************************************************)
(* The node table, epoll and the open descriptors agree: each node in use  *)
(* owns one descriptor of its own and an address, is what epoll hands back *)
(* for it, with the event its callback is for; nothing is leaked.          *)
(***************************************************************************)
TableAgrees ==
  LET used == {n \in Nodes : NodeList[n].status}
  IN  /\ \A m, n \in used : NodeList[m].fd = NodeList[n].fd => m = n
      /\ {NodeList[n].fd : n \in used} = {f \in Fds : fds[f] # None}
      /\ {fds[f] : f \in Fds} \ {None} = {c \in Clients : Open(c)}
      /\ \A f \in Fds : interest[f] = None <=> fds[f] = None
      /\ \A n \in Nodes : NodeList[n].regArgs = NodeList[n].status
      /\ \A n \in used :
           LET e == interest[NodeList[n].fd]
           IN  e.ptr = n /\ (e.events = "OUT" <=> NodeList[n].pfunc = "DoWrite")

(***************************************************************************)
(* The node an event of the batch points to still is the node of the       *)
(* connection it was reported for, although callbacks run earlier in the   *)
(* same batch close connections and give their nodes to new ones.          *)
(***************************************************************************)
NoStaleEvent ==
  \A i \in 1 .. Len(events) :
    events[i].of # None =>
      /\ NodeList[events[i].ptr].status
      /\ fds[NodeList[events[i].ptr].fd] = events[i].of

(***************************************************************************)
(* Each client gets back its own bytes in order, and while its connection  *)
(* is open each byte it sent is echoed, in its node or still unread.       *)
(***************************************************************************)
InNode(c) ==
  LET n == CHOOSE n \in Nodes : NodeList[n].status /\ fds[NodeList[n].fd] = c
  IN  NodeList[n].buf

EchoExact == EchoedExactly(InNode)
=============================================================================
