-------------------------------- MODULE Peers --------------------------------
(***************************************************************************)
(* What the echo servers of internet/ see of their clients: a connection   *)
(* each, with the bytes that arrived and were not read yet. The clients    *)
(* and the network are external; a byte stands for a block of them, and a  *)
(* client reads what it is sent, so that writing to it never waits.        *)
(***************************************************************************)
EXTENDS Naturals, Sequences, SequencesExt, FiniteSets, FiniteSetsExt

CONSTANTS
  Clients,
  None,       \* no client, no descriptor, no node
  MaxBytes,   \* bound: bytes a client sends
  Terse       \* bound: the clients that send one at most

VARIABLES
  conn,   \* per client [stage, sent, unread, echoed, fin, reset]; echoed is
          \* what it got back, or what the server printed if it prints
  fds     \* the connection behind each open descriptor of the server

(* The values of the bounds, and that None is nothing else.                *)
ASSUME PeersAssumption ==
  /\ IsFiniteSet(Clients)
  /\ None \notin Clients \union Nat
  /\ MaxBytes \in Nat

Fds == 1 .. Cardinality(Clients)   \* a client connects once

NoConn == [stage |-> "none", sent |-> 0, unread |-> <<>>, echoed |-> <<>>,
           fin |-> FALSE, reset |-> FALSE]

InitPeers ==
  /\ conn = [c \in Clients |-> NoConn]
  /\ fds = [f \in Fds |-> None]

Open(c) == conn[c].stage = "open"

Pending == {c \in Clients : conn[c].stage = "pending"}

Alive(c) == conn[c].stage \in {"pending", "open"} /\ ~ conn[c].reset

(* A read of the socket would not wait.                                    *)
Readable(c) == conn[c].unread # <<>> \/ conn[c].fin \/ conn[c].reset

Connects(c) ==
  /\ conn[c].stage = "none"
  /\ conn' = [conn EXCEPT ![c].stage = "pending"]

Sends(c) ==
  /\ Alive(c) /\ ~ conn[c].fin
  /\ conn[c].sent < IF c \in Terse THEN 1 ELSE MaxBytes
  /\ conn' = [conn EXCEPT ![c].sent = @ + 1,
                          ![c].unread = Append(@, <<c, conn[c].sent + 1>>)]

ShutsDown(c) ==
  /\ Alive(c) /\ ~ conn[c].fin
  /\ conn' = [conn EXCEPT ![c].fin = TRUE]

Resets(c) ==
  /\ Open(c) /\ Alive(c)
  /\ conn' = [conn EXCEPT ![c].reset = TRUE]

(* What the server is told of.                                             *)
Arrives(c) == Sends(c) \/ ShutsDown(c) \/ Resets(c)

-----------------------------------------------------------------------------
(* The server's calls. accept takes the lowest free descriptor.            *)
FreeFd == Min({f \in Fds : fds[f] = None})

Accepts(c) ==
  /\ c \in Pending
  /\ conn' = [conn EXCEPT ![c].stage = "open"]
  /\ fds' = [fds EXCEPT ![FreeFd] = c]

(* accept, and at once close.                                              *)
Refuses(c) ==
  /\ c \in Pending
  /\ conn' = [conn EXCEPT ![c].stage = "closed", ![c].unread = <<>>]
  /\ UNCHANGED fds

CloseFds(F) ==
  /\ fds' = [f \in Fds |-> IF f \in F THEN None ELSE fds[f]]
  /\ conn' = [c \in Clients |->
       IF \E f \in F : fds[f] = c THEN [conn[c] EXCEPT !.stage = "closed", !.unread = <<>>]
                                  ELSE conn[c]]

(* The first n bytes of a sequence, or all.                                *)
Upto(n, s) == SubSeq(s, 1, Min({n, Len(s)}))

(* A read of up to n bytes, whose echo or print is done before the next    *)
(* step.                                                                   *)
Echoes(c, n) ==
  conn' = [conn EXCEPT ![c].echoed = @ \o Upto(n, conn[c].unread),
                       ![c].unread = SubSeq(@, n + 1, Len(@))]

-----------------------------------------------------------------------------
Sent(c) == [i \in 1 .. conn[c].sent |-> <<c, i>>]

(* Each client gets back its own bytes in order, and while its connection  *)
(* is open each byte is echoed, in the server's hands, or still unread.    *)
EchoedExactly(InHand(_)) ==
  \A c \in Clients :
    /\ IsPrefix(conn[c].echoed, Sent(c))
    /\ Open(c) /\ Alive(c) => conn[c].echoed \o InHand(c) \o conn[c].unread = Sent(c)
=============================================================================
