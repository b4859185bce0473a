------------------------------ MODULE FdPassing ------------------------------
(***************************************************************************)
(* internet/unix_domain_socket_send_fd_server.c and _cli.c: a server makes *)
(* a connection to an echo server for every client and passes the          *)
(* descriptor over a UNIX socket. A connection lives while somebody refers *)
(* to it: the server, a message that was not received, or the client. What *)
(* the client then does with it is in EchoClients. The kernel is external. *)
(***************************************************************************)
EXTENDS Sequences, FiniteSets

CONSTANTS Clients

VARIABLES
  backlog,   \* of the listening socket
  serving,   \* the accepted client, as a set of at most one
  refs,      \* who refers to the connection made for a client
  cpc,       \* client: idle, recvmsg, has, gone
  spc        \* server: accept, connect, send, close, dead

vars == <<backlog, serving, refs, cpc, spc>>

Init ==
  /\ backlog = <<>> /\ serving = {}
  /\ refs = [c \in Clients |-> {}]
  /\ cpc = [c \in Clients |-> "idle"]
  /\ spc = "accept"

Goes(from, to) == spc = from /\ spc' = to

Refers(c, who) == refs' = [refs EXCEPT ![c] = who]

-----------------------------------------------------------------------------
(* What waits in the backlog is reset when the server is dead.             *)
Accept ==
  /\ Goes("accept", "connect") /\ backlog # <<>>
  /\ serving' = {Head(backlog)} /\ backlog' = Tail(backlog)
  /\ UNCHANGED <<refs, cpc>>

(* Every address is tried; when none answers the server exits.             *)
tcp_connect ==
  /\ \E c \in serving :
       \/ Goes("connect", "send") /\ Refers(c, {"server"}) /\ UNCHANGED serving
       \/ Goes("connect", "dead") /\ Refers(c, {}) /\ serving' = {}
  /\ UNCHANGED <<backlog, cpc>>

(* The SIGPIPE of a client that has gone ends the server.                  *)
send_fd_func ==
  /\ \E c \in serving :
       \/ /\ Goes("send", "close") /\ cpc[c] # "gone"
          /\ Refers(c, refs[c] \union {"message"})
          /\ UNCHANGED serving
       \/ Goes("send", "dead") /\ cpc[c] = "gone" /\ Refers(c, {}) /\ serving' = {}
  /\ UNCHANGED <<backlog, cpc>>

(* A server that keeps the descriptor it has passed on, for mutation.      *)
ClosesClientOnly ==
  /\ Goes("close", "accept")
  /\ serving' = {}
  /\ UNCHANGED <<refs, backlog, cpc>>

(* It does not wait for the client's recvmsg.                              *)
Closes ==
  /\ Goes("close", "accept")
  /\ \E c \in serving : Refers(c, refs[c] \ {"server"})
  /\ serving' = {}
  /\ UNCHANGED <<backlog, cpc>>

Server == Accept \/ tcp_connect \/ send_fd_func \/ Closes

-----------------------------------------------------------------------------
Connects(c) ==
  /\ cpc[c] = "idle"
  /\ IF spc = "dead" THEN cpc' = [cpc EXCEPT ![c] = "gone"] /\ UNCHANGED backlog
     ELSE cpc' = [cpc EXCEPT ![c] = "recvmsg"] /\ backlog' = Append(backlog, c)
  /\ UNCHANGED <<serving, refs, spc>>

recvmsg(c) ==
  /\ cpc[c] = "recvmsg"
  /\ \/ /\ "message" \in refs[c]
        /\ Refers(c, (refs[c] \ {"message"}) \union {"client"})
        /\ cpc' = [cpc EXCEPT ![c] = "has"]
     \/ /\ "message" \notin refs[c] /\ spc = "dead"
        /\ cpc' = [cpc EXCEPT ![c] = "gone"]
        /\ UNCHANGED refs
  /\ UNCHANGED <<backlog, serving, spc>>

(* At the end of its input or of the echo server's, or of a signal.        *)
Leaves(c) ==
  /\ cpc[c] \in {"recvmsg", "has"}
  /\ cpc' = [cpc EXCEPT ![c] = "gone"]
  /\ Refers(c, refs[c] \ {"message", "client"})
  /\ UNCHANGED <<backlog, serving, spc>>

Client(c) == Connects(c) \/ recvmsg(c) \/ Leaves(c)

Next == Server \/ \E c \in Clients : Client(c)

Spec == Init /\ [][Next]_vars
-----------------------------------------------------------------------------
(***************************************************************************)
(* A connection is open for a client that has it, or will as the server's  *)
(* close does not take back what is under way; it is not kept open for one *)
(* that has gone once the server is through with it.                       *)
(***************************************************************************)
OpenWhileUsed ==
  \A c \in Clients :
    /\ cpc[c] = "has" => "client" \in refs[c]
    /\ cpc[c] = "recvmsg" /\ spc # "dead" =>
         "message" \in refs[c] \/ c \in serving \/ c \in {backlog[k] : k \in DOMAIN backlog}
    /\ cpc[c] = "gone" /\ c \notin serving => refs[c] = {}
=============================================================================
