------------------------------- MODULE Datagrams ------------------------------
(***************************************************************************)
(* Echo by datagram in internet/: over UNIX sockets                        *)
(* (unix_domain_socket_datagram_server.c and _client.c), where nothing is  *)
(* lost but sendto fails when the receiver has gone, and over UDP          *)
(* (udp_server.c, udp_server_ip.c), where a datagram may be lost. A client *)
(* sends a line and waits for the answer (udp_client.c), or waits in       *)
(* select for both (client_udp_allow_broadcast.c); that of                 *)
(* client_normal_udp_select.c is connected and disconnected by SIGINT, and *)
(* is told that nobody is there only while it is connected. The kernel is  *)
(* external; there is room for what is sent.                               *)
(***************************************************************************)
EXTENDS Naturals, Sequences

CONSTANTS
  Clients, None,
  LongNamed,    \* clients whose socket has a longer name
  MaxLines, MaxPorts   \* bounds: what a client sends, and how often it is disconnected

VARIABLES
  program,
  inbox,      \* of the server: <<client, its port, line>>
  received,   \* what the server answers next
  cliLen,     \* the length recvfrom has left in len
  server,     \* recvfrom, sendto, failed, killed
  box,        \* what came for each client, <<asker, line>>
  asked, heard,   \* lines sent, and the answer printed last
  status,     \* connected; the kernel's view is the same between two signals
  port,       \* the one in use; disconnecting gives it up
  icmp,       \* the port a "port unreachable" is on its way to
  err,        \* the error of the socket: none, pending, taken
  cpc         \* fgets, recvfrom, select, write, sendto, ended

wire == <<inbox, box, icmp>>
vars == <<program, wire, received, cliLen, server, asked, heard, status, port, err, cpc>>

Selecting == {"client_udp_allow_broadcast", "client_normal_udp_select"}
Programs == Selecting \union {"udp_client", "unix_domain_socket_datagram"}
Unix == program = "unix_domain_socket_datagram"

Nothing == <<None, 0>>

Init ==
  /\ program \in Programs
  /\ inbox = <<>> /\ received = None /\ cliLen = 2 /\ server = "recvfrom"
  /\ box = [c \in Clients |-> <<>>]
  /\ asked = [c \in Clients |-> 0]
  /\ heard = [c \in Clients |-> Nothing]
  /\ status = [c \in Clients |-> FALSE]
  /\ port = [c \in Clients |-> 0]
  /\ icmp = [c \in Clients |-> None]
  /\ err = [c \in Clients |-> "none"]
  /\ cpc = [c \in Clients |-> IF program \in Selecting THEN "select" ELSE "fgets"]

At(c, from) == cpc[c] = from /\ UNCHANGED program
Up == server \in {"recvfrom", "sendto"}
To(c, to) == cpc' = [cpc EXCEPT ![c] = to]

-----------------------------------------------------------------------------
(* The length of a UNIX address is that of its name.                       *)
AddrLen(c) == IF Unix /\ c \notin LongNamed THEN 1 ELSE 2

(* An address that does not fit is cut, and names nobody.                  *)
Receive(len) ==
  /\ server = "recvfrom" /\ inbox # <<>> /\ server' = "sendto"
  /\ LET d == Head(inbox)
     IN  /\ received' = IF AddrLen(d[1]) <= len THEN d ELSE <<None, 0, d[3]>>
         /\ cliLen' = AddrLen(d[1])
  /\ inbox' = Tail(inbox)
  /\ UNCHANGED <<program, box, icmp, asked, heard, status, port, err, cpc>>

(* The client of that name, or that port, if it is there.                  *)
Receivers ==
  {c \in Clients : c = received[1] /\ port[c] = received[2] /\ cpc[c] # "ended"}

Answers ==
  /\ server = "sendto" /\ server' = "recvfrom"
  /\ \E c \in Receivers : box' = [box EXCEPT ![c] = Append(@, <<c, received[3]>>)]
  /\ received' = None
  /\ UNCHANGED <<program, inbox, icmp, cliLen, asked, heard, status, port, err, cpc>>

NoAnswer(to) ==
  /\ server = "sendto" /\ server' = to
  /\ received' = None
  /\ UNCHANGED <<program, wire, cliLen, asked, heard, status, port, err, cpc>>

(* A server that goes on with the last length, for mutation.               *)
LenAsLeft == cliLen

(* unix_domain_socket_datagram_server.c: len = sizeof(cliAddr) before each *)
(* recvfrom.                                                               *)
FullLen == 2

UnixServer ==
  \/ Receive(FullLen)
  \/ Answers
  \/ NoAnswer("failed") /\ Receivers = {}

(* The UDP servers go on with what is left in len; all addresses have the  *)
(* same. An answer may be lost.                                            *)
UdpServer == Receive(cliLen) \/ Answers \/ NoAnswer("recvfrom")

Killed ==
  /\ Up /\ server' = "killed" /\ UNCHANGED program
  /\ inbox' = <<>> /\ received' = None
  /\ UNCHANGED <<box, icmp, cliLen, asked, heard, status, port, err, cpc>>

Server == IF Unix THEN UnixServer \/ Killed ELSE UdpServer \/ Killed

-----------------------------------------------------------------------------
(* A line goes out: it arrives, is lost, or finds nobody.                  *)
Sends(c, line) ==
  IF Up
  THEN /\ UNCHANGED icmp
       /\ \/ inbox' = Append(inbox, <<c, port[c], line>>)
          \/ ~ Unix /\ UNCHANGED inbox
  ELSE icmp' = [icmp EXCEPT ![c] = port[c]] /\ UNCHANGED inbox

More(c) == asked[c] < MaxLines /\ asked' = [asked EXCEPT ![c] = @ + 1]

Asks(c) ==
  /\ At(c, "fgets") /\ To(c, "recvfrom") /\ More(c)
  /\ Unix => Up
  /\ Sends(c, asked[c] + 1)
  /\ UNCHANGED <<box, received, cliLen, server, heard, status, port, err>>

(* The client of UNIX sockets: sendto fails when the server has gone.      *)
AsksNobody(c) ==
  /\ At(c, "fgets") /\ To(c, "ended") /\ More(c)
  /\ Unix /\ ~ Up
  /\ UNCHANGED <<wire, received, cliLen, server, heard, status, port, err>>

Prints(c) ==
  /\ box[c] # <<>>
  /\ heard' = [heard EXCEPT ![c] = Head(box[c])]
  /\ box' = [box EXCEPT ![c] = Tail(@)]

(* A client that does not wait for ever, for mutation.                     *)
HearsOrGivesUp(c) ==
  /\ At(c, "recvfrom") /\ To(c, "fgets")
  /\ Prints(c) \/ UNCHANGED <<box, heard>>
  /\ UNCHANGED <<inbox, icmp, received, cliLen, server, asked, status, port, err>>

Hears(c) ==
  /\ At(c, "recvfrom") /\ To(c, "fgets")
  /\ Prints(c)
  /\ UNCHANGED <<inbox, icmp, received, cliLen, server, asked, status, port, err>>

(* SIGINT and SIGQUIT; in client_normal_udp_select.c only the end of stdin.*)
Leaves(c) ==
  /\ cpc[c] # "ended" /\ To(c, "ended") /\ UNCHANGED program
  /\ program = "client_normal_udp_select" => cpc[c] = "select"
  /\ box' = [box EXCEPT ![c] = <<>>]
  /\ UNCHANGED <<inbox, icmp, received, cliLen, server, asked, heard, status, port, err>>

(* str_cli: select, and the socket or stdin. What select reports of the    *)
(* socket stays true: datagrams and errors wait, whatever SIGINT does.     *)
Hurts(c) == err[c] = "pending" /\ err' = [err EXCEPT ![c] = "taken"]

(* The result of recvfrom not looked at, for mutation.                     *)
ReceivesAny(c) ==
  /\ At(c, "select")
  /\ \/ Hurts(c) /\ UNCHANGED <<cpc, box, heard>>
     \/ err[c] # "pending" /\ Prints(c) /\ UNCHANGED <<err, cpc>>
  /\ UNCHANGED <<inbox, icmp, received, cliLen, server, asked, status, port>>

Receives(c) ==
  /\ At(c, "select")
  /\ \/ Hurts(c) /\ To(c, "ended") /\ UNCHANGED <<box, heard>>
     \/ err[c] # "pending" /\ Prints(c) /\ UNCHANGED <<err, cpc>>
  /\ UNCHANGED <<inbox, icmp, received, cliLen, server, asked, status, port>>

(* read from stdin, and the look at status.                                *)
Types(c) ==
  /\ At(c, "select") /\ More(c)
  /\ To(c, IF status[c] THEN "write" ELSE "sendto")
  /\ UNCHANGED <<wire, received, cliLen, server, heard, status, port, err>>

(* write needs a socket that is still connected; sendto does not care.     *)
Speaks(c) ==
  /\ cpc[c] \in {"write", "sendto"} /\ UNCHANGED program
  /\ \/ Hurts(c) /\ To(c, "ended") /\ UNCHANGED <<inbox, icmp>>
     \/ /\ err[c] # "pending" /\ UNCHANGED err
        /\ IF cpc[c] = "write" /\ ~ status[c] THEN To(c, "ended") /\ UNCHANGED <<inbox, icmp>>
           ELSE Sends(c, asked[c]) /\ To(c, "select")
  /\ UNCHANGED <<box, received, cliLen, server, asked, heard, status, port>>

(* do_connect or disconnect, anywhere. A socket that was never bound by    *)
(* hand gives up its port when it is disconnected.                         *)
sig_int(c) ==
  /\ program = "client_normal_udp_select" /\ UNCHANGED program
  /\ cpc[c] # "ended"
  /\ status[c] => port[c] < MaxPorts
  /\ status' = [status EXCEPT ![c] = ~ @]
  /\ port' = [port EXCEPT ![c] = IF status[c] THEN @ + 1 ELSE @]
  /\ UNCHANGED <<wire, received, cliLen, server, asked, heard, err, cpc>>

(* An ICMP error counts only for the connected socket on its port.         *)
Unreachable(c) ==
  /\ icmp[c] # None /\ icmp' = [icmp EXCEPT ![c] = None] /\ UNCHANGED program
  /\ err' = IF status[c] /\ port[c] = icmp[c] /\ cpc[c] # "ended"
            THEN [err EXCEPT ![c] = "pending"] ELSE err
  /\ UNCHANGED <<inbox, box, received, cliLen, server, asked, heard, status, port, cpc>>

str_cli(c) == Receives(c) \/ Types(c) \/ Speaks(c)

Client(c) ==
  \/ Asks(c) \/ AsksNobody(c) \/ Hears(c) \/ Leaves(c) \/ str_cli(c)
  \/ sig_int(c) \/ Unreachable(c)

Next == Server \/ \E c \in Clients : Client(c)

Spec == Init /\ [][Next]_vars
-----------------------------------------------------------------------------
(***************************************************************************)
(* A client is only ever told its own lines, and one that asks and waits   *)
(* in turn always the line it asked for last.                              *)
(***************************************************************************)
OwnAnswers ==
  \A c \in Clients :
    /\ heard[c] # Nothing => heard[c][1] = c /\ heard[c][2] \in 1 .. asked[c]
    /\ cpc[c] = "fgets" => heard[c][2] = asked[c]

(***************************************************************************)
(* The server of UNIX sockets fails for a client that has gone at most:    *)
(* the names of others, longer or shorter, do not matter                   *)
(* (unix_domain_socket_datagram_server.c:39).                              *)
(***************************************************************************)
FailsForTheGone ==
  server = "failed" => \E c \in Clients : cpc[c] = "ended"

(***************************************************************************)
(* Over UNIX sockets nobody waits for an answer that is not under way as   *)
(* long as the server is there, and an error that the kernel reports of a  *)
(* connected UDP socket (client_normal_udp_select.c:5) ends the client.    *)
(***************************************************************************)
AnswerOrError ==
  \A c \in Clients :
    /\ Unix /\ Up /\ cpc[c] = "recvfrom" =>
         \/ box[c] # <<>>
         \/ received # None /\ received[1] = c
         \/ \E k \in DOMAIN inbox : inbox[k][1] = c
    /\ err[c] = "taken" => cpc[c] = "ended"
=============================================================================
