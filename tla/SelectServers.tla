---------------------------- MODULE SelectServers ----------------------------
(***************************************************************************)
(* The echo servers of internet/ that wait in select or poll: select.c,    *)
(* select_wait_signal.c (which reads only while SIGINT has switched it     *)
(* on), echo_server_tcp_udp_select.c and poll.c. All keep a table of       *)
(* connections: the descriptor set, client_list, or fds. Their sockets     *)
(* block, so that a read with nothing to read would stop the server for    *)
(* everyone. A pass over what select reported handles the listener first,  *)
(* then the table from its first entry, then the datagrams. Handling one   *)
(* descriptor is one step.                                                 *)
(***************************************************************************)
EXTENDS Peers

CONSTANTS
  TABLE_MAX,      \* FD_SETSIZE or MAX_TCP_CLIENT as the last entry they leave,
                  \* OPEN_MAX - 1
  READ_MAX,       \* what one read takes
  Stacks,         \* the entries of poll's fds whose revents may be POLLIN
                  \* before poll first wrote them: fds is not initialised
  MaxDatagrams    \* bound: datagrams sent

VARIABLES
  program,
  table,       \* per entry the descriptor, or None
  stale,       \* the entries of fds with such a revents
  listening,   \* the pass has the listener to handle
  ready,       \* descriptors it has to handle: runRSet, or revents
  read_flag,
  datagrams,   \* [sent, queued, echoed]
  pc

vars == <<conn, fds, program, table, stale, listening, ready, read_flag, datagrams, pc>>

(* What the files differ in: whether it is poll; whether the table is the  *)
(* set of descriptors itself; whether SIGINT switches reading; whether     *)
(* there is a socket for datagrams too and a failed read is survived.      *)
select ==
  [poll |-> FALSE, byDescriptor |-> TRUE, switched |-> FALSE, udp |-> FALSE]
select_wait_signal ==
  [poll |-> FALSE, byDescriptor |-> TRUE, switched |-> TRUE, udp |-> FALSE]
echo_server_tcp_udp_select ==
  [poll |-> FALSE, byDescriptor |-> FALSE, switched |-> FALSE, udp |-> TRUE]
poll ==
  [poll |-> TRUE, byDescriptor |-> FALSE, switched |-> FALSE, udp |-> FALSE]

Features ==
  [select |-> select, select_wait_signal |-> select_wait_signal,
   echo_server_tcp_udp_select |-> echo_server_tcp_udp_select, poll |-> poll]

Programs == DOMAIN Features
is == Features[program]
Entries == 1 .. TABLE_MAX
udp == 0      \* udp_socket

Init ==
  /\ program \in Programs
  /\ InitPeers
  /\ table = [i \in Entries |-> None]
  /\ stale \in (IF is.poll THEN Stacks ELSE {{}})
  /\ listening = FALSE
  /\ ready = {}
  /\ read_flag = ~ is.switched
  /\ datagrams = [sent |-> 0, queued |-> 0, echoed |-> 0]
  /\ pc = "wait"

-----------------------------------------------------------------------------
Watched == {table[i] : i \in Entries} \ {None}

(* A pass over all connections, for mutation.                              *)
AllWatched == Watched

(* runRSet = allRSet and select, or poll.                                  *)
Reported == {f \in Watched : Readable(fds[f])}

Select ==
  /\ pc = "wait"
  /\ listening' = (Pending # {})
  /\ ready' = Reported \union (IF datagrams.queued > 0 THEN {udp} ELSE {})
  /\ listening' \/ ready' # {}
  /\ stale' = IF is.poll THEN stale \ {i \in Entries : table[i] # None} ELSE stale
  /\ pc' = "pass"
  /\ UNCHANGED <<conn, fds, program, table, read_flag, datagrams>>

PassEnds ==
  /\ pc = "pass"
  /\ ~ listening /\ ready = {}
  /\ pc' = "wait"
  /\ UNCHANGED <<conn, fds, program, table, stale, listening, ready, read_flag, datagrams>>

(* The entry a new descriptor goes to: the first free one, or, where the   *)
(* table is the descriptor set, its own.                                   *)
FirstFree == Min({i \in Entries : table[i] = None})
Full == IF is.byDescriptor THEN FreeFd > TABLE_MAX ELSE \A i \in Entries : table[i] # None

(* FD_SET, or the entry in client_list or fds; poll looks at its revents   *)
(* in this very pass, if the pass has more to do.                          *)
Enters(c) ==
  LET i == IF is.byDescriptor THEN FreeFd ELSE FirstFree
  IN  /\ table' = [table EXCEPT ![i] = FreeFd]
      /\ ready' = IF i \in stale /\ ready # {} THEN ready \union {FreeFd} ELSE ready
      /\ stale' = stale \ {i}

NewConnection(c) ==
  /\ pc = "pass" /\ listening
  /\ ~ Full
  /\ Accepts(c)
  /\ Enters(c)
  /\ listening' = FALSE
  /\ UNCHANGED <<program, read_flag, datagrams, pc>>

(* With a full table the connection is closed at once. poll.c then goes on *)
(* to write it into fds[OPEN_MAX]: what happens after that is undefined.   *)
TurnsAway(c) ==
  /\ pc = "pass" /\ listening
  /\ Full
  /\ Refuses(c)
  /\ listening' = FALSE
  /\ pc' = IF is.poll THEN "undefined" ELSE pc
  /\ UNCHANGED <<program, table, stale, ready, read_flag, datagrams>>

(* The descriptor whose turn it is, in the order of the table; the         *)
(* datagrams come last.                                                    *)
Turn ==
  IF ready = {udp} THEN udp
  ELSE table[Min({i \in Entries : table[i] \in ready})]

Handles(f) ==
  /\ pc = "pass" /\ ~ listening /\ ready # {}
  /\ f = Turn
  /\ ready' = ready \ {f}
  /\ UNCHANGED <<program, stale, listening, read_flag>>

PassesBy(f) ==
  /\ ~ read_flag
  /\ Handles(f)
  /\ UNCHANGED <<conn, fds, table, datagrams, pc>>

ReadsData(f) ==
  /\ read_flag /\ f # udp
  /\ Handles(f)
  /\ conn[fds[f]].unread # <<>> /\ ~ conn[fds[f]].reset
  /\ Echoes(fds[f], READ_MAX)
  /\ UNCHANGED <<fds, table, datagrams, pc>>

(* A close that leaves the descriptor in the table, for mutation.          *)
ClosesOnly(f) ==
  /\ CloseFds({f})
  /\ UNCHANGED table

(* FD_CLR, or the entry set to -1; and close.                              *)
Closes(f) ==
  /\ CloseFds({f})
  /\ table' = [i \in Entries |-> IF table[i] = f THEN None ELSE table[i]]

ReadsEnd(f) ==
  /\ read_flag /\ f # udp
  /\ Handles(f)
  /\ conn[fds[f]].unread = <<>>
  /\ \/ conn[fds[f]].fin /\ ~ conn[fds[f]].reset
     \/ conn[fds[f]].reset /\ is.udp
  /\ Closes(f)
  /\ UNCHANGED <<datagrams, pc>>

(* A read or a write on a connection that was reset; only the read of      *)
(* handler_tcp_read survives it.                                           *)
Exits(f) ==
  /\ read_flag /\ f # udp
  /\ Handles(f)
  /\ conn[fds[f]].reset
  /\ conn[fds[f]].unread = <<>> => ~ is.udp
  /\ pc' = "exited"
  /\ UNCHANGED <<conn, fds, table, datagrams>>

handler_udp_read ==
  /\ Handles(udp)
  /\ datagrams' = [datagrams EXCEPT !.queued = @ - 1, !.echoed = @ + 1]
  /\ UNCHANGED <<conn, fds, table, pc>>

Server ==
  \/ Select \/ PassEnds \/ handler_udp_read
  \/ \E c \in Clients : NewConnection(c) \/ TurnsAway(c)
  \/ \E f \in Fds : PassesBy(f) \/ ReadsData(f) \/ ReadsEnd(f) \/ Exits(f)

-----------------------------------------------------------------------------
SendsDatagram ==
  /\ is.udp
  /\ datagrams.sent < MaxDatagrams
  /\ datagrams' = [datagrams EXCEPT !.sent = @ + 1, !.queued = @ + 1]
  /\ UNCHANGED <<conn, fds, program, table, stale, listening, ready, read_flag, pc>>

sig_int ==
  /\ is.switched
  /\ read_flag' = ~ read_flag
  /\ UNCHANGED <<conn, fds, program, table, stale, listening, ready, datagrams, pc>>

Environment ==
  \/ SendsDatagram \/ sig_int
  \/ /\ \E c \in Clients : Connects(c) \/ Arrives(c)
     /\ UNCHANGED <<fds, program, table, stale, listening, ready, read_flag, datagrams, pc>>

Next == Server \/ (Environment /\ pc \in {"wait", "pass"})

Spec == Init /\ [][Next]_vars

-----------------------------------------------------------------------------
(***************************************************************************)
(* Each open connection has its descriptor in exactly one entry, and no    *)
(* entry outlives its connection: nothing is leaked or read after close.   *)
(***************************************************************************)
TableAgrees ==
  /\ \A i, j \in Entries : table[i] = table[j] /\ table[i] # None => i = j
  /\ Watched = {f \in Fds : fds[f] # None}
  /\ ready \subseteq Watched \union {udp}

(***************************************************************************)
(* The server waits nowhere but in select: what its next read is for has   *)
(* something to read. True of poll.c only if the memory of fds happened to *)
(* hold no POLLIN.                                                         *)
(***************************************************************************)
NeverReadsDry ==
  pc = "pass" /\ ~ listening /\ ready # {} /\ read_flag =>
    IF Turn = udp THEN datagrams.queued > 0 ELSE Readable(fds[Turn])

Nothing(c) == <<>>

EchoExact == EchoedExactly(Nothing)
=============================================================================
