----------------------------- MODULE EchoClients -----------------------------
(***************************************************************************)
(* The clients that take a connection from the keyboard: internet's        *)
(* client_normal_select.c (with select, or with -i as a source that never  *)
(* reads), client_normal2.c (a line, an answer) and                        *)
(* unix_domain_socket_send_fd_cli.c (a socket it was given), libevent's    *)
(* libevent_stream_client_2.c (stdin as an event) and                      *)
(* libevent_stream_client.c (stdin in a thread). The user and the server,  *)
(* which echoes with one blocking read and write at a time, are external,  *)
(* and so are the socket buffers, which have room for CAP units each way.  *)
(* What is at stake is who waits for whom, so bytes are counted only.      *)
(***************************************************************************)
EXTENDS Naturals

CONSTANTS
  CHUNK,      \* what a client takes from stdin, or select's from its server, at once
  READ,       \* what the server reads at once
  CAP,
  MaxTyped    \* bound: what the user types

VARIABLES
  program,
  eof,        \* the end of the input was seen
  typed, left, up, hand, down, printed,  \* taken from stdin, in the client's
              \* hands, on the way, in the server's, on the way back, printed
  server,     \* "open", "finished" after the client's end, "left" before it
  ready,      \* what select reported
  shut,       \* client_normal2.c: SIGINT shut the reading side
  pc

wire == <<up, hand, down>>
vars == <<program, eof, typed, left, wire, printed, server, ready, shut, pc>>

Events == {"libevent_stream_client", "libevent_stream_client_2"}

Programs ==
  {"client_normal_select", "client_normal_select -i", "client_normal2",
   "unix_domain_socket_send_fd_cli"} \union Events

Least(a, b) == IF a < b THEN a ELSE b

Init ==
  /\ program \in Programs
  /\ eof = FALSE /\ shut = FALSE
  /\ typed = 0 /\ left = 0 /\ up = 0 /\ hand = 0 /\ down = 0 /\ printed = 0
  /\ server = "open"
  /\ ready = {}
  /\ pc = CASE program \in {"client_normal_select", "unix_domain_socket_send_fd_cli"} -> "select"
            [] program = "client_normal_select -i" -> "source"
            [] program = "client_normal2" -> "line"
            [] OTHER -> "loop"

Runs(P) == program \in P /\ UNCHANGED program

Goes(from, to) == pc = from /\ pc' = to

Types(n) == typed + n <= MaxTyped /\ typed' = typed + n

(* write(2) blocks until all is in the socket buffer. Once the server is   *)
(* gone, the first is lost and a later one ends the client.                *)
Writes(next) ==
  /\ pc = "write"
  /\ \/ /\ server = "open" /\ up < CAP
        /\ LET n == Least(left, CAP - up)
           IN  /\ up' = up + n /\ left' = left - n
               /\ pc' = IF left' = 0 THEN next ELSE "write"
     \/ server # "open" /\ left' = 0 /\ pc' \in {next, "exited"} /\ UNCHANGED up
  /\ UNCHANGED <<eof, typed, hand, down, printed, server, ready, shut>>

Reads(n) == down' = down - n /\ printed' = printed + n

-----------------------------------------------------------------------------
(* client_normal_select.c: str_cli.                                        *)
Select(next) ==
  /\ Goes("select", next)
  /\ \E user \in SUBSET {"stdin"} :
       /\ eof => user = {}
       /\ ready' = user \union (IF down > 0 \/ server # "open" THEN {"server"} ELSE {})
  /\ ready' # {}
  /\ UNCHANGED <<eof, typed, left, wire, printed, server, shut>>

(* A client that has no eye for its server while there is input, for       *)
(* mutation.                                                               *)
TypesFirst ==
  /\ pc = "server"
  /\ \/ "stdin" \in ready /\ pc' = "stdin" /\ UNCHANGED <<down, printed>>
     \/ "stdin" \notin ready /\ down > 0 /\ pc' = "stdin" /\ Reads(Least(CHUNK, down))
     \/ "stdin" \notin ready /\ down = 0 /\ pc' = "fin" /\ UNCHANGED <<down, printed>>
  /\ UNCHANGED <<eof, typed, left, up, hand, server, ready, shut>>

Hears(from, next, end) ==
  /\ pc = from
  /\ \/ "server" \notin ready /\ pc' = next /\ UNCHANGED <<down, printed>>
     \/ "server" \in ready /\ down > 0 /\ pc' = next /\ Reads(Least(CHUNK, down))
     \/ "server" \in ready /\ down = 0 /\ pc' = end /\ UNCHANGED <<down, printed>>
  /\ UNCHANGED <<eof, typed, left, up, hand, server, ready, shut>>

ReadsServer == Hears("server", "stdin", "fin")

ReadsStdin ==
  /\ pc = "stdin"
  /\ \/ "stdin" \notin ready /\ pc' = "select" /\ UNCHANGED <<typed, left>>
     \/ "stdin" \in ready /\ \E n \in 1 .. CHUNK : Types(n) /\ left' = n /\ pc' = "write"
  /\ UNCHANGED <<eof, wire, printed, server, ready, shut>>

(* A client that closes instead, for mutation.                             *)
Leaves ==
  /\ Goes("stdin", "fin")
  /\ "stdin" \in ready
  /\ eof' = TRUE
  /\ server' \in {server, "finished"}
  /\ UNCHANGED <<typed, left, wire, printed, ready, shut>>

ShutsDown ==
  /\ Goes("stdin", "select")
  /\ "stdin" \in ready
  /\ eof' = TRUE
  /\ UNCHANGED <<typed, left, wire, printed, server, ready, shut>>

str_cli == Select("server") \/ ReadsServer \/ ReadsStdin \/ ShutsDown \/ Writes("select")

(* With -i: what fits of 1000 bytes every 0.1 s, and nothing is ever read. *)
source_socket_handler ==
  /\ pc = "source"
  /\ \/ server # "open" /\ pc' = "exited" /\ UNCHANGED <<typed, up>>
     \/ /\ server = "open"
        /\ LET n == Least(CHUNK, CAP - up) IN Types(n) /\ up' = up + n
        /\ UNCHANGED pc
  /\ UNCHANGED <<eof, left, hand, down, printed, server, ready, shut>>

(* unix_domain_socket_send_fd_cli.c: stdin first, and its end is the end.  *)
do_write ==
  /\ pc = "do_write"
  /\ \/ "stdin" \notin ready /\ pc' = "do_read" /\ UNCHANGED <<eof, typed, left>>
     \/ "stdin" \in ready /\ \E n \in 1 .. CHUNK : Types(n) /\ left' = n /\ pc' = "write" /\ UNCHANGED eof
     \/ "stdin" \in ready /\ eof' = TRUE /\ pc' = "exited" /\ UNCHANGED <<typed, left>>
  /\ UNCHANGED <<wire, printed, server, ready, shut>>

do_read == Hears("do_read", "select", "exited")

send_fd_cli == Select("do_write") \/ do_write \/ Writes("do_read") \/ do_read

-----------------------------------------------------------------------------
(* client_normal2.c.                                                       *)
TakesLine ==
  /\ \/ Goes("line", "write") /\ \E n \in 1 .. CHUNK : Types(n) /\ left' = n /\ UNCHANGED eof
     \/ Goes("line", "closed") /\ eof' = TRUE /\ UNCHANGED <<typed, left>>
  /\ UNCHANGED <<wire, printed, server, ready, shut>>

(* One read, whose buffer has room for ten lines.                          *)
TakesAnswer ==
  /\ \/ Goes("answer", "line") /\ down > 0 /\ Reads(down)
     \/ Goes("answer", "exited") /\ down = 0 /\ (server # "open" \/ shut)
        /\ UNCHANGED <<down, printed>>
  /\ UNCHANGED <<eof, typed, left, up, hand, server, ready, shut>>

sig_int ==
  /\ pc \in {"line", "write", "answer"} /\ ~ shut
  /\ shut' = TRUE
  /\ UNCHANGED <<eof, typed, left, wire, printed, server, ready, pc>>

line_by_line == TakesLine \/ Writes("answer") \/ TakesAnswer \/ sig_int

-----------------------------------------------------------------------------
(* The event loops; left is the output buffer of the bufferevent. The pc   *)
(* goes loop, leaving after event_base_loopexit, freed with the            *)
(* bufferevent, ended.                                                     *)
Looping == pc \in {"loop", "leaving"}

(* A write to a freed bufferevent, or of the thread while the loop is at   *)
(* the same, for want of a lock, ends what is defined.                     *)
stdin_read ==
  /\ pc \in {"loop", "leaving", "freed"} /\ ~ eof
  /\ \E n \in 1 .. CHUNK :
       /\ Types(n)
       /\ \/ Looping /\ left' = left + n /\ UNCHANGED pc
          \/ /\ pc = "freed" \/ program = "libevent_stream_client"
             /\ pc' = "undefined" /\ UNCHANGED left
  /\ UNCHANGED <<eof, wire, printed, server, ready, shut>>

(* The end of the input ends the thread; as an event it tells nothing.     *)
StdinEnds ==
  /\ pc \in {"loop", "leaving", "freed"} /\ ~ eof
  /\ eof' = TRUE
  /\ UNCHANGED <<typed, left, wire, printed, server, ready, shut, pc>>

LoopWrites ==
  /\ Looping /\ left > 0
  /\ \/ /\ server = "open"
        /\ \E n \in 1 .. Least(left, CAP - up) : up' = up + n /\ left' = left - n
        /\ UNCHANGED pc
     \/ /\ server # "open"
        /\ \/ left' = 0 /\ UNCHANGED pc
           \/ pc' = "exited" /\ UNCHANGED left
        /\ UNCHANGED up
  /\ UNCHANGED <<eof, typed, hand, down, printed, server, ready, shut>>

read_cb ==
  /\ Looping
  /\ \E n \in 1 .. down : Reads(n)
  /\ UNCHANGED <<eof, typed, left, up, hand, server, ready, shut, pc>>

(* One frees at once and has the loop go on for a second, the other frees  *)
(* after the loop.                                                         *)
event_cb ==
  /\ Looping /\ down = 0 /\ server # "open"
  /\ pc' = IF program = "libevent_stream_client_2" THEN "freed" ELSE "leaving"
  /\ UNCHANGED <<eof, typed, left, wire, printed, server, ready, shut>>

sigint ==
  /\ Goes("loop", "leaving")
  /\ UNCHANGED <<eof, typed, left, wire, printed, server, ready, shut>>

LoopExits ==
  /\ \/ Goes("leaving", "freed") /\ program = "libevent_stream_client"
     \/ Goes("leaving", "ended") /\ program = "libevent_stream_client_2"
     \/ Goes("freed", "ended")
  /\ UNCHANGED <<eof, typed, left, wire, printed, server, ready, shut>>

event_loop ==
  stdin_read \/ StdinEnds \/ LoopWrites \/ read_cb \/ event_cb \/ sigint \/ LoopExits

Client ==
  \/ Runs({"client_normal_select"}) /\ str_cli
  \/ Runs({"client_normal_select -i"}) /\ source_socket_handler
  \/ Runs({"unix_domain_socket_send_fd_cli"}) /\ send_fd_cli
  \/ Runs({"client_normal2"}) /\ line_by_line
  \/ Runs(Events) /\ event_loop

-----------------------------------------------------------------------------
(* The server. It finishes when the client has; it may leave at any time.  *)
Serves ==
  /\ server = "open"
  /\ \/ /\ hand = 0
        /\ \E n \in 1 .. Least(READ, up) : hand' = n /\ up' = up - n
        /\ UNCHANGED down
     \/ /\ hand > 0 /\ down < CAP
        /\ LET n == Least(hand, CAP - down) IN down' = down + n /\ hand' = hand - n
        /\ UNCHANGED up
  /\ UNCHANGED <<program, eof, typed, left, printed, server, ready, shut, pc>>

Departs ==
  /\ server = "open"
  /\ server' \in IF program = "client_normal_select" /\ eof /\ up = 0 /\ hand = 0
                 THEN {"finished", "left"} ELSE {"left"}
  /\ UNCHANGED <<program, eof, typed, left, wire, printed, ready, shut, pc>>

Next == Client \/ Serves \/ Departs

Spec == Init /\ [][Next]_vars
-----------------------------------------------------------------------------
(***************************************************************************)
(* client_normal_select.c returns on the end of the server's answers, not  *)
(* of its input: by then it has printed all that was typed.                *)
(***************************************************************************)
PrintsAll == pc = "fin" /\ server = "finished" => printed = typed

(***************************************************************************)
(* Client and server never wait for each other: not each to write, with    *)
(* both socket buffers full, and not each to read, with nothing under way. *)
(* (The client with -i does not count: it never waits.) It needs buffers   *)
(* of more than twice what each side moves at once.                        *)
(***************************************************************************)
ClientWaits ==
  \/ pc = "write" /\ up = CAP
  \/ pc = "answer" /\ down = 0 /\ ~ shut
  \/ pc = "select" /\ eof /\ down = 0

ServerWaits ==
  \/ hand = 0 /\ up = 0 /\ ~ (eof /\ program = "client_normal_select")
  \/ hand > 0 /\ down = CAP

NeverBothWait == ~ (server = "open" /\ ClientWaits /\ ServerWaits)
=============================================================================
