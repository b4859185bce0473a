----------------------------- MODULE EpollServers -----------------------------
(***************************************************************************)
(* The other epoll programs of internet/: epoll_normal.c and               *)
(* epoll_lt_et_2.c echo, epoll_lt_et_3.c prints what clients send, and     *)
(* epoll_lt_et_1.c prints what a child process writes into a pipe. They    *)
(* differ in the trigger, in whether a read goes on until EAGAIN, and in   *)
(* what they do with what was read. Nodes live as long as their descriptor *)
(* and are identified with it. A callback is one step.                     *)
(***************************************************************************)
EXTENDS Epoll

CONSTANTS
  READ_MAX,         \* what one read takes, without the loop
  MAX_WRITE_BYTE

VARIABLES
  program,
  buf,   \* per descriptor what is left to write: buf or bufLoop from wIndex
  pc

vars == <<conn, fds, interest, events, program, buf, pc>>

(* What the handlers of each file come down to: ET_TRIGGER_METHOD or       *)
(* USE_ET_TRIGGER_MODE, USE_LOOP_READ, and whether the file writes back.   *)
epoll_normal  == [et |-> FALSE, loop |-> FALSE, echo |-> TRUE]
epoll_lt_et_1 == [et |-> TRUE,  loop |-> TRUE,  echo |-> FALSE]
epoll_lt_et_2 == [et |-> TRUE,  loop |-> TRUE,  echo |-> TRUE]
epoll_lt_et_3 == [et |-> TRUE,  loop |-> FALSE, echo |-> FALSE]

Features ==
  [epoll_normal |-> epoll_normal, epoll_lt_et_1 |-> epoll_lt_et_1,
   epoll_lt_et_2 |-> epoll_lt_et_2, epoll_lt_et_3 |-> epoll_lt_et_3]

Programs == DOMAIN Features
is == Features[program]
Piped == program = "epoll_lt_et_1"
IN_ == IF is.et THEN "IN|ET" ELSE "IN"
lfd == 0

(* The pipe is there from the start, as the only connection.               *)
InitPipe ==
  \E c \in Clients :
    /\ conn = [d \in Clients |-> IF d = c THEN [NoConn EXCEPT !.stage = "open"] ELSE NoConn]
    /\ fds = [f \in Fds |-> IF f = 1 THEN c ELSE None]
    /\ interest = [f \in Fds |-> IF f = 1 THEN [ptr |-> 1, events |-> IN_, edge |-> FALSE]
                                          ELSE None]
    /\ events = <<>>

Init ==
  /\ program \in Programs
  /\ IF Piped THEN InitPipe ELSE InitPeers /\ InitEpoll
  /\ buf = [f \in Fds |-> <<>>]
  /\ pc = "wait"

-----------------------------------------------------------------------------
EventLoop ==
  \/ /\ pc = "wait"
     /\ epoll_wait(lfd)
     /\ pc' = "handle"
     /\ UNCHANGED <<conn, fds, program, buf>>
  \/ /\ pc = "handle" /\ events = <<>>
     /\ pc' = "wait"
     /\ UNCHANGED <<conn, fds, interest, events, program, buf>>

Handles(f) ==
  /\ pc = "handle"
  /\ events # <<>>
  /\ Head(events).ptr = f
  /\ events' = Tail(events)
  /\ UNCHANGED program

DoAccept(c) ==
  /\ Handles(lfd)
  /\ Accepts(c)
  /\ interest' = [interest EXCEPT ![FreeFd] = Registered(FreeFd, c, IN_)]
  /\ UNCHANGED <<buf, pc>>

Reading(f) == interest[f].events # "OUT"

(* read or write fails and the program exits. A single read first returns  *)
(* what had come before the reset.                                         *)
Exits(f) ==
  /\ Handles(f)
  /\ conn[fds[f]].reset
  /\ Reading(f) /\ ~ is.loop => conn[fds[f]].unread = <<>>
  /\ pc' = "exited"
  /\ UNCHANGED <<conn, fds, interest, buf>>

(* A read of 0. The loop closes whatever it read before, DoRead only when  *)
(* nothing was left.                                                       *)
ReadsEnd(f) ==
  /\ Handles(f)
  /\ Reading(f)
  /\ conn[fds[f]].fin /\ ~ conn[fds[f]].reset
  /\ IF Piped THEN conn[fds[f]].unread # <<>>
              ELSE is.loop \/ conn[fds[f]].unread = <<>>
  /\ Unregister({f}) /\ CloseFds({f})
  /\ buf' = [buf EXCEPT ![f] = <<>>]
  /\ UNCHANGED pc

(* The end of an empty pipe is EPOLLHUP alone, which EventLoop passes by.   *)
IgnoresHangup(f) ==
  /\ Handles(f)
  /\ Piped
  /\ conn[fds[f]].fin /\ conn[fds[f]].unread = <<>>
  /\ UNCHANGED <<conn, fds, interest, buf, pc>>

(* epoll_lt_et_3.c without the EventMod after each read, for mutation.     *)
ForgetsMod(f) == UNCHANGED interest

(* What DoRead and DoReadLoop do about the next event when they print:     *)
(* epoll_lt_et_3.c has epoll look again, since it may have left bytes.     *)
RearmsRead(f) ==
  interest' = IF is.loop THEN interest
              ELSE [interest EXCEPT ![f] = Registered(f, fds[f], IN_)]

(* DoRead, or DoReadLoop up to EAGAIN.                                     *)
Reads(f) ==
  LET c == fds[f]
      cnt == IF is.loop THEN Len(conn[c].unread) ELSE READ_MAX
  IN  /\ Handles(f)
      /\ Reading(f)
      /\ conn[c].unread # <<>>
      /\ is.loop => ~ conn[c].fin /\ ~ conn[c].reset
      /\ IF is.echo
         THEN /\ buf' = [buf EXCEPT ![f] = Upto(cnt, conn[c].unread)]
              /\ conn' = [conn EXCEPT ![c].unread = SubSeq(@, cnt + 1, Len(@))]
              /\ interest' = [interest EXCEPT ![f] = Registered(f, c, "OUT")]
         ELSE Echoes(c, cnt) /\ RearmsRead(f) /\ UNCHANGED buf
      /\ UNCHANGED <<fds, pc>>

DoWrite(f) ==
  LET c == fds[f]
  IN  /\ Handles(f)
      /\ ~ Reading(f)
      /\ ~ conn[c].reset
      /\ \E cnt \in 1 .. Min({Len(buf[f]), MAX_WRITE_BYTE}) :
           /\ conn' = [conn EXCEPT ![c].echoed = @ \o Upto(cnt, buf[f])]
           /\ buf' = [buf EXCEPT ![f] = SubSeq(@, cnt + 1, Len(@))]
           /\ interest' = IF cnt = Len(buf[f])
                          THEN [interest EXCEPT ![f] = Registered(f, c, IN_)]
                          ELSE interest
      /\ UNCHANGED <<fds, pc>>

Server ==
  \/ EventLoop
  \/ \E c \in Clients : DoAccept(c)
  \/ \E f \in Fds : Exits(f) \/ ReadsEnd(f) \/ IgnoresHangup(f) \/ Reads(f) \/ DoWrite(f)

(* A pipe takes no connections, and its end is no reset.                   *)
Environment ==
  \E c \in Clients :
    /\ \/ ~ Piped /\ Connects(c) /\ UNCHANGED interest
       \/ (IF Piped THEN Sends(c) \/ ShutsDown(c) ELSE Arrives(c)) /\ Signals(c)
    /\ UNCHANGED <<fds, events, program, buf, pc>>

Next == Server \/ (Environment /\ pc # "exited")

Spec == Init /\ [][Next]_vars

-----------------------------------------------------------------------------
(***************************************************************************)
(* Each client gets back (or has printed) its own bytes in order, and none *)
(* is lost while its connection is open.                                   *)
(***************************************************************************)
InHand(c) == buf[CHOOSE f \in Fds : fds[f] = c]

EchoExact == EchoedExactly(InHand)

(***************************************************************************)
(* What was reported as ready still is when its turn comes: a read finds   *)
(* something, and never ends the program with EAGAIN.                      *)
(***************************************************************************)
NeverReadsDry ==
  pc = "handle" /\ events # <<>> /\ Head(events).ptr # lfd =>
    LET f == Head(events).ptr
    IN  fds[f] = Head(events).of /\ (Reading(f) => Readable(fds[f]))
=============================================================================
