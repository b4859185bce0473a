---------------------------- MODULE EventServers ----------------------------
(***************************************************************************)
(* The echo servers of libevent/: test4.c, with an event for each          *)
(* descriptor, and those with bufferevents, test5.c, test_7.c, test_lock.c,*)
(* test_log.c and normal_template_2.c. libevent is external: an event loop *)
(* that calls one callback after another, and per bufferevent an output    *)
(* buffer, which it writes when it gets to it and drops when it is freed.  *)
(***************************************************************************)
EXTENDS Peers

CONSTANT READ_MAX   \* bytes that readcb of test4.c reads at once

VARIABLES
  program,
  evs,    \* test4.c: the descriptors with an event
  out,    \* bufferevents: per client what is still to be written
  quit,   \* event_base_loopexit was called
  pc      \* "loop" or "exited"

vars == <<conn, fds, program, evs, out, quit, pc>>

(* Whether the program has bufferevents, and then whether event_cb puts up *)
(* with a reset connection.                                                *)
test4 == [buffers |-> FALSE, forgives |-> FALSE]
test5 == [buffers |-> TRUE, forgives |-> FALSE]
test_lock == [buffers |-> TRUE, forgives |-> FALSE]
test_log == [buffers |-> TRUE, forgives |-> FALSE]
test_7 == [buffers |-> TRUE, forgives |-> TRUE]
normal_template_2 == [buffers |-> TRUE, forgives |-> TRUE]

Features ==
  [test4 |-> test4, test5 |-> test5, test_lock |-> test_lock, test_log |-> test_log,
   test_7 |-> test_7, normal_template_2 |-> normal_template_2]

Programs == DOMAIN Features
Buffers == Features[program].buffers
Forgives == Features[program].forgives

Init ==
  /\ program \in Programs
  /\ InitPeers
  /\ evs = {}
  /\ out = [c \in Clients |-> <<>>]
  /\ quit = FALSE
  /\ pc = "loop"

Callback == pc = "loop" /\ UNCHANGED <<program, quit>>

-----------------------------------------------------------------------------
(* test4.c: acceptcb and readcb, whose read would wait if it were called   *)
(* without reason.                                                         *)
acceptcb(c) ==
  /\ Callback /\ ~ Buffers
  /\ Accepts(c)
  /\ evs' = evs \union {FreeFd}
  /\ UNCHANGED <<out, pc>>

ReadsData(f) ==
  /\ Callback /\ ~ Buffers
  /\ f \in evs /\ conn[fds[f]].unread # <<>> /\ ~ conn[fds[f]].reset
  /\ Echoes(fds[f], READ_MAX)
  /\ UNCHANGED <<fds, evs, out, pc>>

AtEnd(f) ==
  /\ Callback /\ ~ Buffers
  /\ f \in evs /\ conn[fds[f]].unread = <<>> /\ conn[fds[f]].fin /\ ~ conn[fds[f]].reset
  /\ CloseFds({f})
  /\ UNCHANGED <<out, pc>>

(* An end of file that leaves the event in place, for mutation.            *)
KeepsEvent(f) == AtEnd(f) /\ UNCHANGED evs

ReadsEnd(f) == AtEnd(f) /\ evs' = evs \ {f}

ReadFails(f) ==
  /\ Callback /\ ~ Buffers
  /\ f \in evs /\ conn[fds[f]].reset
  /\ pc' = "exited"
  /\ UNCHANGED <<conn, fds, evs, out>>

readcb(f) == ReadsData(f) \/ ReadsEnd(f) \/ ReadFails(f)

-----------------------------------------------------------------------------
(* The programs with bufferevents.                                         *)
connect_call_back(c) ==
  /\ Callback /\ Buffers
  /\ c \in Pending
  /\ conn' = [conn EXCEPT ![c].stage = "open"]
  /\ UNCHANGED <<fds, evs, out, pc>>

(* What libevent has read so far goes to the output buffer.                *)
read_cb(c) ==
  /\ Callback /\ Buffers
  /\ Open(c) /\ ~ conn[c].reset
  /\ \E n \in 1 .. Len(conn[c].unread) :
       /\ out' = [out EXCEPT ![c] = @ \o Upto(n, conn[c].unread)]
       /\ conn' = [conn EXCEPT ![c].unread = SubSeq(@, n + 1, Len(@))]
  /\ UNCHANGED <<fds, evs, pc>>

(* libevent writes; write_cb, called when nothing is left, only prints.    *)
Writes(c) ==
  /\ Callback /\ Buffers
  /\ Open(c) /\ ~ conn[c].reset
  /\ \E n \in 1 .. Len(out[c]) :
       /\ conn' = [conn EXCEPT ![c].echoed = @ \o Upto(n, out[c])]
       /\ out' = [out EXCEPT ![c] = SubSeq(@, n + 1, Len(@))]
  /\ UNCHANGED <<fds, evs, pc>>

(* bufferevent_free, with what was not written yet.                        *)
Frees(c) ==
  /\ conn' = [conn EXCEPT ![c].stage = "closed", ![c].unread = <<>>]
  /\ out' = [out EXCEPT ![c] = <<>>]

event_cb(c) ==
  /\ Callback /\ Buffers
  /\ Open(c)
  /\ \/ /\ ~ conn[c].reset /\ conn[c].fin /\ conn[c].unread = <<>>
        /\ Frees(c) /\ UNCHANGED pc
     \/ /\ conn[c].reset /\ Forgives
        /\ Frees(c) /\ UNCHANGED pc
     \/ /\ conn[c].reset /\ ~ Forgives
        /\ pc' = "exited" /\ UNCHANGED <<conn, out>>
  /\ UNCHANGED <<fds, evs>>

(* Some time after SIGINT, between callbacks.                              *)
LoopExits ==
  /\ Callback /\ quit
  /\ pc' = "exited"
  /\ UNCHANGED <<conn, fds, evs, out>>

sigint ==
  /\ pc = "loop" /\ ~ quit
  /\ quit' = TRUE
  /\ UNCHANGED <<conn, fds, program, evs, out, pc>>

Server ==
  \/ \E c \in Clients :
       \/ acceptcb(c) \/ connect_call_back(c) \/ read_cb(c) \/ Writes(c) \/ event_cb(c)
  \/ \E f \in Fds : readcb(f)
  \/ LoopExits

Environment ==
  /\ \E c \in Clients : Connects(c) \/ Arrives(c)
  /\ UNCHANGED <<fds, program, evs, out, quit, pc>>

Next == Server \/ sigint \/ (Environment /\ pc # "exited")

Spec == Init /\ [][Next]_vars
-----------------------------------------------------------------------------
(* An event is for an open descriptor, and each of them has one: a number  *)
(* that is used again starts without the event of the one before.          *)
EventsAgree == ~ Buffers => evs = {f \in Fds : fds[f] # None}

InBuffer(c) == out[c]

EchoExact == EchoedExactly(InBuffer)
=============================================================================
