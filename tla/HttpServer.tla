------------------------------ MODULE HttpServer ------------------------------
(***************************************************************************)
(* libevent/myhttpd.c, and myhttpd_daemon.c, which differs in its start-up *)
(* (DaemonStart) and in where it logs. One event loop; read_cb answers     *)
(* whatever has arrived as if it were a whole request, and write_cb closes *)
(* the connection once all answers are written. Meanwhile the files that   *)
(* it serves may change between any two system calls.                      *)
(***************************************************************************)
EXTENDS Peers

CONSTANTS
  Paths,           \* what "/" has in it; "/" itself stays
  RequestBlocks,   \* blocks up to the end of the request line
  MaxVisitors      \* bound: clients that connect

VARIABLES
  asked,   \* per client that has connected the path it asks for
  tree,    \* per path what is there
  job,     \* what main_handler is at: [client, path, type, entries], and as
           \* history [seen], what was at the path since it was read
  out,     \* per client the answers still to be written
  reads,   \* history, per client: calls of read_cb
  quit,    \* event_base_loopexit was called
  pc       \* "loop", "access", "stat", "open", "entries" or "exited"

vars == <<conn, fds, asked, tree, job, out, reads, quit, pc>>

Root == "/"
Kinds == {"file", "dir", "dangling", "none"}
NoJob == [client |-> None, path |-> None, type |-> None, entries |-> {}, seen |-> {}]

At(path) == IF path = Root THEN "dir" ELSE tree[path]

Init ==
  /\ InitPeers
  /\ asked = [c \in Clients |-> None]
  /\ tree \in [Paths -> {"file", "dir"}]
  /\ job = NoJob
  /\ out = [c \in Clients |-> <<>>]
  /\ reads = [c \in Clients |-> 0]
  /\ quit = FALSE
  /\ pc = "loop"

-----------------------------------------------------------------------------
(* evconnlistener accepts whoever comes.                                   *)
connect_call_back(c) ==
  /\ pc = "loop"
  /\ c \in Pending
  /\ conn' = [conn EXCEPT ![c].stage = "open"]
  /\ UNCHANGED <<fds, asked, tree, job, out, reads, quit, pc>>

Adds(c, answer) == out' = [out EXCEPT ![c] = Append(@, answer)]

(* What sscanf makes of a read: a request line that came in whole gives    *)
(* its path. tmp is not terminated; of anything else the words, with what  *)
(* the stack holds behind them, may be a request for any path, or none.    *)
Parsed(c) ==
  IF Head(conn[c].unread) = <<c, 1>> /\ Len(conn[c].unread) >= RequestBlocks
  THEN {asked[c]} ELSE Paths \union {Root, None}

Reads(c) ==
  /\ pc = "loop"
  /\ Open(c) /\ conn[c].unread # <<>>
  /\ conn' = [conn EXCEPT ![c].unread = <<>>]
  /\ reads' = [reads EXCEPT ![c] = @ + 1]
  /\ UNCHANGED <<fds, asked, tree, quit>>

(* A server that drops what it cannot parse, for mutation.                 *)
DropsInvalid(c) ==
  /\ Reads(c)
  /\ None \in Parsed(c)
  /\ UNCHANGED <<job, out, pc>>

handler_invalid_request(c) ==
  /\ Reads(c)
  /\ None \in Parsed(c)
  /\ Adds(c, [type |-> "html", body |-> "invalid"])
  /\ UNCHANGED <<job, pc>>

parse_request(c) ==
  /\ Reads(c)
  /\ \E path \in Parsed(c) \ {None} :
       job' = [NoJob EXCEPT !.client = c, !.path = path, !.seen = {At(path)}]
  /\ pc' = "access"
  /\ UNCHANGED out

-----------------------------------------------------------------------------
(* main_handler, one system call a step.                                   *)
Handles(from) ==
  /\ pc = from
  /\ UNCHANGED <<conn, fds, asked, tree, reads, quit>>

Replies(type, body) ==
  /\ Adds(job.client, [type |-> type, body |-> body])
  /\ job' = NoJob
  /\ pc' = "loop"

GoesOn(to) == pc' = to /\ UNCHANGED out

(* access follows links: a dangling one is not found.                      *)
handler_404 ==
  /\ Handles("access")
  /\ At(job.path) \in {"none", "dangling"}
  /\ Replies("html", "404")

Finds ==
  /\ Handles("access")
  /\ At(job.path) \in {"file", "dir"}
  /\ GoesOn("stat")
  /\ UNCHANGED job

Stats ==
  /\ Handles("stat")
  /\ At(job.path) \in {"file", "dir"}
  /\ job' = [job EXCEPT !.type = At(job.path)]
  /\ GoesOn("open")

(* Any call that fails ends the server. A directory that took the place of *)
(* a file can be opened, but not read.                                     *)
Exits ==
  /\ \/ Handles("stat") /\ At(job.path) \in {"none", "dangling"}
     \/ Handles("open") /\ At(job.path) # job.type
     \/ Handles("entries") /\ \E p \in job.entries : tree[p] \in {"none", "dangling"}
  /\ pc' = "exited"
  /\ UNCHANGED <<out, job>>

(* A read whose result is not looked at, for mutation.                     *)
SendsAnything ==
  /\ Handles("open")
  /\ job.type = "file" /\ At(job.path) # "none"
  /\ Replies("file", At(job.path))

send_regular_file ==
  /\ Handles("open")
  /\ job.type = "file" /\ At(job.path) = "file"
  /\ Replies("file", "file")

(* scandir, and then stat of each entry but "." and "..".                  *)
Scans ==
  /\ Handles("open")
  /\ job.type = "dir" /\ At(job.path) = "dir"
  /\ job' = [job EXCEPT !.entries =
       IF job.path = Root THEN {p \in Paths : tree[p] # "none"} ELSE {}]
  /\ GoesOn("entries")

StatsEntry ==
  /\ Handles("entries")
  /\ \E p \in job.entries :
       /\ tree[p] \in {"file", "dir"}
       /\ job' = [job EXCEPT !.entries = @ \ {p}]
  /\ GoesOn("entries")

send_dir ==
  /\ Handles("entries")
  /\ job.entries = {}
  /\ Replies("html", "dir")

-----------------------------------------------------------------------------
(* bufferevent_free, with whatever is in the output buffer.                *)
Frees(c, written) ==
  /\ conn' = [conn EXCEPT ![c].stage = "closed", ![c].unread = <<>>,
                          ![c].echoed = @ \o written]
  /\ out' = [out EXCEPT ![c] = <<>>]

Event(c) ==
  /\ pc = "loop" /\ Open(c)
  /\ UNCHANGED <<fds, asked, tree, job, reads, quit>>

(* libevent writes the answers, in as many goes as it takes; write_cb is   *)
(* called when none is left.                                               *)
WritesSome(c) ==
  /\ Event(c) /\ ~ conn[c].reset
  /\ Len(out[c]) > 1
  /\ conn' = [conn EXCEPT ![c].echoed = Append(@, Head(out[c]))]
  /\ out' = [out EXCEPT ![c] = Tail(@)]
  /\ UNCHANGED pc

write_cb(c) ==
  /\ Event(c) /\ ~ conn[c].reset
  /\ Len(out[c]) = 1
  /\ Frees(c, out[c])
  /\ UNCHANGED pc

event_cb_eof(c) ==
  /\ Event(c) /\ ~ conn[c].reset
  /\ conn[c].unread = <<>> /\ conn[c].fin
  /\ Frees(c, <<>>)
  /\ UNCHANGED pc

event_cb_error(c) ==
  /\ Event(c) /\ conn[c].reset
  /\ pc' = "exited"
  /\ UNCHANGED <<conn, out>>

(* A second after SIGINT, and between callbacks.                           *)
LoopExits ==
  /\ pc = "loop" /\ quit
  /\ pc' = "exited"
  /\ UNCHANGED <<conn, fds, asked, tree, job, out, reads, quit>>

main_handler ==
  \/ handler_404 \/ Finds \/ Stats \/ Exits
  \/ send_regular_file \/ Scans \/ StatsEntry \/ send_dir

Server ==
  \/ main_handler \/ LoopExits
  \/ \E c \in Clients :
       \/ connect_call_back(c) \/ handler_invalid_request(c) \/ parse_request(c)
       \/ WritesSome(c) \/ write_cb(c) \/ event_cb_eof(c) \/ event_cb_error(c)

-----------------------------------------------------------------------------
(* Someone replaces what is at a path.                                     *)
Changes ==
  /\ \E p \in Paths, k \in Kinds : tree[p] # k /\ tree' = [tree EXCEPT ![p] = k]
  /\ job' = IF job.path \in Paths THEN [job EXCEPT !.seen = @ \union {tree'[job.path]}] ELSE job
  /\ UNCHANGED <<conn, fds, asked, out, reads, quit, pc>>

sigint ==
  /\ pc = "loop" /\ ~ quit
  /\ quit' = TRUE
  /\ UNCHANGED <<conn, fds, asked, tree, job, out, reads, pc>>

Environment ==
  \/ Changes \/ sigint
  \/ /\ \E c \in Clients :
          \/ Arrives(c) /\ UNCHANGED asked
          \/ /\ Connects(c)
             /\ Cardinality({d \in Clients : asked[d] # None}) < MaxVisitors
             /\ \E path \in Paths \union {Root} : asked' = [asked EXCEPT ![c] = path]
     /\ UNCHANGED <<fds, tree, job, out, reads, quit, pc>>

Next == Server \/ (Environment /\ pc # "exited")

Spec == Init /\ [][Next]_vars
-----------------------------------------------------------------------------
(***************************************************************************)
(* Each read of an open connection has one answer, which was sent or waits *)
(* its turn, or is being made.                                             *)
(***************************************************************************)
OneAnswerPerRead ==
  \A c \in Clients : Open(c) =>
    reads[c] = Len(conn[c].echoed) + Len(out[c]) + (IF job.client = c THEN 1 ELSE 0)

(***************************************************************************)
(* An answer tells what was there while it was made: not found only of     *)
(* what was missing then, and the type in its header is that of the body,  *)
(* though the two come from different looks at the file.                   *)
(***************************************************************************)
Honest(answer, seen) ==
  /\ answer.body = "404" => seen \intersect {"none", "dangling"} # {}
  /\ answer.body \in {"file", "dir"} =>
       answer.body \in seen /\ (answer.type = "html" <=> answer.body = "dir")

HonestAnswers ==
  [][\A c \in Clients : Len(out'[c]) > Len(out[c]) => Honest(Last(out'[c]), job.seen)]_vars

(***************************************************************************)
(* Who has sent anything is answered or gives up: no connection stays open *)
(* for ever once something arrived on it.                                  *)
(***************************************************************************)
ClosedInTheEnd ==
  \A c \in Clients : (Open(c) /\ conn[c].sent > 0) ~> (~ Open(c) \/ pc = "exited")

FairSpec == Spec /\ WF_vars(Server)
=============================================================================
