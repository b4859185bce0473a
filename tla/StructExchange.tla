--------------------------- MODULE StructExchange ---------------------------
(***************************************************************************)
(* internet/test_struct_server.c and test_struct_client.c: requests of a   *)
(* header, with the size of what follows, and a content, cut from a stream *)
(* of bytes by ReadCount; the server echoes the content or runs it as a    *)
(* command that prints to the socket. The client reads once per request.   *)
(* Connection and commands are external: a read returns any part of what   *)
(* has arrived, a client that goes may take along what was under way, and  *)
(* there is room for all requests, and for CAP units of answers. Nothing   *)
(* is said of bytes: a unit is known by its request and its place in it.   *)
(***************************************************************************)
EXTENDS Naturals, Sequences, SequencesExt

CONSTANTS
  HEADER,                          \* units of a header
  CAP,
  MaxRequests, MaxSize, MaxPrints  \* bounds

VARIABLES
  requests,   \* what was typed
  cpc,        \* client: input, header, content, answer, gone
  up, down,   \* units on the way to the server, number of those on the way back
  pto,        \* server: the request its header is of
  tmp,        \* what ReadCount has of what it was asked for
  out,        \* what is left to write
  acted,      \* what was echoed or called
  spc         \* header, content, answer, ended, failed

vars == <<requests, cpc, up, down, pto, tmp, out, acted, spc>>
client == <<requests, cpc>>
server == <<pto, tmp, out, acted, spc>>

(* A request knows how much a command will print.                          *)
Proto == [type : {"echo"}, size : 0 .. MaxSize, prints : {0}]
         \union [type : {"call"}, size : 0 .. MaxSize, prints : 0 .. MaxPrints]

Units(i, first, last) == [k \in 1 .. last - first + 1 |-> <<i, first + k - 1>>]

Header(i) == Units(i, 1, HEADER)
Content(i) == Units(i, HEADER + 1, HEADER + requests[i].size)

(* What the server writes for it; a size of 0 is passed over.              *)
Answer(r) == IF r.size = 0 THEN 0 ELSE IF r.type = "echo" THEN r.size ELSE r.prints

Init ==
  /\ requests = <<>> /\ cpc = "input"
  /\ up = <<>> /\ down = 0
  /\ pto = 0 /\ tmp = <<>> /\ out = 0 /\ acted = <<>> /\ spc = "header"

-----------------------------------------------------------------------------
DoInput ==
  /\ cpc = "input" /\ Len(requests) < MaxRequests
  /\ \E r \in Proto : requests' = Append(requests, r)
  /\ cpc' = "header"
  /\ UNCHANGED <<up, down, server>>

(* WriteCount, first of the header and then of the content.                *)
WriteCount(from, units, next) ==
  /\ cpc = from
  /\ up' = up \o units
  /\ cpc' = next
  /\ UNCHANGED <<requests, down, server>>

Sends ==
  \/ WriteCount("header", Header(Len(requests)), "content")
  \/ WriteCount("content", Content(Len(requests)), "answer")

(* One read; 0 bytes of a server that is gone are an answer too, and       *)
(* another request may end the client.                                     *)
Takes ==
  /\ cpc = "answer"
  /\ \/ \E n \in 1 .. down : down' = down - n /\ cpc' = "input"
     \/ down = 0 /\ spc \in {"ended", "failed"} /\ cpc' \in {"input", "gone"} /\ UNCHANGED down
  /\ UNCHANGED <<requests, up, server>>

(* The end of the input, or a signal, at any time.                         *)
Goes ==
  /\ cpc # "gone"
  /\ cpc' = "gone"
  /\ \E n \in 0 .. Len(up) : up' = SubSeq(up, 1, n)
  /\ down' = 0
  /\ UNCHANGED <<requests, server>>

Client == DoInput \/ Sends \/ Takes \/ Goes

-----------------------------------------------------------------------------
Wanted == IF spc = "header" THEN HEADER ELSE requests[pto].size

(* One read of ReadCount.                                                  *)
ReadsPiece ==
  /\ spc \in {"header", "content"} /\ Len(tmp) < Wanted
  /\ \E n \in 1 .. Wanted - Len(tmp) :
       n <= Len(up) /\ tmp' = tmp \o SubSeq(up, 1, n) /\ up' = SubSeq(up, n + 1, Len(up))
  /\ UNCHANGED <<client, down, pto, out, acted, spc>>

(* A ReadCount that is content with one read, for mutation.                *)
ReadOnce == Len(tmp) > 0

(* It returns when it has all of it, or at the end.                        *)
ReadCount == Len(tmp) = Wanted \/ (up = <<>> /\ cpc = "gone")

TakesHeader ==
  /\ spc = "header" /\ ReadCount
  /\ \/ \E i \in DOMAIN requests :
          /\ tmp = Header(i)
          /\ spc' = IF requests[i].size = 0 THEN "header" ELSE "content"
          /\ pto' = i /\ tmp' = <<>>
     \/ tmp = <<>> /\ spc' = "ended" /\ UNCHANGED <<pto, tmp>>
     \/ /\ tmp # <<>> /\ \A i \in DOMAIN requests : tmp # Header(i)
        /\ spc' = "failed"
        /\ UNCHANGED <<pto, tmp>>
  /\ UNCHANGED <<client, up, down, out, acted>>

TakesContent ==
  /\ spc = "content" /\ ReadCount
  /\ IF Len(tmp) < Wanted THEN spc' = "header" /\ UNCHANGED <<acted, out>>
     ELSE /\ acted' = Append(acted, <<pto, tmp>>)
          /\ out' = Answer(requests[pto])
          /\ spc' = "answer"
  /\ tmp' = <<>>
  /\ UNCHANGED <<client, up, down, pto>>

(* Without a client its own write ends the server or is lost; a command    *)
(* ends alone.                                                             *)
Answers ==
  /\ spc = "answer"
  /\ \/ /\ out > 0 /\ cpc # "gone"
        /\ \E n \in 1 .. out : down + n <= CAP /\ down' = down + n /\ out' = out - n
        /\ UNCHANGED spc
     \/ /\ out > 0 /\ cpc = "gone"
        /\ spc' \in {"header"} \union (IF requests[pto].type = "echo" THEN {"failed"} ELSE {})
        /\ out' = 0
        /\ UNCHANGED down
     \/ out = 0 /\ spc' = "header" /\ UNCHANGED <<down, out>>
  /\ UNCHANGED <<client, up, pto, tmp, acted>>

(* The reset of a client that had answers left to read.                    *)
ReadFails ==
  /\ spc \in {"header", "content"} /\ cpc = "gone"
  /\ spc' = "failed"
  /\ UNCHANGED <<client, up, down, pto, tmp, out, acted>>

DoReadWrite == ReadsPiece \/ TakesHeader \/ TakesContent \/ Answers \/ ReadFails

Next == Client \/ DoReadWrite

Spec == Init /\ [][Next]_vars
-----------------------------------------------------------------------------
(***************************************************************************)
(* However the stream is cut, the server acts on the requests that have a  *)
(* content, whole and in order, and it fails for want of a client only.    *)
(***************************************************************************)
WithContent == SelectSeq([i \in DOMAIN requests |-> i], LAMBDA i : requests[i].size > 0)

ActsOnWholeRequests ==
  /\ IsPrefix([k \in DOMAIN acted |-> acted[k][1]], WithContent)
  /\ \A k \in DOMAIN acted : acted[k][2] = Content(acted[k][1])
  /\ spc = "failed" => cpc = "gone"

(***************************************************************************)
(* Client and server wait for each other, for ever, only after a request   *)
(* that has no answer: an empty one, which the server passes over, or a    *)
(* command that prints nothing.                                            *)
(***************************************************************************)
WaitsForSilence ==
  cpc = "answer" /\ down = 0 /\ spc = "header" /\ tmp = <<>> /\ up = <<>> =>
    Answer(Last(requests)) = 0
=============================================================================
