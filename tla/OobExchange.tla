----------------------------- MODULE OobExchange -----------------------------
(***************************************************************************)
(* internet/oob_client.c and oob_serv.c: data to be discarded, then, for a *)
(* SIGINT, a message whose last byte is urgent, then normal data. A        *)
(* handler of SIGURG discards what comes before the mark. TCP and signals  *)
(* are external: the mark is announced at any time from its sending to its *)
(* arrival, once, to a process that owns the socket and has a handler, and *)
(* no read passes it while the signal is pending.                          *)
(***************************************************************************)
EXTENDS Naturals, Sequences

CONSTANTS
  DISCARD,   \* units to be discarded
  NORMAL     \* units of normal data

VARIABLES
  cpc,       \* client: connected, ready, paused, sent, closed
  sendFlag,
  sent, arrived,        \* units of the stream
  news,      \* of the mark: none, pending, told, missed
  spc,       \* server: accepted, owner, sleep, recv, write, fin, failed,
             \* surprised by the end in its handler
  hpc,       \* its handler: none, loop, oob
  copied,    \* units read, or passed at the mark
  buf,       \* read by main and not yet written
  printed, discarded,
  oobCnt

vars == <<cpc, sendFlag, sent, arrived, news, spc, hpc, copied, buf, printed, discarded, oobCnt>>
client == <<cpc, sendFlag, sent>>
server == <<spc, hpc, copied, buf, printed, discarded, oobCnt>>

(* The rest of the urgent message counts as one unit.                      *)
MARK == DISCARD + 2

Init ==
  /\ cpc = "connected" /\ sendFlag = FALSE
  /\ sent = 0 /\ arrived = 0 /\ news = "none"
  /\ spc = "accepted" /\ hpc = "none"
  /\ copied = 0 /\ buf = <<>> /\ printed = <<>> /\ discarded = <<>> /\ oobCnt = 0

-----------------------------------------------------------------------------
SendsDiscards ==
  /\ cpc = "connected" /\ sent' = DISCARD /\ cpc' = "ready"
  /\ UNCHANGED <<sendFlag, arrived, news, server>>

Pauses ==
  /\ cpc = "ready" /\ cpc' = "paused"
  /\ UNCHANGED <<sendFlag, sent, arrived, news, server>>

(* The handler, before the first pause or in it; it wakes the pause.       *)
sig_int ==
  /\ cpc \in {"ready", "paused"}
  /\ sendFlag' = TRUE
  /\ sent' = IF sendFlag THEN sent ELSE MARK
  /\ cpc' = IF cpc = "paused" THEN "awake" ELSE cpc
  /\ UNCHANGED <<arrived, news, server>>

SendsNormal ==
  /\ cpc = "awake" /\ sent' = MARK + NORMAL /\ cpc' = "sent"
  /\ UNCHANGED <<sendFlag, arrived, news, server>>

(* A signal in the second pause; or the end of the client at any time.     *)
Closes ==
  /\ cpc # "closed" /\ cpc' = "closed"
  /\ UNCHANGED <<sendFlag, sent, arrived, news, server>>

Client == SendsDiscards \/ Pauses \/ sig_int \/ SendsNormal \/ Closes

-----------------------------------------------------------------------------
Announced == IF spc \in {"sleep", "recv", "write"} THEN "pending" ELSE "missed"

Announces ==
  /\ sent >= MARK /\ news = "none"
  /\ news' = Announced
  /\ UNCHANGED <<client, arrived, server>>

Arrives ==
  /\ \E n \in 1 .. sent - arrived : arrived' = arrived + n
  /\ news' = IF news = "none" /\ arrived' >= MARK THEN Announced ELSE news
  /\ UNCHANGED <<client, server>>

-----------------------------------------------------------------------------
(* What a read may take: it stops before the mark, and one that starts     *)
(* there passes it over.                                                   *)
First == IF copied + 1 = MARK THEN MARK + 1 ELSE copied + 1
Limit == IF First < MARK /\ arrived >= MARK THEN MARK - 1 ELSE arrived

Take(n) == copied' = First + n - 1
Taken(n) == [k \in 1 .. n |-> First + k - 1]

Recv(n) == n \in 1 .. Limit - First + 1 /\ Take(n)

AtEnd == cpc = "closed" /\ arrived = sent /\ Limit < First

Running == hpc = "none" /\ news # "pending"

SetsUp ==
  /\ \/ spc = "accepted" /\ spc' = "owner"
     \/ spc = "owner" /\ spc' = "sleep"
     \/ spc = "sleep" /\ Running /\ spc' = "recv"
  /\ UNCHANGED <<client, arrived, news, hpc, copied, buf, printed, discarded, oobCnt>>

(* A read that was under way when the signal came may still return what    *)
(* there is before the mark.                                               *)
Receives ==
  /\ spc = "recv" /\ hpc = "none"
  /\ \E n \in 1 .. arrived :
       /\ Recv(n) /\ buf' = Taken(n)
       /\ news = "pending" => copied' < MARK
  /\ spc' = "write"
  /\ UNCHANGED <<client, arrived, news, hpc, printed, discarded, oobCnt>>

Writes ==
  /\ spc = "write" /\ Running
  /\ printed' = printed \o buf /\ buf' = <<>>
  /\ spc' = "recv"
  /\ UNCHANGED <<client, arrived, news, hpc, copied, discarded, oobCnt>>

Ends ==
  /\ spc = "recv" /\ Running /\ AtEnd
  /\ spc' = "fin"
  /\ UNCHANGED <<client, arrived, news, hpc, copied, buf, printed, discarded, oobCnt>>

(* The signal also ends the sleep.                                         *)
EntersHandler ==
  /\ news = "pending" /\ hpc = "none"
  /\ hpc' = "loop" /\ news' = "told"
  /\ UNCHANGED <<client, arrived, spc, copied, buf, printed, discarded, oobCnt>>

(* A handler that asks for the mark one unit late, for mutation.           *)
PastMark == copied > MARK

sockatmark == copied + 1 = MARK

Discards ==
  /\ hpc = "loop"
  /\ IF sockatmark THEN hpc' = "oob" /\ UNCHANGED <<spc, copied, discarded>>
     ELSE \E n \in 0 .. arrived :
            IF n > 0 THEN Recv(n) /\ discarded' = discarded \o Taken(n) /\ UNCHANGED <<spc, hpc>>
            ELSE AtEnd /\ spc' = "surprised" /\ UNCHANGED <<hpc, copied, discarded>>
  /\ UNCHANGED <<client, arrived, news, buf, printed, oobCnt>>

(* The byte may not be there yet, which ends the server.                   *)
ReceivesOob ==
  /\ hpc = "oob"
  /\ hpc' = "none"
  /\ IF arrived >= MARK THEN oobCnt' = oobCnt + 1 /\ spc' = IF spc = "sleep" THEN "recv" ELSE spc
     ELSE spc' = "failed" /\ UNCHANGED oobCnt
  /\ UNCHANGED <<client, arrived, news, copied, buf, printed, discarded>>

Server == SetsUp \/ Receives \/ Writes \/ Ends \/ EntersHandler \/ Discards \/ ReceivesOob

Next == Client \/ Announces \/ Arrives \/ Server

Spec == Init /\ [][Next]_vars
-----------------------------------------------------------------------------
(***************************************************************************)
(* Whenever the handler runs, the server takes the stream in order and     *)
(* once: it discards only what is before the mark, after what main took    *)
(* before it, prints the rest, and takes the urgent byte for neither; one  *)
(* that ends normally has left nothing. The handler never meets the end    *)
(* that it has a puzzled message for.                                      *)
(***************************************************************************)
TakesInOrder ==
  LET Plain == SelectSeq([k \in 1 .. copied |-> k], LAMBDA k : k # MARK)
      before == SelectSeq(printed \o buf, LAMBDA k : k < MARK)
      after == SelectSeq(printed \o buf, LAMBDA k : k > MARK)
  IN  /\ before \o discarded \o after = Plain
      /\ \A k \in DOMAIN discarded : discarded[k] < MARK
      /\ oobCnt > 0 => news = "told" /\ arrived >= MARK
      /\ spc = "fin" => copied >= sent \/ (sent = MARK /\ copied + 1 = MARK)
      /\ spc # "surprised"
=============================================================================
