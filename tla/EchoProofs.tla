----------------------------- MODULE EchoProofs ------------------------------
(***************************************************************************)
(* Every byte a client sends comes back, once and in its place, from any   *)
(* of the echo servers. Each part says what its server has in hand for a   *)
(* connection between two steps, and shows that what came back, what is    *)
(* in hand and what is unread are together what the client has sent;       *)
(* ReactorProofs holds the first part. And no server driven by SIGIO       *)
(* leaves what it was told of unread.                                      *)
(***************************************************************************)
EXTENDS PollingProofs

-----------------------------------------------------------------------------
(* SelectServers.                                                          *)
LEMMA SelectKept ==
  ASSUME SelectInv, AllKept, S!Next
  PROVE  AllKept'
<1>1. /\ conn \in [Clients -> Connection(Clients \X Nat)] /\ FdTable /\ READ_MAX \in Nat
  BY ServersAssumption DEF SelectInv, SelectTypes
<1>2. CASE S!Environment
  <2>1. UNCHANGED conn \/ \E c \in Clients : Connects(c) \/ Arrives(c)
    BY <1>2, SelectPeers DEF S!Environment, S!SendsDatagram, S!sig_int
  <2>. QED
    BY <1>1, <2>1, AllKeptNext
<1>3. CASE S!Select \/ S!PassEnds \/ S!handler_udp_read \/ \E f \in Fds : S!PassesBy(f) \/ S!Exits(f)
  <2>1. UNCHANGED conn
    BY <1>3 DEF S!Select, S!PassEnds, S!handler_udp_read, S!PassesBy, S!Exits
  <2>. QED
    BY <1>1, <2>1, AllKeptNext
<1>4. ASSUME NEW c \in Clients, S!NewConnection(c) \/ S!TurnsAway(c)
      PROVE  AllKept'
  <2>1. Accepts(c) \/ Refuses(c)
    BY <1>4, SelectPeers DEF S!NewConnection, S!TurnsAway
  <2>2. Opened(c) \/ Ended(c)
    BY <2>1, OpenedEnded
  <2>. QED
    BY <1>1, <2>2, AllKeptNext
<1>5. ASSUME NEW f \in Fds, S!ReadsData(f)
      PROVE  AllKept'
  <2>1. f # 0 /\ f = S!Turn /\ ready # {} /\ Echoes(fds[f], READ_MAX)
    BY <1>5, SelectPeers DEF S!ReadsData, S!Handles, Fds
  <2>2. PICK c \in Clients : c = fds[f]
    BY <2>1, TurnIsReady
  <2>3. conn[c].stage # "closed"
    BY <1>1, <2>2 DEF FdTable
  <2>4. Echoes(c, READ_MAX)
    BY <2>1, <2>2, Zenon
  <2>. QED
    BY <1>1, <2>3, <2>4, AllKeptNext
<1>6. ASSUME NEW f \in Fds, S!ReadsEnd(f)
      PROVE  AllKept'
  <2>1. PICK C \in SUBSET Fds : C = {f}
    BY Zenon
  <2>2. CloseFds(C)
    BY <1>6, <2>1, SelectPeers, Zenon DEF S!ReadsEnd, S!Closes
  <2>. QED
    BY <1>1, <2>2, AllKeptNext
<1>. QED
  BY <1>2, <1>3, <1>4, <1>5, <1>6, SelectPeers DEF S!Next, S!Server

(* Nothing is in hand between the steps of the select and poll servers.    *)
LEMMA SelectKeptAlways == Spec => [](Runs(S!Programs) => SelectInv /\ AllKept)
<1>1. Init => (Runs(S!Programs) => AllKept)
  <2>1. ASSUME S!Init
        PROVE  AllKept
    <3>1. conn = [c \in Clients |-> NoConn]
      BY <2>1 DEF S!Init, S!InitPeers, S!NoConn, NoConn
    <3>. QED
      BY <3>1, AllKeptInit
  <2>. QED
    BY <2>1, OnlyOneStarts
<1>2. ASSUME Runs(S!Programs) => SelectInv, Runs(S!Programs) => AllKept, [Next]_mcVars
      PROVE  (Runs(S!Programs) => AllKept)'
  <2>1. program' = program
    BY <1>2, ProgramStays
  <2>2. CASE UNCHANGED mcVars
    <3>1. UNCHANGED conn
      BY <2>2 DEF mcVars
    <3>. QED
      BY <1>2, <2>1, <3>1 DEF Runs, AllKept, Kept
  <2>3. CASE Next
    BY <1>2, <2>1, <2>3, OnlyOneRuns, SelectKept DEF Runs
  <2>. QED
    BY <1>2, <2>2, <2>3
<1>. QED
  BY <1>1, <1>2, SelectAlways, PTL DEF Spec

(* What came back and what is unread are then all that was sent.           *)
LEMMA SelectExact ==
  ASSUME SelectInv, AllKept
  PROVE  S!EchoExact
<1>1. conn \in [Clients -> Connection(Clients \X Nat)]
  BY DEF SelectInv, SelectTypes
<1>2. ASSUME NEW c \in Clients
      PROVE  /\ S!IsPrefix(conn[c].echoed, S!Sent(c))
             /\ S!Open(c) => conn[c].echoed \o S!Nothing(c) \o conn[c].unread = S!Sent(c)
  <2>1. Kept(c, <<>>)
    BY DEF AllKept
  <2>2. /\ IsPrefix(conn[c].echoed, Sent(c))
        /\ Open(c) => conn[c].echoed \o <<>> \o conn[c].unread = Sent(c)
    BY <1>1, <2>1, KeptExactly, Zenon
  <2>. QED
    BY <2>2 DEF S!IsPrefix, IsPrefix, S!Sent, Sent, S!Open, Open, S!Nothing
<1>. QED
  BY <1>2 DEF S!EchoExact, S!EchoedExactly

-----------------------------------------------------------------------------
(* EventServers: in hand is what is in the output buffers.                 *)
EventHeld ==
  /\ conn \in [Clients -> Connection(Clients \X Nat)]
  /\ out \in [Clients -> Seq(Clients \X Nat)]
  /\ \A c \in Clients : Kept(c, out[c])
  /\ ~ L!Buffers => \A c \in Clients : out[c] = <<>>

(* A step that changes what is in hand for one client only.                *)
LEMMA EventHolds ==
  ASSUME EventHeld, L!Buffers' = L!Buffers, NEW c \in Clients,
         NEW r \in Connection(Clients \X Nat), conn' = [conn EXCEPT ![c] = r],
         NEW o \in Seq(Clients \X Nat), out' = [out EXCEPT ![c] = o],
         Carried(c, r, o, r.stage # "closed"),
         ~ L!Buffers => o = <<>>
  PROVE  EventHeld'
<1>1. /\ conn' \in [Clients -> Connection(Clients \X Nat)]
      /\ out' \in [Clients -> Seq(Clients \X Nat)]
  BY Zenon DEF EventHeld
<1>2. conn'[c] = r /\ out'[c] = o
  BY DEF EventHeld
<1>3. \A d \in Clients : d # c => conn'[d] = conn[d] /\ out'[d] = out[d]
  BY DEF EventHeld
<1>4. ASSUME NEW d \in Clients
      PROVE  Carried(d, conn'[d], out'[d], conn'[d].stage # "closed")
  <2>1. CASE d = c
    BY <1>2, <2>1, Zenon
  <2>2. CASE d # c
    <3>1. Carried(d, conn[d], out[d], conn[d].stage # "closed")
      BY DEF EventHeld, Kept
    <3>. QED
      BY <1>3, <2>2, <3>1, Zenon
  <2>. QED
    BY <2>1, <2>2
<1>5. ~ L!Buffers' => \A d \in Clients : out'[d] = <<>>
  BY <1>2, <1>3 DEF EventHeld
<1>6. Connection(Clients \X Nat)' = Connection(Clients \X Nat)
  BY DEF Connection
<1>. QED
  BY <1>1, <1>4, <1>5, <1>6, Zenon DEF EventHeld, Kept

(* A step that neither reads nor writes.                                   *)
LEMMA EventHeldSame ==
  ASSUME EventHeld, L!Buffers' = L!Buffers, out' = out,
         conn' \in [Clients -> Connection(Clients \X Nat)],
         \/ UNCHANGED conn
         \/ \E c \in Clients : Opened(c) \/ Ended(c) \/ Connects(c) \/ Arrives(c)
         \/ \E C \in SUBSET Fds : CloseFds(C)
  PROVE  EventHeld'
<1>1. ASSUME NEW d \in Clients
      PROVE  Carried(d, conn'[d], out[d], conn'[d].stage # "closed")
  <2>1. CASE UNCHANGED conn
    BY <2>1 DEF EventHeld, Kept
  <2>2. CASE \/ \E c \in Clients : Opened(c) \/ Ended(c) \/ Connects(c) \/ Arrives(c)
             \/ \E C \in SUBSET Fds : CloseFds(C)
    BY <2>2, KeptThrough, Zenon DEF EventHeld
  <2>. QED
    BY <2>1, <2>2
<1>2. Connection(Clients \X Nat)' = Connection(Clients \X Nat)
  BY DEF Connection
<1>. QED
  BY <1>1, <1>2, Zenon DEF EventHeld, Kept

(* Every step of the libevent servers keeps what the output buffers hold.  *)
LEMMA EventHeldNext ==
  ASSUME EventHeld, ~ L!Buffers => EventInv, L!Buffers' = L!Buffers, L!Next
  PROVE  EventHeld'
<1>1. conn \in [Clients -> Connection(Clients \X Nat)]
  BY DEF EventHeld
<1>2. CASE L!LoopExits \/ L!sigint
  BY <1>1, <1>2, EventHeldSame, Zenon DEF L!LoopExits, L!sigint
<1>3. CASE L!Environment
  <2>1. PICK c \in Clients : (Connects(c) \/ Arrives(c)) /\ out' = out
    BY <1>3, EventPeers DEF L!Environment
  <2>2. conn' \in [Clients -> Connection(Clients \X Nat)]
    BY <1>1, <2>1, StepTyped, Zenon
  <2>. QED
    BY <2>1, <2>2, EventHeldSame, Zenon
<1>4. ASSUME NEW c \in Clients, L!acceptcb(c) \/ L!connect_call_back(c)
      PROVE  EventHeld'
  <2>1. Opened(c) /\ out' = out
    BY <1>4, EventPeers, OpenedEnded DEF L!acceptcb, L!connect_call_back, Opened, L!Pending
  <2>2. conn' \in [Clients -> Connection(Clients \X Nat)]
    BY <1>1, <2>1, StepTyped, Zenon
  <2>. QED
    BY <2>1, <2>2, EventHeldSame, Zenon
<1>5. ASSUME NEW f \in Fds, L!readcb(f)
      PROVE  EventHeld'
  <2>0. ~ L!Buffers /\ EventInv /\ FdTable /\ f \in evs /\ fds[f] # None /\ fds[f] \in Clients
    BY <1>5 DEF L!readcb, L!ReadsData, L!ReadsEnd, L!AtEnd, L!ReadFails, EventInv, FdTable
  <2>1. CASE L!ReadsData(f)
    <3>1. PICK c \in Clients : c = fds[f]
      BY <2>0
    <3>2. Echoes(c, READ_MAX) /\ out' = out /\ READ_MAX \in Nat
      BY <2>1, <3>1, EventPeers, ServersAssumption DEF L!ReadsData
    <3>3. conn[c].stage # "closed"
      BY <2>0, <3>1 DEF FdTable
    <3>4. out[c] = <<>> /\ Kept(c, <<>>)
      <4>1. out[c] = <<>> /\ Kept(c, out[c])
        BY <2>0 DEF EventHeld
      <4>. QED
        BY <4>1
    <3>5. \E r \in Connection(Clients \X Nat) :
           /\ conn' = [conn EXCEPT ![c] = r]
           /\ r.stage = conn[c].stage /\ r.reset = conn[c].reset
           /\ Carried(c, r, <<>>, r.stage # "closed")
      BY <1>1, <3>2, <3>3, <3>4, KeptEchoes, Zenon
    <3>6. PICK r \in Connection(Clients \X Nat) :
           /\ conn' = [conn EXCEPT ![c] = r]
           /\ Carried(c, r, <<>>, r.stage # "closed")
      BY <3>5, Zenon
    <3>7. out' = [out EXCEPT ![c] = <<>>] /\ <<>> \in Seq(Clients \X Nat)
      BY <3>2, <3>4 DEF EventHeld
    <3>. QED
      BY <3>6, <3>7, EventHolds, Zenon
  <2>2. CASE L!ReadsEnd(f)
    <3>1. PICK C \in SUBSET Fds : C = {f}
      BY Zenon
    <3>2. CloseFds(C) /\ out' = out
      BY <2>2, <3>1, EventPeers, Zenon DEF L!ReadsEnd, L!AtEnd
    <3>3. conn' \in [Clients -> Connection(Clients \X Nat)]
      BY <1>1, <2>0, <3>2, ClosesTyped, Zenon
    <3>. QED
      BY <3>2, <3>3, EventHeldSame, Zenon
  <2>3. CASE L!ReadFails(f)
    BY <1>1, <2>3, EventHeldSame, Zenon DEF L!ReadFails
  <2>. QED
    BY <1>5, <2>1, <2>2, <2>3 DEF L!readcb
<1>6. \A n, s : L!Upto(n, s) = Upto(n, s)
  BY DEF L!Upto, Upto, L!Min, Min
<1>7. ASSUME NEW c \in Clients
      PROVE  /\ conn[c].sent \in Nat /\ conn[c].unread \in Seq(Clients \X Nat)
             /\ conn[c].echoed \in Seq(Clients \X Nat) /\ out[c] \in Seq(Clients \X Nat)
             /\ Carried(c, conn[c], out[c], conn[c].stage # "closed")
             /\ Carried(c, conn[c], out[c], conn[c].stage # "closed") /\ L!Open(c)
                  => Carried(c, conn[c], out[c], TRUE)
  <2>1. conn[c] \in Connection(Clients \X Nat)
    BY <1>1
  <2>2. Carried(c, conn[c], out[c], conn[c].stage # "closed")
    BY DEF EventHeld, Kept
  <2>. QED
    BY <2>1, <2>2 DEF Connection, EventHeld, Carried, L!Open
<1>8. ASSUME NEW c \in Clients, L!read_cb(c)
      PROVE  EventHeld'
  <2>1. PICK n \in 1 .. Len(conn[c].unread) :
          /\ out' = [out EXCEPT ![c] = out[c] \o L!Upto(n, conn[c].unread)]
          /\ conn' = [conn EXCEPT ![c].unread = SubSeq(conn[c].unread, n + 1, Len(conn[c].unread))]
    BY <1>8 DEF L!read_cb
  <2>2. n \in Nat /\ L!Buffers
    BY <1>8, <2>1 DEF L!read_cb
  <2>3. PICK u, o : /\ u = SubSeq(conn[c].unread, n + 1, Len(conn[c].unread))
                    /\ o = out[c] \o Upto(n, conn[c].unread)
    BY Zenon
  <2>4. Upto(n, conn[c].unread) \in Seq(Clients \X Nat) /\ u \in Seq(Clients \X Nat)
    <3>1. conn[c].unread \in Seq(Clients \X Nat)
      BY <1>7
    <3>2. /\ Upto(n, conn[c].unread) \in Seq(Clients \X Nat)
          /\ SubSeq(conn[c].unread, n + 1, Len(conn[c].unread)) \in Seq(Clients \X Nat)
      BY <2>2, <3>1, UptoTyped, Zenon
    <3>. QED
      BY <2>3, <3>2, Zenon
  <2>5. o \in Seq(Clients \X Nat)
    <3>1. out[c] \in Seq(Clients \X Nat)
      BY <1>7
    <3>2. out[c] \o Upto(n, conn[c].unread) \in Seq(Clients \X Nat)
      BY <2>4, <3>1, JoinTyped, Zenon
    <3>. QED
      BY <2>3, <3>2, Zenon
  <2>6. out' = [out EXCEPT ![c] = o] /\ conn' = [conn EXCEPT ![c].unread = u]
    BY <1>6, <2>1, <2>3, Zenon
  <2>7. \E r \in Connection(Clients \X Nat) :
           /\ conn' = [conn EXCEPT ![c] = r]
           /\ r.unread = u /\ r.echoed = conn[c].echoed /\ r.stage = conn[c].stage
           /\ r.sent = conn[c].sent /\ r.fin = conn[c].fin /\ r.reset = conn[c].reset
    BY <1>1, <2>4, <2>6, TakenTyped, Zenon
  <2>8. PICK r \in Connection(Clients \X Nat) :
           /\ conn' = [conn EXCEPT ![c] = r]
           /\ r.unread = u /\ r.echoed = conn[c].echoed /\ r.stage = conn[c].stage
           /\ r.sent = conn[c].sent
    BY <2>7, Zenon
  <2>9. Carried(c, r, out[c] \o Upto(n, conn[c].unread), conn[c].stage # "closed")
    BY <1>7, <2>2, <2>3, <2>8, CarriedReads, Zenon
  <2>10. Carried(c, r, o, r.stage # "closed")
    BY <2>3, <2>8, <2>9, Zenon
  <2>. QED
    BY <2>2, <2>5, <2>6, <2>8, <2>10, EventHolds, Zenon
<1>9. ASSUME NEW c \in Clients, L!Writes(c)
      PROVE  EventHeld'
  <2>1. PICK n \in 1 .. Len(out[c]) :
          /\ out' = [out EXCEPT ![c] = SubSeq(out[c], n + 1, Len(out[c]))]
          /\ conn' = [conn EXCEPT ![c].echoed = conn[c].echoed \o L!Upto(n, out[c])]
    BY <1>9 DEF L!Writes
  <2>2. n \in Nat /\ L!Buffers /\ L!Open(c)
    BY <1>9, <2>1 DEF L!Writes
  <2>3. PICK e, o : /\ e = conn[c].echoed \o Upto(n, out[c])
                    /\ o = SubSeq(out[c], n + 1, Len(out[c]))
    BY Zenon
  <2>4. Upto(n, out[c]) \in Seq(Clients \X Nat) /\ o \in Seq(Clients \X Nat)
    <3>1. out[c] \in Seq(Clients \X Nat)
      BY <1>7
    <3>2. /\ Upto(n, out[c]) \in Seq(Clients \X Nat)
          /\ SubSeq(out[c], n + 1, Len(out[c])) \in Seq(Clients \X Nat)
      BY <2>2, <3>1, UptoTyped, Zenon
    <3>. QED
      BY <2>3, <3>2, Zenon
  <2>5. e \in Seq(Clients \X Nat)
    <3>1. conn[c].echoed \in Seq(Clients \X Nat)
      BY <1>7
    <3>2. conn[c].echoed \o Upto(n, out[c]) \in Seq(Clients \X Nat)
      BY <2>4, <3>1, JoinTyped, Zenon
    <3>. QED
      BY <2>3, <3>2, Zenon
  <2>6. out' = [out EXCEPT ![c] = o] /\ conn' = [conn EXCEPT ![c].echoed = e]
    BY <1>6, <2>1, <2>3, Zenon
  <2>7. \E r \in Connection(Clients \X Nat) :
           /\ conn' = [conn EXCEPT ![c] = r]
           /\ r.unread = conn[c].unread /\ r.echoed = e /\ r.stage = conn[c].stage
           /\ r.sent = conn[c].sent /\ r.fin = conn[c].fin /\ r.reset = conn[c].reset
    BY <1>1, <2>5, <2>6, GivenTyped, Zenon
  <2>8. PICK r \in Connection(Clients \X Nat) :
           /\ conn' = [conn EXCEPT ![c] = r]
           /\ r.unread = conn[c].unread /\ r.echoed = e /\ r.stage = conn[c].stage
           /\ r.sent = conn[c].sent
    BY <2>7, Zenon
  <2>9. Carried(c, conn[c], out[c], TRUE) /\ conn[c].sent \in Nat
    BY <1>7, <2>2
  <2>10. r.echoed = conn[c].echoed \o Upto(n, out[c])
    BY <2>3, <2>8
  <2>11. Carried(c, r, SubSeq(out[c], n + 1, Len(out[c])), r.stage # "closed")
    BY <2>2, <2>8, <2>9, <2>10, CarriedWrites, Zenon
  <2>12. Carried(c, r, o, r.stage # "closed")
    BY <2>3, <2>11, Zenon
  <2>. QED
    BY <2>2, <2>4, <2>6, <2>8, <2>12, EventHolds, Zenon
<1>10. ASSUME NEW c \in Clients, L!event_cb(c)
       PROVE  EventHeld'
  <2>1. CASE UNCHANGED <<conn, out>>
    BY <1>1, <2>1, EventHeldSame, Zenon
  <2>2. CASE L!Frees(c)
    <3>1. /\ conn' = [conn EXCEPT ![c].stage = "closed", ![c].unread = <<>>]
          /\ out' = [out EXCEPT ![c] = <<>>]
      BY <2>2 DEF L!Frees
    <3>2. \E r \in Connection(Clients \X Nat) :
            /\ conn' = [conn EXCEPT ![c] = r]
            /\ r.stage = "closed" /\ r.sent = conn[c].sent /\ r.echoed = conn[c].echoed
      BY <1>1, <3>1, StageEnds, Zenon
    <3>3. PICK r \in Connection(Clients \X Nat) :
            /\ conn' = [conn EXCEPT ![c] = r]
            /\ r.stage = "closed" /\ r.sent = conn[c].sent /\ r.echoed = conn[c].echoed
      BY <3>2, Zenon
    <3>4. ~ (r.stage # "closed") /\ <<>> \in Seq(Clients \X Nat)
      BY <3>3
    <3>5. Carried(c, r, <<>>, r.stage # "closed")
      BY <1>7, <3>3, <3>4, CarriedEnds, Zenon
    <3>. QED
      BY <3>1, <3>3, <3>4, <3>5, EventHolds, Zenon
  <2>. QED
    BY <1>10, <2>1, <2>2 DEF L!event_cb
<1>11. CASE L!Server
  BY <1>2, <1>4, <1>5, <1>8, <1>9, <1>10, <1>11, EventPeers DEF L!Server
<1>. QED
  BY <1>2, <1>3, <1>11 DEF L!Next

(* What the output buffers hold is known throughout their runs.            *)
LEMMA EventHeldAlways == Spec => [](Runs(L!Programs) => EventHeld)
<1>1. Init => (Runs(L!Programs) => EventHeld)
  <2>1. ASSUME L!Init
        PROVE  EventHeld
    <3>1. conn = [c \in Clients |-> NoConn] /\ out = [c \in Clients |-> <<>>]
      BY <2>1 DEF L!Init, L!InitPeers, L!NoConn, NoConn
    <3>2. conn \in [Clients -> Connection(Clients \X Nat)] /\ <<>> \in Seq(Clients \X Nat)
      BY <3>1, NoConnTyped
    <3>3. \A c \in Clients : Kept(c, <<>>)
      BY <3>1, AllKeptInit DEF AllKept
    <3>. QED
      BY <3>1, <3>2, <3>3 DEF EventHeld
  <2>. QED
    BY <2>1, OnlyOneStarts
<1>2. ASSUME Runs(L!Programs) => (~ L!Buffers => EventInv), Runs(L!Programs) => EventHeld, [Next]_mcVars
      PROVE  (Runs(L!Programs) => EventHeld)'
  <2>1. program' = program /\ L!Buffers' = L!Buffers
    BY <1>2, ProgramStays DEF L!Buffers
  <2>2. CASE UNCHANGED mcVars
    <3>1. UNCHANGED <<conn, out>>
      BY <2>2 DEF mcVars, httpVars
    <3>2. EventHeld => EventHeld'
      BY <2>1, <3>1, EventHeldSame, Zenon DEF EventHeld
    <3>. QED
      BY <1>2, <2>1, <3>2 DEF Runs
  <2>3. CASE Next
    BY <1>2, <2>1, <2>3, OnlyOneRuns, EventHeldNext DEF Runs
  <2>. QED
    BY <1>2, <2>2, <2>3
<1>. QED
  BY <1>1, <1>2, EventAlways, PTL DEF Spec

(* The output buffer holds what was read and has not come back.            *)
LEMMA EventExact ==
  ASSUME EventHeld
  PROVE  L!EchoExact
<1>1. ASSUME NEW c \in Clients
      PROVE  /\ L!IsPrefix(conn[c].echoed, L!Sent(c))
             /\ L!Open(c) => conn[c].echoed \o L!InBuffer(c) \o conn[c].unread = L!Sent(c)
  <2>1. conn \in [Clients -> Connection(Clients \X Nat)] /\ Kept(c, out[c])
    BY DEF EventHeld
  <2>2. /\ IsPrefix(conn[c].echoed, Sent(c))
        /\ Open(c) => conn[c].echoed \o out[c] \o conn[c].unread = Sent(c)
    BY <2>1, KeptExactly, Zenon
  <2>. QED
    BY <2>2 DEF L!IsPrefix, IsPrefix, L!Sent, Sent, L!Open, Open, L!InBuffer
<1>. QED
  BY <1>1 DEF L!EchoExact, L!EchoedExactly

-----------------------------------------------------------------------------
(* SigioServers: a closed connection has nothing left to read.             *)
SigioHeld ==
  /\ conn \in [Clients -> Connection(Clients \X Nat)]
  /\ \A c \in Clients : conn[c].stage = "closed" => conn[c].unread = <<>>
  /\ AllKept

(* What the names of Peers mean in the servers driven by SIGIO.            *)
LEMMA SigioPeers ==
  /\ \A c, n : G!Echoes(c, n) => Echoes(c, n)
  /\ \A c \in Clients : /\ G!Pending = Pending
                        /\ G!Readable(c) <=> Readable(c)
                        /\ G!Connects(c) => Connects(c)
                        /\ G!Arrives(c) => Arrives(c)
<1>1. \A T : G!Min(T) = Min(T)
  BY DEF G!Min, Min
<1>2. ASSUME NEW c, NEW n
      PROVE  G!Echoes(c, n) => Echoes(c, n)
  BY <1>1, Zenon DEF G!Echoes, Echoes, G!Upto, Upto
<1>3. ASSUME NEW c \in Clients
      PROVE  /\ G!Pending = Pending
             /\ G!Readable(c) <=> Readable(c)
             /\ G!Connects(c) => Connects(c)
             /\ G!Arrives(c) => Arrives(c)
  BY DEF G!Pending, Pending, G!Readable, Readable,
         G!Connects, G!Arrives, G!Sends, G!ShutsDown, G!Resets, G!Alive, G!Open,
         Connects, Arrives, Sends, ShutsDown, Resets, Alive, Open
<1>. QED
  BY <1>2, <1>3

(* The step of one connection.                                             *)
LEMMA SigioHolds ==
  ASSUME SigioHeld,
         \/ UNCHANGED conn
         \/ \E c \in Clients :
              \/ Opened(c) \/ Connects(c) \/ Arrives(c)
              \/ conn' = [conn EXCEPT ![c].stage = "closed", ![c].unread = <<>>]
              \/ conn' = [conn EXCEPT ![c].stage = "closed"] /\ conn[c].unread = <<>>
              \/ Echoes(c, READ_MAX) /\ conn[c].unread # <<>>
  PROVE  SigioHeld'
<1>1. /\ conn \in [Clients -> Connection(Clients \X Nat)] /\ AllKept /\ READ_MAX \in Nat
  BY ServersAssumption DEF SigioHeld
<1>2. Connection(Clients \X Nat)' = Connection(Clients \X Nat)
  BY DEF Connection
<1>3. CASE UNCHANGED conn
  BY <1>2, <1>3, Zenon DEF SigioHeld, AllKept, Kept
<1>4. ASSUME NEW c \in Clients, NEW r \in Connection(Clients \X Nat), conn' = [conn EXCEPT ![c] = r],
             r.stage = "closed" => r.unread = <<>>, AllKept'
      PROVE  SigioHeld'
  <2>1. conn' \in [Clients -> Connection(Clients \X Nat)]
    BY <1>1, <1>4, Zenon
  <2>2. \A d \in Clients : conn'[d].stage = "closed" => conn'[d].unread = <<>>
    BY <1>1, <1>4 DEF SigioHeld
  <2>. QED
    BY <1>2, <1>4, <2>1, <2>2, Zenon DEF SigioHeld
<1>5. ASSUME NEW c \in Clients, Connects(c) \/ Arrives(c)
      PROVE  SigioHeld'
  <2>1. \E r \in Connection(Clients \X Nat) :
           /\ conn' = [conn EXCEPT ![c] = r]
           /\ r.stage # "closed" /\ conn[c].stage # "closed"
           /\ r.stage = "open" <=> conn[c].stage = "open"
           /\ conn[c].reset => r.reset
           /\ \A h, w : Carried(c, conn[c], h, w) => Carried(c, r, h, w)
    BY <1>1, <1>5, ArrivesUnread, Zenon
  <2>2. PICK r \in Connection(Clients \X Nat) : conn' = [conn EXCEPT ![c] = r] /\ r.stage # "closed"
    BY <2>1, Zenon
  <2>3. AllKept'
    BY <1>1, <1>5, AllKeptNext
  <2>. QED
    BY <1>4, <2>2, <2>3, Zenon
<1>6. ASSUME NEW c \in Clients, Opened(c)
      PROVE  SigioHeld'
  <2>1. conn' = [conn EXCEPT ![c].stage = "open"]
    BY <1>6 DEF Opened
  <2>2. \E r \in Connection(Clients \X Nat) :
            /\ conn' = [conn EXCEPT ![c] = r]
            /\ r.stage = "open" /\ r.sent = conn[c].sent /\ r.unread = conn[c].unread
            /\ r.echoed = conn[c].echoed /\ r.fin = conn[c].fin /\ r.reset = conn[c].reset
    BY <1>1, <2>1, StageSet, Zenon
  <2>3. PICK r \in Connection(Clients \X Nat) : conn' = [conn EXCEPT ![c] = r] /\ r.stage = "open"
    BY <2>2, Zenon
  <2>4. AllKept'
    BY <1>1, <1>6, AllKeptNext
  <2>5. r.stage # "closed"
    BY <2>3
  <2>. QED
    BY <1>4, <2>3, <2>4, <2>5, Zenon
<1>7. ASSUME NEW c \in Clients, conn' = [conn EXCEPT ![c].stage = "closed", ![c].unread = <<>>]
      PROVE  SigioHeld'
  <2>1. PICK r1 : r1 = [conn[c] EXCEPT !.stage = "closed"]
    BY Zenon
  <2>2. PICK r : r = [r1 EXCEPT !.unread = <<>>]
    BY Zenon
  <2>0. <<>> \in Seq(Clients \X Nat)
    OBVIOUS
  <2>3. conn[c] \in Connection(Clients \X Nat) /\ <<>> \in Seq(Clients \X Nat)
    BY <1>1, <2>0, Zenon
  <2>4. r1 \in Connection(Clients \X Nat)
    BY <2>1, <2>3, Zenon DEF Connection
  <2>5. r \in Connection(Clients \X Nat) /\ r.unread = <<>>
    BY <2>2, <2>3, <2>4, Zenon DEF Connection
  <2>6. conn' = [conn EXCEPT ![c] = r]
    BY <1>1, <1>7, <2>1, <2>2, <2>3 DEF Connection
  <2>7. AllKept'
    BY <1>1, <1>7, AllKeptNext DEF Ended
  <2>. QED
    BY <1>4, <2>5, <2>6, <2>7, Zenon
<1>8. ASSUME NEW c \in Clients, conn' = [conn EXCEPT ![c].stage = "closed"], conn[c].unread = <<>>
      PROVE  SigioHeld'
  <2>1. \E r \in Connection(Clients \X Nat) :
            /\ conn' = [conn EXCEPT ![c] = r]
            /\ r.stage = "closed" /\ r.sent = conn[c].sent /\ r.unread = conn[c].unread
            /\ r.echoed = conn[c].echoed /\ r.fin = conn[c].fin /\ r.reset = conn[c].reset
    BY <1>1, <1>8, StageSet, Zenon
  <2>2. PICK r \in Connection(Clients \X Nat) : conn' = [conn EXCEPT ![c] = r] /\ r.unread = conn[c].unread
    BY <2>1, Zenon
  <2>3. AllKept'
    BY <1>1, <1>8, AllKeptNext DEF Ended
  <2>4. r.unread = <<>>
    BY <1>8, <2>2
  <2>. QED
    BY <1>4, <2>2, <2>3, <2>4, Zenon
<1>9. ASSUME NEW c \in Clients, Echoes(c, READ_MAX), conn[c].unread # <<>>
      PROVE  SigioHeld'
  <2>1. conn[c].stage # "closed"
    BY <1>9 DEF SigioHeld
  <2>2. AllKept'
    BY <1>1, <1>9, <2>1, AllKeptNext
  <2>3. Kept(c, <<>>)
    BY <1>1 DEF AllKept
  <2>4. \E r \in Connection(Clients \X Nat) :
           /\ conn' = [conn EXCEPT ![c] = r]
           /\ r.stage = conn[c].stage /\ r.reset = conn[c].reset
           /\ Carried(c, r, <<>>, r.stage # "closed")
    BY <1>1, <1>9, <2>1, <2>3, KeptEchoes, Zenon
  <2>5. PICK r \in Connection(Clients \X Nat) :
           conn' = [conn EXCEPT ![c] = r] /\ r.stage = conn[c].stage
    BY <2>4, Zenon
  <2>6. r.stage # "closed"
    BY <2>1, <2>5
  <2>. QED
    BY <1>4, <2>2, <2>5, <2>6, Zenon
<1>. QED
  BY <1>3, <1>5, <1>6, <1>7, <1>8, <1>9

(* What every step does to the connections.                                *)
LEMMA SigioHeldNext ==
  ASSUME SigioHeld, G!Next
  PROVE  SigioHeld'
<1>1. CASE G!Environment
  <2>1. \E c \in Clients : Connects(c) \/ Arrives(c)
    BY <1>1, SigioPeers DEF G!Environment
  <2>. QED
    BY <2>1, SigioHolds
<1>2. CASE G!Listens \/ G!Forks \/ G!SetsFlag
  <2>1. UNCHANGED conn
    BY <1>2 DEF G!Listens, G!Forks, G!SetsFlag, G!Main
  <2>. QED
    BY <2>1, SigioHolds
<1>3. ASSUME NEW p \in G!Procs, G!sig_io(p) \/ G!AcceptsNone(p) \/ G!set_aio(p)
      PROVE  SigioHeld'
  <2>1. UNCHANGED conn
    BY <1>3, Zenon DEF G!sig_io, G!AcceptsNone, G!set_aio, G!Arms
  <2>. QED
    BY <2>1, SigioHolds
<1>4. ASSUME NEW p \in G!Procs, NEW c \in Clients, G!AcceptsOne(p, c)
      PROVE  SigioHeld'
  <2>1. conn[c].stage = "pending"
    BY <1>4 DEF G!AcceptsOne, G!Pending
  <2>2. \/ conn' = [conn EXCEPT ![c].stage = "closed", ![c].unread = <<>>]
        \/ conn' = [conn EXCEPT ![c].stage = "open"]
    BY <1>4, Zenon DEF G!AcceptsOne
  <2>. QED
    BY <2>1, <2>2, SigioHolds DEF Opened
<1>5. ASSUME NEW p \in G!Procs, NEW i \in G!Entries, G!ReadsNothing(p, i)
      PROVE  SigioHeld'
  <2>1. UNCHANGED conn
    BY <1>5 DEF G!ReadsNothing
  <2>. QED
    BY <2>1, SigioHolds
<1>6. ASSUME NEW p \in G!Procs, NEW i \in G!Entries, NEW c \in Clients,
             G!ReadsData(p, i, c) \/ G!ReadsEnd(p, i, c) \/ G!Exits(p, i, c)
      PROVE  SigioHeld'
  <2>1. CASE G!ReadsData(p, i, c)
    <3>1. Echoes(c, READ_MAX) /\ conn[c].unread # <<>>
      BY <2>1, SigioPeers DEF G!ReadsData
    <3>. QED
      BY <3>1, SigioHolds
  <2>2. CASE G!ReadsEnd(p, i, c)
    <3>1. UNCHANGED conn \/ (conn' = [conn EXCEPT ![c].stage = "closed"] /\ conn[c].unread = <<>>)
      BY <2>2, Zenon DEF G!ReadsEnd
    <3>. QED
      BY <3>1, SigioHolds
  <2>3. CASE G!Exits(p, i, c)
    <3>1. UNCHANGED conn
      BY <2>3 DEF G!Exits
    <3>. QED
      BY <3>1, SigioHolds
  <2>. QED
    BY <1>6, <2>1, <2>2, <2>3
<1>. QED
  BY <1>1, <1>2, <1>3, <1>4, <1>5, <1>6 DEF G!Next, G!Server

(* Nothing is in hand between the steps of the servers driven by SIGIO.    *)
LEMMA SigioHeldAlways == Spec => [](Runs(G!Programs) => SigioHeld)
<1>1. Init => (Runs(G!Programs) => SigioHeld)
  <2>1. ASSUME G!Init
        PROVE  SigioHeld
    <3>1. conn = [c \in Clients |-> NoConn]
      BY <2>1 DEF G!Init, G!InitPeers, G!NoConn, NoConn
    <3>2. conn \in [Clients -> Connection(Clients \X Nat)]
      BY <3>1, NoConnTyped
    <3>3. \A c \in Clients : conn[c].stage # "closed"
      BY <3>1 DEF NoConn
    <3>. QED
      BY <3>1, <3>2, <3>3, AllKeptInit DEF SigioHeld
  <2>. QED
    BY <2>1, OnlyOneStarts
<1>2. ASSUME Runs(G!Programs) => SigioHeld, [Next]_mcVars
      PROVE  (Runs(G!Programs) => SigioHeld)'
  <2>1. program' = program
    BY <1>2, ProgramStays
  <2>2. CASE UNCHANGED mcVars
    <3>1. UNCHANGED conn
      BY <2>2 DEF mcVars
    <3>2. SigioHeld => SigioHeld'
      BY <3>1, SigioHolds
    <3>. QED
      BY <1>2, <2>1, <3>2 DEF Runs
  <2>3. CASE Next
    BY <1>2, <2>1, <2>3, OnlyOneRuns, SigioHeldNext DEF Runs
  <2>. QED
    BY <1>2, <2>2, <2>3
<1>. QED
  BY <1>1, <1>2, PTL DEF Spec

(* What came back and what is unread are then all that was sent.           *)
LEMMA SigioExact ==
  ASSUME SigioHeld
  PROVE  G!EchoExact
<1>1. ASSUME NEW c \in Clients
      PROVE  /\ G!IsPrefix(conn[c].echoed, G!Sent(c))
             /\ G!Open(c) => conn[c].echoed \o G!Nothing(c) \o conn[c].unread = G!Sent(c)
  <2>1. conn \in [Clients -> Connection(Clients \X Nat)] /\ Kept(c, <<>>)
    BY DEF SigioHeld, AllKept
  <2>2. /\ IsPrefix(conn[c].echoed, Sent(c))
        /\ Open(c) => conn[c].echoed \o <<>> \o conn[c].unread = Sent(c)
    BY <2>1, KeptExactly, Zenon
  <2>. QED
    BY <2>2 DEF G!IsPrefix, IsPrefix, G!Sent, Sent, G!Open, Open, G!Nothing
<1>. QED
  BY <1>1 DEF G!EchoExact, G!EchoedExactly

-----------------------------------------------------------------------------
(* ForkServers: in hand is the line the worker has read.                   *)
NoLine == {"none", "started", "reading"}

ForkHeld ==
  \A c \in Clients : /\ Kept(c, worker[c].line)
                     /\ worker[c].state \in NoLine => worker[c].line = <<>>

(* A step of one worker.                                                   *)
LEMMA ForkHolds ==
  ASSUME ForkHeld, NEW c \in Clients,
         \A d \in Clients \ {c} : conn'[d] = conn[d] /\ worker'[d] = worker[d],
         Carried(c, conn'[c], worker'[c].line, conn'[c].stage # "closed"),
         worker'[c].state \in NoLine => worker'[c].line = <<>>
  PROVE  ForkHeld'
<1>1. ASSUME NEW d \in Clients
      PROVE  /\ Carried(d, conn'[d], worker'[d].line, conn'[d].stage # "closed")
             /\ worker'[d].state \in NoLine => worker'[d].line = <<>>
  <2>1. CASE d = c
    BY <2>1, Zenon
  <2>2. CASE d # c
    <3>1. conn'[d] = conn[d] /\ worker'[d] = worker[d]
      BY <2>2
    <3>2. /\ Carried(d, conn[d], worker[d].line, conn[d].stage # "closed")
          /\ worker[d].state \in NoLine => worker[d].line = <<>>
      BY DEF ForkHeld, Kept
    <3>. QED
      BY <3>1, <3>2, Zenon
  <2>. QED
    BY <2>1, <2>2
<1>. QED
  BY <1>1, Zenon DEF ForkHeld, Kept, NoLine

(* A step that reads and writes no line.                                   *)
LEMMA ForkHeldSame ==
  ASSUME ForkHeld, conn \in [Clients -> Connection(Clients \X Nat)],
         \A d \in Clients : /\ worker'[d].line = worker[d].line
                            /\ worker'[d].state \in NoLine => worker[d].state \in NoLine,
         \/ UNCHANGED conn
         \/ \E c \in Clients : Opened(c) \/ Ended(c) \/ Connects(c) \/ Arrives(c)
  PROVE  ForkHeld'
<1>1. ASSUME NEW d \in Clients
      PROVE  Carried(d, conn'[d], worker[d].line, conn'[d].stage # "closed")
  <2>0. Kept(d, worker[d].line)
    BY DEF ForkHeld
  <2>1. CASE UNCHANGED conn
    BY <2>0, <2>1 DEF Kept
  <2>2. CASE \E c \in Clients : Opened(c) \/ Ended(c) \/ Connects(c) \/ Arrives(c)
    BY <2>0, <2>2, KeptThrough, Zenon
  <2>. QED
    BY <2>1, <2>2
<1>2. ASSUME NEW d \in Clients
      PROVE  /\ Carried(d, conn'[d], worker'[d].line, conn'[d].stage # "closed")
             /\ worker'[d].state \in NoLine => worker'[d].line = <<>>
  <2>1. worker'[d].line = worker[d].line /\ (worker'[d].state \in NoLine => worker[d].state \in NoLine)
    OBVIOUS
  <2>2. worker[d].state \in NoLine => worker[d].line = <<>>
    BY DEF ForkHeld
  <2>3. Carried(d, conn'[d], worker'[d].line, conn'[d].stage # "closed")
    BY <1>1, <2>1, Zenon
  <2>. QED
    BY <2>1, <2>2, <2>3, Zenon
<1>. QED
  BY <1>2, Zenon DEF ForkHeld, Kept, NoLine

(* A worker whose state changes keeps its line.                            *)
LEMMA StateSet ==
  ASSUME worker \in [Clients -> Workers], NEW c \in Clients, NEW state,
         worker' = [worker EXCEPT ![c].state = state]
  PROVE  /\ \A d \in Clients : worker'[d].line = worker[d].line
         /\ \A d \in Clients \ {c} : worker'[d] = worker[d]
         /\ worker'[c].state = state
<1>1. worker[c] \in Workers
  OBVIOUS
<1>2. PICK r : r = [worker[c] EXCEPT !.state = state]
  BY Zenon
<1>3. r.line = worker[c].line /\ r.state = state
  BY <1>1, <1>2 DEF Workers
<1>4. worker' = [worker EXCEPT ![c] = r]
  BY <1>2
<1>. QED
  BY <1>3, <1>4

(* The first line, and the others.                                         *)
LEMMA LineTaken ==
  ASSUME NEW s \in Seq(Clients \X Nat), s # <<>>
  PROVE  /\ Upto(1, s) = <<Head(s)>> /\ SubSeq(s, 1 + 1, Len(s)) = Tail(s)
         /\ Tail(s) \in Seq(Clients \X Nat)
<1>0. PICK n \in Nat : n = 1
  OBVIOUS
<1>1. PICK l \in Nat : l = Len(s) /\ l >= 1
  OBVIOUS
<1>2. PICK k : k = Min({n, Len(s)})
  BY Zenon
<1>3. k \in {n, l} /\ k =< n /\ k =< l
  BY <1>1, <1>2, MinIsLeast, Zenon
<1>4. k = 1
  BY <1>0, <1>1, <1>3
<1>5. Upto(1, s) = SubSeq(s, 1, 1)
  BY <1>0, <1>2, <1>4, Zenon DEF Upto
<1>6. SubSeq(s, 1, 1) = <<Head(s)>>
  <2>1. PICK t : t = SubSeq(s, 1, 1)
    BY Zenon
  <2>2. t \in Seq(Clients \X Nat) /\ Len(t) = 1 /\ t[1] = s[1]
    BY <1>1, <2>1
  <2>3. t = <<s[1]>>
    BY <2>2
  <2>4. Head(s) = s[1]
    OBVIOUS
  <2>. QED
    BY <2>1, <2>3, <2>4, Zenon
<1>7. Tail(s) \in Seq(Clients \X Nat)
  OBVIOUS
<1>. QED
  BY <1>5, <1>6, <1>7

(* readline moves a line into the empty hand of the worker.                *)
LEMMA ForkHeldReads ==
  ASSUME ForkInv, ForkHeld, NEW c \in Clients, F!ReadsLine(c)
  PROVE  ForkHeld'
<1>1. /\ worker \in [Clients -> Workers] /\ conn \in [Clients -> Connection(Clients \X Nat)]
      /\ pc # "exited" /\ worker[c].state = "reading"
  BY DEF ForkInv, ForkTypes, F!ReadsLine, F!WorkerSteps
<1>2. worker[c].serves = c
  BY <1>1 DEF ForkInv, ForkOk
<1>3. /\ conn[c].unread # <<>>
      /\ worker' = [worker EXCEPT ![c].state = "writing", ![c].line = <<Head(conn[c].unread)>>]
      /\ conn' = [conn EXCEPT ![c].unread = Tail(conn[c].unread)]
  BY <1>2 DEF F!ReadsLine
<1>4. worker[c] \in Workers /\ conn[c].unread \in Seq(Clients \X Nat) /\ conn[c].sent \in Nat
  <2>1. conn[c] \in Connection(Clients \X Nat)
    BY <1>1
  <2>. QED
    BY <1>1, <2>1 DEF Connection
<1>5. PICK line : line = <<Head(conn[c].unread)>>
  OBVIOUS
<1>6. PICK r1 : r1 = [worker[c] EXCEPT !.state = "writing"]
  BY Zenon
<1>7. PICK r : r = [r1 EXCEPT !.line = line]
  BY Zenon
<1>8. r.state = "writing" /\ r.line = line
  BY <1>4, <1>6, <1>7 DEF Workers
<1>9. worker' = [worker EXCEPT ![c] = r]
  BY <1>1, <1>3, <1>4, <1>5, <1>6, <1>7 DEF Workers
<1>10. worker'[c] = r /\ \A d \in Clients \ {c} : worker'[d] = worker[d]
  BY <1>1, <1>9
<1>11. PICK u \in Seq(Clients \X Nat) : u = Tail(conn[c].unread)
  BY <1>3, <1>4, LineTaken, Zenon
<1>12. conn' = [conn EXCEPT ![c].unread = u]
  BY <1>3, <1>11, Zenon
<1>13. \E k \in Connection(Clients \X Nat) :
           /\ conn' = [conn EXCEPT ![c] = k]
           /\ k.unread = u /\ k.echoed = conn[c].echoed /\ k.stage = conn[c].stage
           /\ k.sent = conn[c].sent /\ k.fin = conn[c].fin /\ k.reset = conn[c].reset
  BY <1>1, <1>12, TakenTyped, Zenon
<1>14. PICK k \in Connection(Clients \X Nat) :
           /\ conn' = [conn EXCEPT ![c] = k]
           /\ k.unread = u /\ k.echoed = conn[c].echoed /\ k.stage = conn[c].stage
           /\ k.sent = conn[c].sent
  BY <1>13, Zenon
<1>15. conn'[c] = k /\ \A d \in Clients \ {c} : conn'[d] = conn[d]
  BY <1>1, <1>14
<1>16. Carried(c, conn[c], <<>>, conn[c].stage # "closed")
  <2>1. worker[c].line = <<>> /\ Kept(c, worker[c].line)
    BY <1>1 DEF ForkHeld, NoLine
  <2>. QED
    BY <2>1 DEF Kept
<1>17. Upto(1, conn[c].unread) = line /\ SubSeq(conn[c].unread, 1 + 1, Len(conn[c].unread)) = k.unread
  BY <1>3, <1>4, <1>5, <1>11, <1>14, LineTaken, Zenon
<1>18. PICK n \in Nat : n = 1
  OBVIOUS
<1>19. Upto(n, conn[c].unread) = line /\ k.unread = SubSeq(conn[c].unread, n + 1, Len(conn[c].unread))
  BY <1>17, <1>18, Zenon
<1>20. Carried(c, k, line, conn[c].stage # "closed")
  <2>1. <<>> = <<>> => Carried(c, k, Upto(n, conn[c].unread), conn[c].stage # "closed")
    BY <1>4, <1>14, <1>16, <1>19, CarriedReads, Zenon
  <2>. QED
    BY <1>19, <2>1, Zenon
<1>21. Carried(c, conn'[c], worker'[c].line, conn'[c].stage # "closed")
  BY <1>8, <1>10, <1>14, <1>15, <1>20, Zenon
<1>22. worker'[c].state \notin NoLine
  BY <1>8, <1>10 DEF NoLine
<1>. QED
  BY <1>10, <1>15, <1>21, <1>22, ForkHolds, Zenon

(* writen moves the line to the client.                                    *)
LEMMA ForkHeldWrites ==
  ASSUME ForkInv, ForkHeld, NEW c \in Clients, F!WritesLine(c)
  PROVE  ForkHeld'
<1>1. /\ worker \in [Clients -> Workers] /\ conn \in [Clients -> Connection(Clients \X Nat)]
      /\ pc # "exited" /\ worker[c].state = "writing"
  BY DEF ForkInv, ForkTypes, F!WritesLine, F!WorkerSteps
<1>2. worker[c].serves = c /\ conn[c].stage = "open"
  BY <1>1 DEF ForkInv, ForkOk
<1>3. /\ worker' = [worker EXCEPT ![c].state = "reading", ![c].line = <<>>]
      /\ conn' = [conn EXCEPT ![c].echoed = conn[c].echoed \o worker[c].line]
  BY <1>2 DEF F!WritesLine
<1>4. worker[c] \in Workers /\ conn[c].echoed \in Seq(Clients \X Nat) /\ conn[c].sent \in Nat
  <2>1. conn[c] \in Connection(Clients \X Nat)
    BY <1>1
  <2>. QED
    BY <1>1, <2>1 DEF Connection
<1>5. worker[c].line \in Seq(Clients \X Nat)
  BY <1>4 DEF Workers
<1>6. PICK r1 : r1 = [worker[c] EXCEPT !.state = "reading"]
  BY Zenon
<1>7. PICK r : r = [r1 EXCEPT !.line = <<>>]
  BY Zenon
<1>8. r.state = "reading" /\ r.line = <<>>
  BY <1>4, <1>6, <1>7 DEF Workers
<1>9. worker' = [worker EXCEPT ![c] = r]
  BY <1>1, <1>3, <1>4, <1>6, <1>7 DEF Workers
<1>10. worker'[c] = r /\ \A d \in Clients \ {c} : worker'[d] = worker[d]
  BY <1>1, <1>9
<1>11. PICK e : e = conn[c].echoed \o worker[c].line
  BY Zenon
<1>12. e \in Seq(Clients \X Nat) /\ conn' = [conn EXCEPT ![c].echoed = e]
  BY <1>3, <1>4, <1>5, <1>11, JoinTyped, Zenon
<1>13. \E k \in Connection(Clients \X Nat) :
           /\ conn' = [conn EXCEPT ![c] = k]
           /\ k.unread = conn[c].unread /\ k.echoed = e /\ k.stage = conn[c].stage
           /\ k.sent = conn[c].sent /\ k.fin = conn[c].fin /\ k.reset = conn[c].reset
  BY <1>1, <1>12, GivenTyped, Zenon
<1>14. PICK k \in Connection(Clients \X Nat) :
           /\ conn' = [conn EXCEPT ![c] = k]
           /\ k.unread = conn[c].unread /\ k.echoed = e /\ k.stage = conn[c].stage
           /\ k.sent = conn[c].sent
  BY <1>13, Zenon
<1>15. conn'[c] = k /\ \A d \in Clients \ {c} : conn'[d] = conn[d]
  BY <1>1, <1>14
<1>16. Carried(c, conn[c], worker[c].line, TRUE)
  <2>1. Carried(c, conn[c], worker[c].line, conn[c].stage # "closed")
    BY DEF ForkHeld, Kept
  <2>. QED
    BY <1>2, <2>1 DEF Carried
<1>17. k.echoed = conn[c].echoed \o worker[c].line
  BY <1>11, <1>14
<1>18. Carried(c, k, <<>>, k.stage # "closed")
  BY <1>4, <1>14, <1>16, <1>17, CarriedGives, Zenon
<1>19. Carried(c, conn'[c], worker'[c].line, conn'[c].stage # "closed")
  BY <1>8, <1>10, <1>15, <1>18, Zenon
<1>20. worker'[c].line = <<>>
  BY <1>8, <1>10
<1>. QED
  BY <1>10, <1>15, <1>19, <1>20, ForkHolds, Zenon

(* A worker that leaves, and a descriptor that is closed.                  *)
LEMMA DropsEnds ==
  ASSUME NEW c, NEW who, F!Drops(c, who)
  PROVE  UNCHANGED conn \/ Ended(c)
BY Zenon DEF F!Drops, Ended

(* A worker that stops has nothing in hand, or loses it with the           *)
(* connection.                                                             *)
LEMMA ForkHeldStops ==
  ASSUME ForkInv, ForkHeld, NEW c \in Clients, F!StopsReading(c) \/ F!Fails(c)
  PROVE  ForkHeld'
<1>1. worker \in [Clients -> Workers] /\ conn \in [Clients -> Connection(Clients \X Nat)]
  BY DEF ForkInv, ForkTypes
<1>2. CASE F!Leaves(c)
  <2>0. worker[c].serves = c
    <3>1. pc # "exited" /\ worker[c].state \in {"reading", "writing"}
      BY DEF F!StopsReading, F!Fails, F!WorkerSteps
    <3>. QED
      BY <3>1 DEF ForkInv, ForkOk
  <2>1. UNCHANGED conn \/ Ended(c)
    BY <1>2, <2>0, DropsEnds, Zenon DEF F!Leaves
  <2>2. PICK state : /\ worker' = [worker EXCEPT ![c].state = state]
                     /\ state = IF F!Forks THEN "zombie" ELSE "gone"
    BY <1>2 DEF F!Leaves
  <2>3. state \notin NoLine
    BY <2>2 DEF NoLine
  <2>4. /\ \A d \in Clients : worker'[d].line = worker[d].line
        /\ \A d \in Clients \ {c} : worker'[d] = worker[d]
        /\ worker'[c].state = state
    BY <1>1, <2>2, StateSet
  <2>5. \A d \in Clients : worker'[d].state \in NoLine => worker[d].state \in NoLine
    BY <2>3, <2>4
  <2>. QED
    BY <1>1, <2>1, <2>4, <2>5, ForkHeldSame
<1>3. CASE ~ F!Leaves(c)
  <2>1. UNCHANGED <<conn, worker>>
    BY <1>3 DEF F!StopsReading, F!Fails
  <2>. QED
    BY <1>1, <2>1, ForkHeldSame
<1>. QED
  BY <1>2, <1>3

(* A worker that starts has nothing in hand.                               *)
LEMMA ForkHeldStarts ==
  ASSUME ForkInv, ForkHeld, F!Starts
  PROVE  ForkHeld'
<1>1. /\ worker \in [Clients -> Workers] /\ conn \in [Clients -> Connection(Clients \X Nat)]
      /\ pc = "fork" /\ cfd \in Clients /\ conn' = conn
  BY DEF ForkInv, ForkTypes, F!Starts, F!MainGoes
<1>2. PICK c \in Clients : c = cfd
  BY <1>1
<1>3. PICK r : /\ r = [state |-> "started", serves |-> None, line |-> <<>>]
               /\ worker' = [worker EXCEPT ![c] = r]
  BY <1>2 DEF F!Starts
<1>4. r.line = <<>>
  BY <1>3
<1>5. worker'[c] = r /\ \A d \in Clients \ {c} : worker'[d] = worker[d]
  BY <1>1, <1>3
<1>6. worker[c].state = "none"
  BY <1>1, <1>2 DEF ForkInv, ForkOk, MainAt
<1>7. worker[c].line = <<>> /\ Carried(c, conn[c], worker[c].line, conn[c].stage # "closed")
  BY <1>6 DEF ForkHeld, Kept, NoLine
<1>8. Carried(c, conn'[c], worker'[c].line, conn'[c].stage # "closed")
  BY <1>1, <1>4, <1>5, <1>7, Zenon
<1>. QED
  BY <1>1, <1>4, <1>5, <1>8, ForkHolds

(* Every step of parent and workers keeps what the workers hold.           *)
LEMMA ForkHeldNext ==
  ASSUME ForkInv, ForkHeld, F!Next
  PROVE  ForkHeld'
<1>1. /\ worker \in [Clients -> Workers] /\ conn \in [Clients -> Connection(Clients \X Nat)]
      /\ pc = "close" => cfd \in Clients
  BY DEF ForkInv, ForkTypes
<1>2. ASSUME NEW c \in Clients, F!Accept(c) \/ F!AcceptFails(c)
      PROVE  ForkHeld'
  <2>1. worker' = worker /\ (Opened(c) \/ Ended(c))
    BY <1>2 DEF F!Accept, F!AcceptFails, F!Pending, Opened, Ended
  <2>. QED
    BY <1>1, <2>1, ForkHeldSame
<1>3. CASE F!ParentCloses
  <2>1. PICK c \in Clients : c = cfd /\ F!Drops(c, "main") /\ worker' = worker
    BY <1>1, <1>3 DEF F!ParentCloses, F!MainGoes
  <2>2. UNCHANGED conn \/ Ended(c)
    BY <2>1, DropsEnds, Zenon
  <2>. QED
    BY <1>1, <2>1, <2>2, ForkHeldSame
<1>4. CASE F!HandlerStarts \/ F!HandlerReturns
  <2>1. UNCHANGED <<conn, worker>>
    BY <1>4 DEF F!HandlerStarts, F!HandlerReturns
  <2>. QED
    BY <1>1, <2>1, ForkHeldSame
<1>5. CASE F!HandlerWaits
  <2>1. PICK c \in Clients : worker' = [worker EXCEPT ![c].state = "reaped"] /\ conn' = conn
    BY <1>5 DEF F!HandlerWaits, F!Zombies
  <2>2. /\ \A d \in Clients : worker'[d].line = worker[d].line
        /\ \A d \in Clients \ {c} : worker'[d] = worker[d]
        /\ worker'[c].state = "reaped"
    BY <1>1, <2>1, StateSet, Zenon
  <2>3. \A d \in Clients : worker'[d].state \in NoLine => worker[d].state \in NoLine
    BY <2>2 DEF NoLine
  <2>. QED
    BY <1>1, <2>1, <2>2, <2>3, ForkHeldSame
<1>6. ASSUME NEW c \in Clients, F!TakesArgument(c)
      PROVE  ForkHeld'
  <2>1. /\ worker' = [worker EXCEPT ![c].state = "reading", ![c].serves = c]
        /\ worker[c].state = "started" /\ conn' = conn
    BY <1>6 DEF F!TakesArgument, F!WorkerSteps
  <2>2. PICK r1 : r1 = [worker[c] EXCEPT !.state = "reading"]
    BY Zenon
  <2>3. PICK r : r = [r1 EXCEPT !.serves = c]
    BY Zenon
  <2>4. worker[c] \in Workers
    BY <1>1
  <2>5. r.line = worker[c].line
    BY <2>2, <2>3, <2>4 DEF Workers
  <2>6. worker' = [worker EXCEPT ![c] = r]
    BY <1>1, <2>1, <2>2, <2>3, <2>4 DEF Workers
  <2>7. \A d \in Clients : /\ worker'[d].line = worker[d].line
                           /\ worker'[d].state \in NoLine => worker[d].state \in NoLine
    BY <1>1, <2>1, <2>5, <2>6 DEF NoLine
  <2>. QED
    BY <1>1, <2>1, <2>7, ForkHeldSame
<1>7. CASE F!Environment
  <2>1. /\ worker' = worker
        /\ \E c \in Clients : Connects(c) \/ Arrives(c)
    BY <1>7 DEF F!Environment, F!Connects, F!Arrives, F!Sends, F!ShutsDown, F!Resets, F!Alive, F!Open,
         Connects, Arrives, Sends, ShutsDown, Resets, Alive, Open
  <2>. QED
    BY <1>1, <2>1, ForkHeldSame
<1>8. CASE F!Main
  BY <1>2, <1>3, <1>4, <1>5, <1>8, ForkHeldStarts DEF F!Main
<1>9. CASE \E c \in Clients : F!Worker(c)
  BY <1>6, <1>9, ForkHeldReads, ForkHeldWrites, ForkHeldStops DEF F!Worker
<1>. QED
  BY <1>7, <1>8, <1>9 DEF F!Next

(* What the workers hold is known throughout the runs of these servers.    *)
LEMMA ForkHeldAlways == Spec => [](Runs(F!Programs) => ForkHeld)
<1>1. Init => (Runs(F!Programs) => ForkHeld)
  <2>1. ASSUME F!Init
        PROVE  ForkHeld
    <3>1. conn = [c \in Clients |-> NoConn] /\ worker = [c \in Clients |-> F!NoWorker]
      BY <2>1 DEF F!Init, F!InitPeers, F!NoConn, NoConn
    <3>2. \A c \in Clients : worker[c].line = <<>>
      BY <3>1 DEF F!NoWorker
    <3>3. \A c \in Clients : Kept(c, <<>>)
      BY <3>1, AllKeptInit DEF AllKept
    <3>. QED
      BY <3>2, <3>3 DEF ForkHeld
  <2>. QED
    BY <2>1, OnlyOneStarts
<1>2. ASSUME Runs(F!Programs) => ForkInv, Runs(F!Programs) => ForkHeld, [Next]_mcVars
      PROVE  (Runs(F!Programs) => ForkHeld)'
  <2>1. program' = program
    BY <1>2, ProgramStays
  <2>2. CASE UNCHANGED mcVars
    <3>1. UNCHANGED <<conn, worker>>
      BY <2>2 DEF mcVars, forkVars
    <3>. QED
      BY <1>2, <2>1, <3>1 DEF Runs, ForkHeld, Kept, NoLine
  <2>3. CASE Next
    BY <1>2, <2>1, <2>3, OnlyOneRuns, ForkHeldNext DEF Runs
  <2>. QED
    BY <1>2, <2>2, <2>3
<1>. QED
  BY <1>1, <1>2, ForkAlways, PTL DEF Spec

(* The worker of a connection holds what it read and has not written.      *)
LEMMA ForkExact ==
  ASSUME ForkInv, ForkHeld
  PROVE  F!EchoExact
<1>1. ASSUME NEW c \in Clients
      PROVE  /\ F!IsPrefix(conn[c].echoed, F!Sent(c))
             /\ F!Open(c) => conn[c].echoed \o F!Served(c) \o conn[c].unread = F!Sent(c)
  <2>1. conn \in [Clients -> Connection(Clients \X Nat)] /\ Kept(c, worker[c].line)
    BY DEF ForkInv, ForkTypes, ForkHeld
  <2>2. /\ IsPrefix(conn[c].echoed, Sent(c))
        /\ Open(c) => conn[c].echoed \o worker[c].line \o conn[c].unread = Sent(c)
    BY <2>1, KeptExactly, Zenon
  <2>. QED
    BY <2>2 DEF F!IsPrefix, IsPrefix, F!Sent, Sent, F!Open, Open, F!Served
<1>. QED
  BY <1>1 DEF F!EchoExact, F!EchoedExactly

-----------------------------------------------------------------------------
(* EpollServers: in hand is what the buffer of the descriptor holds, and   *)
(* only while epoll waits to write.                                        *)
EpollHeld ==
  /\ \A f \in Fds : fds[f] = None \/ interest[f].events # "OUT" => buf[f] = <<>>
  /\ \A f \in Fds, c \in Clients : fds[f] = c => Kept(c, buf[f])
  /\ \A c \in Clients : conn[c].stage # "open" => Kept(c, <<>>)

(* A callback that changes what is in hand for one connection only.        *)
LEMMA EpollHolds ==
  ASSUME EpollInv, EpollHeld, NEW f \in Fds, NEW c \in Clients, fds[f] = c, fds' = fds,
         NEW r \in Connection(Clients \X Nat), conn' = [conn EXCEPT ![c] = r],
         r.stage = conn[c].stage,
         NEW b \in Seq(Clients \X Nat), buf' = [buf EXCEPT ![f] = b],
         Carried(c, r, b, r.stage # "closed"),
         interest'[f].events # "OUT" => b = <<>>,
         \A g \in Fds \ {f} : interest'[g] = interest[g]
  PROVE  EpollHeld'
<1>1. /\ conn \in [Clients -> Connection(Clients \X Nat)] /\ FdTable
      /\ buf \in [Fds -> Seq(Clients \X Nat)]
  BY Zenon DEF EpollInv, EpollTypes
<1>2. conn'[c] = r /\ buf'[f] = b /\ conn[c].stage = "open" /\ c # None
  BY <1>1, PeersAssumption DEF FdTable
<1>3. /\ \A d \in Clients \ {c} : conn'[d] = conn[d]
      /\ \A g \in Fds \ {f} : buf'[g] = buf[g]
  BY <1>1
<1>4. ASSUME NEW g \in Fds, fds[g] = None \/ interest'[g].events # "OUT"
      PROVE  buf'[g] = <<>>
  BY <1>2, <1>3, <1>4 DEF EpollHeld
<1>5. ASSUME NEW g \in Fds, NEW d \in Clients, fds[g] = d
      PROVE  Carried(d, conn'[d], buf'[g], conn'[d].stage # "closed")
  <2>1. CASE g = f
    <3>1. d = c
      BY <1>5, <2>1
    <3>. QED
      BY <1>2, <2>1, <3>1, Zenon
  <2>2. CASE g # f
    <3>1. d # c
      BY <1>1, <1>2, <1>5, <2>2 DEF FdTable
    <3>2. Carried(d, conn[d], buf[g], conn[d].stage # "closed")
      BY <1>5, Zenon DEF EpollHeld, Kept
    <3>. QED
      BY <1>3, <2>2, <3>1, <3>2, Zenon
  <2>. QED
    BY <2>1, <2>2
<1>6. ASSUME NEW d \in Clients, conn'[d].stage # "open"
      PROVE  Carried(d, conn'[d], <<>>, conn'[d].stage # "closed")
  <2>1. d # c
    BY <1>2, <1>6
  <2>2. conn'[d] = conn[d]
    BY <1>3, <2>1
  <2>3. Carried(d, conn[d], <<>>, conn[d].stage # "closed")
    BY <1>6, <2>2 DEF EpollHeld, Kept
  <2>. QED
    BY <2>2, <2>3, Zenon
<1>7. Fds' = Fds
  BY DEF Fds
<1>. QED
  BY <1>4, <1>5, <1>6, <1>7, Zenon DEF EpollHeld, Kept

(* A step that neither reads nor writes: a descriptor stays with what it   *)
(* holds, or is closed, or is new.                                         *)
LEMMA EpollHeldRest ==
  ASSUME EpollInv, EpollHeld,
         \/ UNCHANGED conn
         \/ \E c \in Clients : Opened(c) \/ Ended(c) \/ Connects(c) \/ Arrives(c)
         \/ \E C \in SUBSET Fds : CloseFds(C),
         \A g \in Fds :
           \/ /\ fds'[g] = fds[g] /\ buf'[g] = buf[g]
              /\ interest'[g].events # "OUT" => interest[g].events # "OUT"
           \/ buf'[g] = <<>> /\ \A d \in Clients : fds'[g] = d => conn[d].stage # "open",
         \A d \in Clients : conn'[d].stage # "open" =>
           conn[d].stage # "open" \/ conn'[d].stage = "closed"
  PROVE  EpollHeld'
<1>1. /\ conn \in [Clients -> Connection(Clients \X Nat)] /\ FdTable
  BY Zenon DEF EpollInv, EpollTypes
<1>2. ASSUME NEW d \in Clients, NEW h, Kept(d, h)
      PROVE  /\ Carried(d, conn'[d], h, conn'[d].stage # "closed")
             /\ conn'[d] # conn[d] /\ conn'[d].stage = "closed" =>
                  \A k : Carried(d, conn'[d], k, conn'[d].stage # "closed")
  <2>1. CASE UNCHANGED conn
    BY <1>2, <2>1 DEF Kept
  <2>2. CASE \/ \E c \in Clients : Opened(c) \/ Ended(c) \/ Connects(c) \/ Arrives(c)
             \/ \E C \in SUBSET Fds : CloseFds(C)
    BY <1>1, <1>2, <2>2, KeptThrough, Zenon
  <2>. QED
    BY <2>1, <2>2
<1>3. ASSUME NEW g \in Fds, fds'[g] = None \/ interest'[g].events # "OUT"
      PROVE  buf'[g] = <<>>
  BY <1>3 DEF EpollHeld
<1>4. ASSUME NEW g \in Fds, NEW d \in Clients, fds'[g] = d
      PROVE  Carried(d, conn'[d], buf'[g], conn'[d].stage # "closed")
  <2>1. CASE fds'[g] = fds[g] /\ buf'[g] = buf[g]
    <3>1. Kept(d, buf[g])
      BY <1>4, <2>1 DEF EpollHeld
    <3>. QED
      BY <1>2, <2>1, <3>1, Zenon
  <2>2. CASE buf'[g] = <<>> /\ conn[d].stage # "open"
    <3>1. Kept(d, <<>>)
      BY <2>2 DEF EpollHeld
    <3>. QED
      BY <1>2, <2>2, <3>1, Zenon
  <2>. QED
    BY <1>4, <2>1, <2>2
<1>5. ASSUME NEW d \in Clients, conn'[d].stage # "open"
      PROVE  Carried(d, conn'[d], <<>>, conn'[d].stage # "closed")
  <2>1. CASE conn[d].stage # "open"
    <3>1. Kept(d, <<>>)
      BY <2>1 DEF EpollHeld
    <3>. QED
      BY <1>2, <3>1, Zenon
  <2>2. CASE conn[d].stage = "open"
    <3>1. PICK g \in Fds : fds[g] = d
      BY <1>1, <2>2 DEF FdTable
    <3>2. Kept(d, buf[g])
      BY <3>1 DEF EpollHeld
    <3>3. conn'[d] # conn[d] /\ conn'[d].stage = "closed"
      BY <1>5, <2>2
    <3>. QED
      BY <1>2, <3>2, <3>3, Zenon
  <2>. QED
    BY <2>1, <2>2
<1>6. Fds' = Fds
  BY DEF Fds
<1>. QED
  BY <1>3, <1>4, <1>5, <1>6, Zenon DEF EpollHeld, Kept

(* A read moves what it takes from the connection to the buffer, or prints *)
(* it.                                                                     *)
LEMMA EpollHeldReads ==
  ASSUME EpollInv, EpollHeld, NEW f \in Fds, E!Reads(f)
  PROVE  EpollHeld'
<1>1. E!Handles(f) /\ f # 0 /\ interest[f].events # "OUT" /\ fds' = fds
  BY DEF E!Reads, Fds, E!Reading
<1>2. PICK c \in Clients : c = fds[f]
  BY <1>1, EpollHandles
<1>3. PICK cnt : cnt = IF E!is.loop THEN Len(conn[c].unread) ELSE READ_MAX
  BY Zenon
<1>4. /\ conn \in [Clients -> Connection(Clients \X Nat)] /\ conn[c] \in Connection(Clients \X Nat)
      /\ interest \in [Fds -> Registration \union {None}]
      /\ buf \in [Fds -> Seq(Clients \X Nat)] /\ FdTable
  BY Zenon DEF EpollInv, EpollTypes
<1>5. /\ conn[c].unread \in Seq(Clients \X Nat) /\ conn[c].sent \in Nat /\ cnt \in Nat
  BY <1>3, <1>4, ServersAssumption DEF Connection
<1>6. buf[f] = <<>> /\ Kept(c, <<>>) /\ conn[c].stage # "closed"
  <2>1. buf[f] = <<>> /\ Kept(c, buf[f]) /\ conn[c].stage = "open"
    BY <1>1, <1>2, <1>4 DEF EpollHeld, FdTable
  <2>. QED
    BY <2>1
<1>7. Carried(c, conn[c], <<>>, conn[c].stage # "closed")
  BY <1>6 DEF Kept
<1>8. PICK ev \in {"IN", "IN|ET"} : ev = E!IN_
  BY DEF E!IN_
<1>9. CASE E!is.echo
  <2>1. PICK t, l : t = Upto(cnt, conn[c].unread) /\ l = SubSeq(conn[c].unread, cnt + 1, Len(conn[c].unread))
    BY Zenon
  <2>2. t \in Seq(Clients \X Nat) /\ l \in Seq(Clients \X Nat)
    BY <1>5, <2>1, UptoTyped, Zenon
  <2>3. /\ buf' = [buf EXCEPT ![f] = t]
        /\ conn' = [conn EXCEPT ![c].unread = l]
        /\ interest' = [interest EXCEPT ![f] = Registered(f, c, "OUT")]
    <3>1. /\ buf' = [buf EXCEPT ![f] = Upto(cnt, conn[c].unread)]
          /\ conn' = [conn EXCEPT ![c].unread = SubSeq(@, cnt + 1, Len(@))]
          /\ interest' = [interest EXCEPT ![f] = Registered(f, c, "OUT")]
      BY <1>2, <1>3, <1>9, EpollPeers, Zenon DEF E!Reads
    <3>. QED
      BY <2>1, <3>1
  <2>4. \E r \in Connection(Clients \X Nat) :
          /\ conn' = [conn EXCEPT ![c] = r]
          /\ r.unread = l /\ r.echoed = conn[c].echoed /\ r.stage = conn[c].stage
          /\ r.sent = conn[c].sent /\ r.fin = conn[c].fin /\ r.reset = conn[c].reset
    BY <1>4, <2>2, <2>3, TakenTyped, Zenon
  <2>5. PICK r \in Connection(Clients \X Nat) :
          /\ conn' = [conn EXCEPT ![c] = r]
          /\ r.unread = l /\ r.echoed = conn[c].echoed /\ r.stage = conn[c].stage
          /\ r.sent = conn[c].sent
    BY <2>4, Zenon
  <2>6. Carried(c, r, Upto(cnt, conn[c].unread), conn[c].stage # "closed")
    BY <1>5, <1>7, <2>1, <2>5, CarriedReads, Zenon
  <2>7. Carried(c, r, t, r.stage # "closed")
    BY <2>1, <2>5, <2>6, Zenon
  <2>8. PICK k : k = Registered(f, c, "OUT")
    BY Zenon
  <2>9. k.events = "OUT" /\ interest'[f] = k /\ \A g \in Fds \ {f} : interest'[g] = interest[g]
    <3>1. Registered(f, c, "OUT").events = "OUT"
      BY RegisteredTyped
    <3>. QED
      BY <1>4, <2>3, <2>8, <3>1
  <2>. QED
    BY <1>1, <1>2, <2>2, <2>3, <2>5, <2>7, <2>9, EpollHolds
<1>10. CASE ~ E!is.echo
  <2>1. Echoes(c, cnt) /\ buf' = buf /\ E!RearmsRead(f)
    BY <1>2, <1>3, <1>10, EpollPeers DEF E!Reads
  <2>2. \E r \in Connection(Clients \X Nat) :
           /\ conn' = [conn EXCEPT ![c] = r]
           /\ r.stage = conn[c].stage /\ r.reset = conn[c].reset
           /\ Carried(c, r, <<>>, r.stage # "closed")
    BY <1>4, <1>5, <1>6, <2>1, KeptEchoes, Zenon
  <2>3. PICK r \in Connection(Clients \X Nat) :
           /\ conn' = [conn EXCEPT ![c] = r]
           /\ r.stage = conn[c].stage
           /\ Carried(c, r, <<>>, r.stage # "closed")
    BY <2>2, Zenon
  <2>4. PICK b \in Seq(Clients \X Nat) : b = <<>> /\ buf' = [buf EXCEPT ![f] = b]
    <3>1. <<>> \in Seq(Clients \X Nat)
      OBVIOUS
    <3>. QED
      BY <1>4, <1>6, <2>1, <3>1
  <2>5. Carried(c, r, b, r.stage # "closed")
    BY <2>3, <2>4, Zenon
  <2>6. \A g \in Fds \ {f} : interest'[g] = interest[g]
    BY <1>4, <2>1 DEF E!RearmsRead
  <2>. QED
    BY <1>1, <1>2, <2>3, <2>4, <2>5, <2>6, EpollHolds
<1>. QED
  BY <1>9, <1>10

(* A write gives back the first of what is in hand, and waits for reads    *)
(* again only when that was all.                                           *)
LEMMA EpollHeldWrites ==
  ASSUME EpollInv, EpollHeld, NEW f \in Fds, E!DoWrite(f)
  PROVE  EpollHeld'
<1>1. E!Handles(f) /\ f # 0 /\ fds' = fds /\ interest[f].events = "OUT"
  BY DEF E!DoWrite, Fds, E!Reading
<1>2. PICK c \in Clients : c = fds[f]
  BY <1>1, EpollHandles
<1>3. /\ conn \in [Clients -> Connection(Clients \X Nat)] /\ conn[c] \in Connection(Clients \X Nat)
      /\ interest \in [Fds -> Registration \union {None}]
      /\ buf \in [Fds -> Seq(Clients \X Nat)] /\ FdTable
  BY Zenon DEF EpollInv, EpollTypes
<1>4. PICK b \in Seq(Clients \X Nat) : b = buf[f]
  BY <1>3
<1>5. PICK cnt \in 1 .. Min({Len(b), MAX_WRITE_BYTE}) :
        /\ conn' = [conn EXCEPT ![c].echoed = @ \o Upto(cnt, b)]
        /\ buf' = [buf EXCEPT ![f] = SubSeq(@, cnt + 1, Len(@))]
        /\ interest' = IF cnt = Len(b) THEN [interest EXCEPT ![f] = Registered(f, c, E!IN_)]
                                       ELSE interest
  BY <1>2, <1>4, EpollPeers, Zenon DEF E!DoWrite
<1>6. cnt \in Nat
  OBVIOUS
<1>7. PICK t, l : t = Upto(cnt, b) /\ l = SubSeq(b, cnt + 1, Len(b))
  BY Zenon
<1>8. t \in Seq(Clients \X Nat) /\ l \in Seq(Clients \X Nat)
  BY <1>6, <1>7, UptoTyped, Zenon
<1>9. PICK e : e = conn[c].echoed \o t
  BY Zenon
<1>10. e \in Seq(Clients \X Nat) /\ conn[c].sent \in Nat
  <2>1. conn[c].echoed \in Seq(Clients \X Nat) /\ conn[c].sent \in Nat
    BY <1>3 DEF Connection
  <2>. QED
    BY <1>8, <1>9, <2>1
<1>11. conn' = [conn EXCEPT ![c].echoed = e] /\ buf' = [buf EXCEPT ![f] = l]
  BY <1>4, <1>5, <1>7, <1>9
<1>12. \E r \in Connection(Clients \X Nat) :
          /\ conn' = [conn EXCEPT ![c] = r]
          /\ r.unread = conn[c].unread /\ r.echoed = e /\ r.stage = conn[c].stage
          /\ r.sent = conn[c].sent /\ r.fin = conn[c].fin /\ r.reset = conn[c].reset
  BY <1>3, <1>10, <1>11, GivenTyped, Zenon
<1>13. PICK r \in Connection(Clients \X Nat) :
          /\ conn' = [conn EXCEPT ![c] = r]
          /\ r.unread = conn[c].unread /\ r.echoed = e /\ r.stage = conn[c].stage
          /\ r.sent = conn[c].sent
  BY <1>12, Zenon
<1>14. Carried(c, conn[c], b, TRUE)
  <2>1. Kept(c, b) /\ conn[c].stage # "closed"
    BY <1>2, <1>3, <1>4 DEF EpollHeld, FdTable
  <2>. QED
    BY <2>1 DEF Kept, Carried
<1>15. r.echoed = conn[c].echoed \o Upto(cnt, b)
  BY <1>7, <1>9, <1>13
<1>16. Carried(c, r, SubSeq(b, cnt + 1, Len(b)), r.stage # "closed")
  BY <1>6, <1>10, <1>13, <1>14, <1>15, CarriedWrites, Zenon
<1>17. Carried(c, r, l, r.stage # "closed")
  BY <1>7, <1>16, Zenon
<1>18. interest'[f].events # "OUT" => l = <<>>
  <2>1. CASE cnt = Len(b)
    BY <1>4, <1>6, <1>7, <2>1
  <2>2. CASE cnt # Len(b)
    BY <1>1, <1>5, <2>2
  <2>. QED
    BY <2>1, <2>2
<1>19. \A g \in Fds \ {f} : interest'[g] = interest[g]
  BY <1>3, <1>5
<1>. QED
  BY <1>1, <1>2, <1>8, <1>11, <1>13, <1>17, <1>18, <1>19, EpollHolds

(* A descriptor given to a new connection has an empty buffer.             *)
LEMMA EpollHeldAccepts ==
  ASSUME EpollInv, EpollHeld, NEW c \in Clients, E!DoAccept(c)
  PROVE  EpollHeld'
<1>1. PICK f : f = FreeFd
  OBVIOUS
<1>2. /\ Accepts(c) /\ buf' = buf
      /\ interest' = [interest EXCEPT ![f] = Registered(f, c, E!IN_)]
  BY <1>1, EpollPeers, Zenon DEF E!DoAccept
<1>3. /\ conn \in [Clients -> Connection(Clients \X Nat)] /\ FdTable
      /\ interest \in [Fds -> Registration \union {None}]
  BY Zenon DEF EpollInv, EpollTypes
<1>4. /\ f \in Fds /\ fds[f] = None /\ fds' = [fds EXCEPT ![f] = c]
      /\ conn[c].stage = "pending"
  BY <1>1, <1>2, <1>3, AcceptsTyped, Zenon
<1>5. conn' = [conn EXCEPT ![c].stage = "open"]
  BY <1>2 DEF Accepts
<1>6. Opened(c)
  BY <1>4, <1>5 DEF Opened
<1>7. ASSUME NEW g \in Fds
      PROVE  \/ /\ fds'[g] = fds[g] /\ buf'[g] = buf[g]
                /\ interest'[g].events # "OUT" => interest[g].events # "OUT"
             \/ buf'[g] = <<>> /\ \A d \in Clients : fds'[g] = d => conn[d].stage # "open"
  <2>1. CASE g = f
    <3>1. buf'[g] = <<>>
      BY <1>2, <1>4, <2>1 DEF EpollHeld
    <3>2. fds'[g] = c
      BY <1>3, <1>4, <2>1 DEF FdTable
    <3>. QED
      BY <1>4, <3>1, <3>2
  <2>2. CASE g # f
    BY <1>2, <1>3, <1>4, <2>2 DEF FdTable
  <2>. QED
    BY <2>1, <2>2
<1>8. ASSUME NEW d \in Clients, conn'[d].stage # "open"
      PROVE  conn[d].stage # "open"
  BY <1>3, <1>4, <1>5, <1>8
<1>. QED
  BY <1>6, <1>7, <1>8, EpollHeldRest

(* A descriptor that is closed takes its buffer with it.                   *)
LEMMA EpollHeldEnds ==
  ASSUME EpollInv, EpollHeld, NEW f \in Fds, E!ReadsEnd(f)
  PROVE  EpollHeld'
<1>1. PICK T \in SUBSET Fds : T = {f}
  BY Zenon
<1>2. /\ CloseFds(T) /\ Unregister(T) /\ buf' = [buf EXCEPT ![f] = <<>>]
  BY <1>1, EpollPeers DEF E!ReadsEnd
<1>3. /\ conn \in [Clients -> Connection(Clients \X Nat)] /\ FdTable
      /\ buf \in [Fds -> Seq(Clients \X Nat)]
  BY Zenon DEF EpollInv, EpollTypes
<1>4. \A g \in Fds : fds'[g] = IF g \in T THEN None ELSE fds[g]
  BY <1>2, <1>3, ClosesTyped, Zenon
<1>5. \A g \in Fds : g \notin T => interest'[g] = interest[g]
  <2>1. PICK g : g = [h \in Fds |-> IF h \in T THEN None ELSE interest[h]]
    BY Zenon
  <2>2. interest' = g
    BY <1>2, <2>1 DEF Unregister
  <2>. QED
    BY <2>1, <2>2
<1>6. ASSUME NEW g \in Fds
      PROVE  \/ /\ fds'[g] = fds[g] /\ buf'[g] = buf[g]
                /\ interest'[g].events # "OUT" => interest[g].events # "OUT"
             \/ buf'[g] = <<>> /\ \A d \in Clients : fds'[g] = d => conn[d].stage # "open"
  <2>1. CASE g = f
    BY <1>1, <1>2, <1>3, <1>4, <2>1, PeersAssumption
  <2>2. CASE g # f
    BY <1>1, <1>2, <1>3, <1>4, <1>5, <2>2
  <2>. QED
    BY <2>1, <2>2
<1>7. ASSUME NEW d \in Clients
      PROVE  conn'[d] = conn[d] \/ conn'[d].stage = "closed"
  BY <1>2, <1>3, CloseEnds
<1>8. \A d \in Clients : conn'[d].stage # "open" =>
        conn[d].stage # "open" \/ conn'[d].stage = "closed"
  BY <1>7
<1>. QED
  BY <1>2, <1>6, <1>8, EpollHeldRest, Zenon

(* What clients do changes no buffer.                                      *)
LEMMA EpollHeldEnvironment ==
  ASSUME EpollInv, EpollHeld, E!Environment
  PROVE  EpollHeld'
<1>1. PICK c \in Clients :
        /\ Connects(c) \/ Arrives(c)
        /\ interest' = interest \/ Signals(c)
        /\ UNCHANGED <<fds, buf>>
  BY EpollPeers DEF E!Environment, Arrives
<1>2. /\ conn \in [Clients -> Connection(Clients \X Nat)]
      /\ interest \in [Fds -> Registration \union {None}]
      /\ \A g \in Fds : PollsOk(g)
  BY Zenon DEF EpollInv, EpollTypes
<1>3. \A g \in Fds : interest[g] # None => interest'[g].events = interest[g].events
  BY <1>1, <1>2, SignalsTyped
<1>4. ASSUME NEW g \in Fds
      PROVE  \/ /\ fds'[g] = fds[g] /\ buf'[g] = buf[g]
                /\ interest'[g].events # "OUT" => interest[g].events # "OUT"
             \/ buf'[g] = <<>> /\ \A d \in Clients : fds'[g] = d => conn[d].stage # "open"
  <2>1. CASE interest[g] # None
    BY <1>1, <1>3, <2>1
  <2>2. CASE interest[g] = None
    <3>1. fds'[g] = None /\ buf'[g] = <<>>
      BY <1>1, <1>2, <2>2 DEF PollsOk, EpollHeld
    <3>. QED
      BY <3>1, PeersAssumption
  <2>. QED
    BY <2>1, <2>2
<1>5. \E r \in Connection(Clients \X Nat) :
        /\ conn' = [conn EXCEPT ![c] = r]
        /\ r.stage # "closed" /\ conn[c].stage # "closed"
        /\ r.stage = "open" <=> conn[c].stage = "open"
        /\ conn[c].reset => r.reset
        /\ \A h, w : Carried(c, conn[c], h, w) => Carried(c, r, h, w)
  BY <1>1, <1>2, ArrivesUnread, Zenon
<1>6. PICK r \in Connection(Clients \X Nat) :
        /\ conn' = [conn EXCEPT ![c] = r]
        /\ r.stage = "open" <=> conn[c].stage = "open"
  BY <1>5, Zenon
<1>7. \A d \in Clients : conn'[d].stage # "open" => conn[d].stage # "open"
  BY <1>2, <1>6
<1>. QED
  BY <1>1, <1>4, <1>7, EpollHeldRest, Zenon

(* A step on the registrations that waits for the same events changes      *)
(* nothing in hand.                                                        *)
LEMMA EpollHeldSame ==
  ASSUME EpollInv, EpollHeld, UNCHANGED <<conn, fds, buf>>,
         \A g \in Fds : interest[g] # None => interest'[g].events = interest[g].events
  PROVE  EpollHeld'
<1>1. ASSUME NEW g \in Fds
      PROVE  \/ /\ fds'[g] = fds[g] /\ buf'[g] = buf[g]
                /\ interest'[g].events # "OUT" => interest[g].events # "OUT"
             \/ buf'[g] = <<>> /\ \A d \in Clients : fds'[g] = d => conn[d].stage # "open"
  <2>1. CASE interest[g] # None
    BY <2>1
  <2>2. CASE interest[g] = None
    <3>1. fds'[g] = None /\ buf'[g] = <<>>
      BY <2>2 DEF PollsOk, EpollHeld, EpollInv
    <3>. QED
      BY <3>1, PeersAssumption
  <2>. QED
    BY <2>1, <2>2
<1>. QED
  BY <1>1, EpollHeldRest, Zenon

(* Every step of the epoll servers keeps what the buffers hold.            *)
LEMMA EpollHeldNext ==
  ASSUME EpollInv, EpollHeld, E!Next
  PROVE  EpollHeld'
<1>1. CASE E!EventLoop
  <2>1. /\ fds \in [Fds -> Clients \union {None}]
        /\ interest \in [Fds -> Registration \union {None}]
    BY Zenon DEF EpollInv, EpollTypes, FdTable
  <2>2. UNCHANGED <<conn, fds, buf>> /\ (epoll_wait(0) \/ interest' = interest)
    BY <1>1, EpollPeers, Zenon DEF E!EventLoop
  <2>3. \A g \in Fds : interest[g] # None => interest'[g].events = interest[g].events
    BY <2>1, <2>2, EpollWaits
  <2>. QED
    BY <2>2, <2>3, EpollHeldSame, Zenon
<1>2. ASSUME NEW f \in Fds, E!Exits(f) \/ E!IgnoresHangup(f)
      PROVE  EpollHeld'
  <2>1. UNCHANGED <<conn, fds, buf, interest>>
    BY <1>2 DEF E!Exits, E!IgnoresHangup
  <2>. QED
    BY <2>1, EpollHeldSame, Zenon
<1>3. CASE E!Server
  BY <1>1, <1>2, <1>3, EpollPeers, EpollHeldAccepts, EpollHeldEnds, EpollHeldReads,
     EpollHeldWrites DEF E!Server
<1>. QED
  BY <1>3, EpollHeldEnvironment DEF E!Next

(* The buffers are empty before the first event.                           *)
LEMMA EpollHeldInit ==
  ASSUME E!Init
  PROVE  EpollHeld
<1>1. \A f \in Fds : buf[f] = <<>>
  BY EpollPeers DEF E!Init
<1>2. \A c \in Clients : conn[c] = NoConn \/ conn[c] = [NoConn EXCEPT !.stage = "open"]
  <2>1. E!NoConn = NoConn
    BY DEF E!NoConn, NoConn
  <2>2. PICK o : o = [NoConn EXCEPT !.stage = "open"]
    BY Zenon
  <2>3. CASE E!InitPeers
    BY <2>1, <2>3 DEF E!InitPeers
  <2>4. ASSUME NEW b \in Clients,
               conn = [d \in Clients |-> IF d = b THEN [NoConn EXCEPT !.stage = "open"] ELSE NoConn]
        PROVE  \A c \in Clients : conn[c] = NoConn \/ conn[c] = [NoConn EXCEPT !.stage = "open"]
    <3>1. conn = [d \in Clients |-> IF d = b THEN o ELSE NoConn]
      BY <2>2, <2>4, Zenon
    <3>2. \A c \in Clients : conn[c] = NoConn \/ conn[c] = o
      BY <3>1
    <3>. QED
      BY <2>2, <3>2, Zenon
  <2>5. E!InitPeers \/ \E b \in Clients :
          conn = [d \in Clients |-> IF d = b THEN [NoConn EXCEPT !.stage = "open"] ELSE NoConn]
    BY <2>1, Zenon DEF E!Init, E!InitPipe
  <2>. QED
    BY <2>3, <2>4, <2>5, Zenon
<1>3. ASSUME NEW c \in Clients
      PROVE  Kept(c, <<>>)
  BY <1>2, NothingSent, Zenon DEF Kept
<1>. QED
  BY <1>1, <1>3 DEF EpollHeld

(* What the buffers hold is known throughout the runs of the epoll         *)
(* servers.                                                                *)
LEMMA EpollHeldAlways == Spec => [](Runs(E!Programs) => EpollInv /\ EpollHeld)
<1>1. Init => (Runs(E!Programs) => EpollHeld)
  BY OnlyOneStarts, EpollHeldInit
<1>2. ASSUME Runs(E!Programs) => EpollInv, Runs(E!Programs) => EpollHeld, [Next]_mcVars
      PROVE  (Runs(E!Programs) => EpollHeld)'
  <2>1. program' = program
    BY <1>2, ProgramStays
  <2>2. CASE UNCHANGED mcVars
    <3>1. UNCHANGED <<conn, fds, buf, interest>>
      BY <2>2 DEF mcVars, epollVars
    <3>2. EpollInv /\ EpollHeld => EpollHeld'
      BY <3>1, EpollHeldSame, Zenon
    <3>. QED
      BY <1>2, <2>1, <3>2 DEF Runs
  <2>3. CASE Next
    BY <1>2, <2>1, <2>3, OnlyOneRuns, EpollHeldNext DEF Runs
  <2>. QED
    BY <1>2, <2>2, <2>3
<1>. QED
  BY <1>1, <1>2, EpollAlways, PTL DEF Spec

(* The buffer of the descriptor holds what was read and has not come back. *)
LEMMA EpollExact ==
  ASSUME EpollInv, EpollHeld
  PROVE  E!EchoExact
<1>1. conn \in [Clients -> Connection(Clients \X Nat)] /\ FdTable
  BY DEF EpollInv, EpollTypes
<1>2. ASSUME NEW c \in Clients
      PROVE  /\ E!IsPrefix(conn[c].echoed, E!Sent(c))
             /\ E!Open(c) => conn[c].echoed \o E!InHand(c) \o conn[c].unread = E!Sent(c)
  <2>1. PICK h : h = E!InHand(c)
    OBVIOUS
  <2>2. \E k : Kept(c, k) /\ (Open(c) => k = h)
    <3>1. CASE conn[c].stage # "open"
      <4>1. Kept(c, <<>>) /\ ~ Open(c)
        BY <3>1 DEF EpollHeld, Open
      <4>. QED
        BY <4>1
    <3>2. CASE conn[c].stage = "open"
      <4>1. \E f \in Fds : fds[f] = c
        BY <1>1, <3>2 DEF FdTable
      <4>2. PICK f : f = CHOOSE g \in Fds : fds[g] = c
        OBVIOUS
      <4>3. f \in Fds /\ fds[f] = c
        BY <4>1, <4>2
      <4>4. c # None
        BY PeersAssumption
      <4>5. h = buf[f]
        <5>1. h = buf[CHOOSE g \in E!Fds : fds[g] = c]
          BY <2>1, Zenon DEF E!InHand
        <5>2. h = buf[CHOOSE g \in Fds : fds[g] = c]
          BY <5>1, EpollPeers, Zenon
        <5>. QED
          BY <4>2, <5>2, Zenon
      <4>6. Kept(c, buf[f])
        BY <4>3 DEF EpollHeld
      <4>. QED
        BY <4>5, <4>6
    <3>. QED
      BY <3>1, <3>2
  <2>3. PICK k : Kept(c, k) /\ (Open(c) => k = h)
    BY <2>2
  <2>4. /\ IsPrefix(conn[c].echoed, Sent(c))
        /\ Open(c) => conn[c].echoed \o k \o conn[c].unread = Sent(c)
    BY <1>1, <2>3, KeptExactly, Zenon
  <2>. QED
    BY <2>1, <2>3, <2>4 DEF E!IsPrefix, IsPrefix, E!Sent, Sent, E!Open, Open
<1>. QED
  BY <1>2 DEF E!EchoExact, E!EchoedExactly

-----------------------------------------------------------------------------
(* AioServer: a byte may also be lost to a reset. In hand is what the node *)
(* of the connection is to write.                                          *)
Whole(r) == r.stage # "closed" /\ ~ r.reset
On(i, c) == gNodeList[i].phase # "none" /\ fds[gNodeList[i].fd] = c

AioHeld ==
  /\ \A i \in A!Nodes : gNodeList[i].phase # "write" => gNodeList[i].buf = <<>>
  /\ \A i \in A!Nodes, c \in Clients : On(i, c) => Carried(c, conn[c], gNodeList[i].buf, Whole(conn[c]))
  /\ \A c \in Clients : (\A i \in A!Nodes : ~ On(i, c)) => Carried(c, conn[c], <<>>, Whole(conn[c]))

(* No two nodes are at work for one connection, also when the server has   *)
(* ended.                                                                  *)
AioNamed ==
  \A i, j \in A!Nodes, c \in Clients : On(i, c) /\ On(j, c) => i = j

(* While the server runs a node with a request names the descriptor of a   *)
(* client.                                                                 *)
LEMMA AioNamedRunning ==
  ASSUME AioTypes, AioNodesOk
  PROVE  /\ AioNamed
         /\ \A i \in A!Nodes : gNodeList[i].phase # "none" =>
              gNodeList[i].fd \in Fds /\ fds[gNodeList[i].fd] \in Clients
<1>1. \A i \in A!Nodes : gNodeList[i].phase # "none" =>
        gNodeList[i].fd \in Fds /\ fds[gNodeList[i].fd] \in Clients
  BY DEF AioNodesOk, ActiveOk
<1>2. ASSUME NEW i \in A!Nodes, NEW j \in A!Nodes, NEW c \in Clients, On(i, c), On(j, c)
      PROVE  i = j
  <2>1. gNodeList[i].fd \in Fds /\ gNodeList[j].fd \in Fds
        /\ fds[gNodeList[i].fd] = c /\ fds[gNodeList[j].fd] = c
    BY <1>1, <1>2 DEF On
  <2>2. c # None
    BY PeersAssumption
  <2>3. gNodeList[i].fd = gNodeList[j].fd
    BY <2>1, <2>2 DEF AioTypes, FdTable
  <2>. QED
    BY <1>2, <2>3 DEF On, AioNodesOk, Apart
<1>. QED
  BY <1>1, <1>2 DEF AioNamed

(* A step of one connection, and of the node that is at work for it.       *)
LEMMA AioHolds ==
  ASSUME AioHeld, conn \in [Clients -> Connection(Clients \X Nat)], NEW c \in Clients,
         NEW r, conn' = [conn EXCEPT ![c] = r],
         \A i \in A!Nodes : gNodeList'[i].phase # "write" => gNodeList'[i].buf = <<>>,
         \A i \in A!Nodes, d \in Clients \ {c} :
           (On(i, d)' <=> On(i, d)) /\ (On(i, d) => gNodeList'[i].buf = gNodeList[i].buf),
         \A i \in A!Nodes : On(i, c)' => Carried(c, r, gNodeList'[i].buf, Whole(r)),
         (\A i \in A!Nodes : ~ On(i, c)') => Carried(c, r, <<>>, Whole(r))
  PROVE  AioHeld'
<1>1. conn'[c] = r /\ \A d \in Clients \ {c} : conn'[d] = conn[d]
  OBVIOUS
<1>2. ASSUME NEW i \in A!Nodes, NEW d \in Clients, On(i, d)'
      PROVE  Carried(d, conn'[d], gNodeList'[i].buf, Whole(conn'[d]))
  <2>1. CASE d = c
    BY <1>1, <1>2, <2>1, Zenon
  <2>2. CASE d # c
    <3>1. On(i, d) /\ gNodeList'[i].buf = gNodeList[i].buf /\ conn'[d] = conn[d]
      BY <1>1, <1>2, <2>2
    <3>2. Carried(d, conn[d], gNodeList[i].buf, Whole(conn[d]))
      BY <3>1, Zenon DEF AioHeld
    <3>. QED
      BY <3>1, <3>2, Zenon
  <2>. QED
    BY <2>1, <2>2
<1>3. ASSUME NEW d \in Clients, \A i \in A!Nodes : ~ On(i, d)'
      PROVE  Carried(d, conn'[d], <<>>, Whole(conn'[d]))
  <2>1. CASE d = c
    BY <1>1, <1>3, <2>1, Zenon
  <2>2. CASE d # c
    <3>1. (\A i \in A!Nodes : ~ On(i, d)) /\ conn'[d] = conn[d]
      BY <1>1, <1>3, <2>2
    <3>2. Carried(d, conn[d], <<>>, Whole(conn[d]))
      BY <3>1, Zenon DEF AioHeld
    <3>. QED
      BY <3>1, <3>2, Zenon
  <2>. QED
    BY <2>1, <2>2
<1>4. A!Nodes' = A!Nodes
  BY DEF A!Nodes
<1>. QED
  BY <1>2, <1>3, <1>4, Zenon DEF AioHeld, Whole

(* What the nodes hold stays, and of the connections at most one, which    *)
(* keeps what is known of it.                                              *)
LEMMA AioHeldSame ==
  ASSUME AioHeld, conn \in [Clients -> Connection(Clients \X Nat)],
         \A i \in A!Nodes : /\ gNodeList'[i].phase = gNodeList[i].phase
                            /\ gNodeList'[i].buf = gNodeList[i].buf
                            /\ \A d \in Clients : On(i, d)' <=> On(i, d),
         \/ UNCHANGED conn
         \/ \E c \in Clients : Opened(c) \/ Ended(c) \/ Connects(c) \/ Arrives(c)
  PROVE  AioHeld'
<1>1. ASSUME NEW c \in Clients, NEW r, conn' = [conn EXCEPT ![c] = r],
             \A h : Carried(c, conn[c], h, Whole(conn[c])) => Carried(c, r, h, Whole(r))
      PROVE  AioHeld'
  <2>1. \A i \in A!Nodes : On(i, c)' => Carried(c, r, gNodeList'[i].buf, Whole(r))
    <3>1. ASSUME NEW i \in A!Nodes, On(i, c)'
          PROVE  Carried(c, r, gNodeList'[i].buf, Whole(r))
      <4>1. On(i, c) /\ gNodeList'[i].buf = gNodeList[i].buf
        BY <3>1
      <4>2. Carried(c, conn[c], gNodeList[i].buf, Whole(conn[c]))
        BY <4>1, Zenon DEF AioHeld
      <4>3. Carried(c, r, gNodeList[i].buf, Whole(r))
        BY <1>1, <4>2, Zenon
      <4>. QED
        BY <4>1, <4>3, Zenon
    <3>. QED
      BY <3>1
  <2>2. (\A i \in A!Nodes : ~ On(i, c)') => Carried(c, r, <<>>, Whole(r))
    <3>1. ASSUME \A i \in A!Nodes : ~ On(i, c)'
          PROVE  Carried(c, r, <<>>, Whole(r))
      <4>1. \A i \in A!Nodes : ~ On(i, c)
        BY <3>1
      <4>2. Carried(c, conn[c], <<>>, Whole(conn[c]))
        BY <4>1, Zenon DEF AioHeld
      <4>. QED
        BY <1>1, <4>2, Zenon
    <3>. QED
      BY <3>1
  <2>3. \A i \in A!Nodes : gNodeList'[i].phase # "write" => gNodeList'[i].buf = <<>>
    BY DEF AioHeld
  <2>. QED
    BY <1>1, <2>1, <2>2, <2>3, AioHolds, Zenon
<1>2. CASE UNCHANGED conn
  <2>1. ASSUME NEW c \in Clients
        PROVE  AioHeld'
    <3>1. conn' = [conn EXCEPT ![c] = conn[c]]
      BY <1>2
    <3>. QED
      BY <1>1, <3>1
  <2>2. CASE Clients = {}
    BY <2>2 DEF AioHeld, A!Nodes
  <2>. QED
    BY <2>1, <2>2
<1>3. ASSUME NEW c \in Clients, Connects(c) \/ Arrives(c)
      PROVE  AioHeld'
  <2>1. \E r \in Connection(Clients \X Nat) :
           /\ conn' = [conn EXCEPT ![c] = r]
           /\ r.stage # "closed" /\ conn[c].stage # "closed"
           /\ r.stage = "open" <=> conn[c].stage = "open"
           /\ conn[c].reset => r.reset
           /\ \A h, w : Carried(c, conn[c], h, w) => Carried(c, r, h, w)
    BY <1>3, ArrivesUnread, Zenon
  <2>2. PICK r \in Connection(Clients \X Nat) :
           /\ conn' = [conn EXCEPT ![c] = r]
           /\ Whole(r) => Whole(conn[c])
           /\ \A h, w : Carried(c, conn[c], h, w) => Carried(c, r, h, w)
    BY <2>1, Zenon DEF Whole
  <2>3. ASSUME NEW h, Carried(c, conn[c], h, Whole(conn[c]))
        PROVE  Carried(c, r, h, Whole(r))
    <3>1. Carried(c, r, h, Whole(conn[c]))
      BY <2>2, <2>3, Zenon
    <3>. QED
      BY <2>2, <3>1, CarriedWhole, Zenon
  <2>. QED
    BY <1>1, <2>2, <2>3, Zenon
<1>4. ASSUME NEW c \in Clients, Opened(c)
      PROVE  AioHeld'
  <2>1. conn' = [conn EXCEPT ![c].stage = "open"] /\ conn[c].stage = "pending"
    BY <1>4 DEF Opened
  <2>2. \E r \in Connection(Clients \X Nat) :
          /\ conn' = [conn EXCEPT ![c] = r]
          /\ r.stage = "open" /\ r.sent = conn[c].sent /\ r.unread = conn[c].unread
          /\ r.echoed = conn[c].echoed /\ r.fin = conn[c].fin /\ r.reset = conn[c].reset
    BY <2>1, StageSet, Zenon
  <2>3. PICK r \in Connection(Clients \X Nat) :
          /\ conn' = [conn EXCEPT ![c] = r]
          /\ r.sent = conn[c].sent /\ r.unread = conn[c].unread /\ r.echoed = conn[c].echoed
          /\ r.reset = conn[c].reset
    BY <2>2, Zenon
  <2>4. Whole(r) => Whole(conn[c])
    BY <2>1, <2>3 DEF Whole
  <2>5. ASSUME NEW h, Carried(c, conn[c], h, Whole(conn[c]))
        PROVE  Carried(c, r, h, Whole(r))
    BY <2>3, <2>4, <2>5, CarriedSame, Zenon
  <2>. QED
    BY <1>1, <2>3, <2>5, Zenon
<1>5. ASSUME NEW c \in Clients, Ended(c)
      PROVE  AioHeld'
  <2>1. \E r \in Connection(Clients \X Nat) :
          /\ conn' = [conn EXCEPT ![c] = r]
          /\ r.stage = "closed" /\ r.sent = conn[c].sent /\ r.echoed = conn[c].echoed
    <3>1. CASE conn' = [conn EXCEPT ![c].stage = "closed", ![c].unread = <<>>]
      BY <3>1, StageEnds, Zenon
    <3>2. CASE conn' = [conn EXCEPT ![c].stage = "closed"]
      <4>1. \E r \in Connection(Clients \X Nat) :
              /\ conn' = [conn EXCEPT ![c] = r]
              /\ r.stage = "closed" /\ r.sent = conn[c].sent /\ r.unread = conn[c].unread
              /\ r.echoed = conn[c].echoed /\ r.fin = conn[c].fin /\ r.reset = conn[c].reset
        BY <3>2, StageSet, Zenon
      <4>. QED
        BY <4>1, Zenon
    <3>. QED
      BY <1>5, <3>1, <3>2 DEF Ended
  <2>2. PICK r \in Connection(Clients \X Nat) :
          /\ conn' = [conn EXCEPT ![c] = r]
          /\ r.sent = conn[c].sent /\ r.echoed = conn[c].echoed /\ ~ Whole(r)
    BY <2>1, Zenon DEF Whole
  <2>3. ASSUME NEW h, Carried(c, conn[c], h, Whole(conn[c]))
        PROVE  Carried(c, r, h, Whole(r))
    BY <2>2, <2>3, CarriedEnds, Zenon
  <2>. QED
    BY <1>1, <2>2, <2>3, Zenon
<1>. QED
  BY <1>2, <1>3, <1>4, <1>5

(* Who has no node at work has nothing in hand, and who has one what that  *)
(* holds.                                                                  *)
LEMMA AioSingle ==
  ASSUME AioInv, AioHeld, A!Running, NEW i \in A!Nodes, gNodeList[i].phase # "none"
  PROVE  /\ A!Behind(i) \in Clients /\ conn[A!Behind(i)].stage # "closed"
         /\ On(i, A!Behind(i)) /\ \A j \in A!Nodes : On(j, A!Behind(i)) => j = i
         /\ Carried(A!Behind(i), conn[A!Behind(i)], gNodeList[i].buf, Whole(conn[A!Behind(i)]))
         /\ gNodeList[i].phase # "write" => gNodeList[i].buf = <<>>
<1>1. /\ gNodeList[i].fd \in Fds /\ fds[gNodeList[i].fd] \in Clients /\ AioNamed /\ FdTable
  BY AioNamedRunning DEF AioInv, AioTypes
<1>2. PICK c \in Clients : c = A!Behind(i) /\ c = fds[gNodeList[i].fd]
  BY <1>1 DEF A!Behind
<1>3. On(i, c)
  BY <1>2 DEF On
<1>4. conn[c].stage # "closed"
  BY <1>1, <1>2 DEF FdTable
<1>5. \A j \in A!Nodes : On(j, c) => j = i
  BY <1>1, <1>3 DEF AioNamed
<1>6. Carried(c, conn[c], gNodeList[i].buf, Whole(conn[c]))
  BY <1>3, Zenon DEF AioHeld
<1>7. gNodeList[i].phase # "write" => gNodeList[i].buf = <<>>
  BY DEF AioHeld
<1>. QED
  BY <1>2, <1>3, <1>4, <1>5, <1>6, <1>7, Zenon

(* A node goes on with its request, with b to write.                       *)
LEMMA AioHeldBecomes ==
  ASSUME AioInv, AioHeld, A!Running, NEW i \in A!Nodes, gNodeList[i].phase # "none", fds' = fds,
         NEW c \in Clients, c = A!Behind(i),
         NEW r, conn' = [conn EXCEPT ![c] = r],
         NEW b, NEW p \in {"read", "write", "failed"}, NEW t,
         p # "write" => b = <<>>,
         Carried(c, r, b, Whole(r)),
         \/ gNodeList' = [gNodeList EXCEPT ![i].phase = p, ![i].buf = b]
         \/ gNodeList' = [gNodeList EXCEPT ![i].phase = p, ![i].buf = b, ![i].told = t]
  PROVE  AioHeld'
<1>1. /\ gNodeList \in [A!Nodes -> AioNode] /\ conn \in [Clients -> Connection(Clients \X Nat)]
      /\ gNodeList[i] \in AioNode
  BY DEF AioInv, AioTypes
<1>2. /\ On(i, c) /\ \A j \in A!Nodes : On(j, c) => j = i
  BY AioSingle, Zenon
<1>3. /\ gNodeList'[i].phase = p /\ gNodeList'[i].buf = b /\ gNodeList'[i].fd = gNodeList[i].fd
      /\ \A j \in A!Nodes \ {i} : gNodeList'[j] = gNodeList[j]
  BY <1>1 DEF AioNode
<1>4. \A j \in A!Nodes, d \in Clients : On(j, d)' <=> On(j, d)
  BY <1>3 DEF On
<1>5. \A j \in A!Nodes : gNodeList'[j].phase # "write" => gNodeList'[j].buf = <<>>
  BY <1>3 DEF AioHeld
<1>6. ASSUME NEW j \in A!Nodes, NEW d \in Clients \ {c}
      PROVE  On(j, d) => gNodeList'[j].buf = gNodeList[j].buf
  BY <1>2, <1>3, <1>6 DEF On
<1>7. ASSUME NEW j \in A!Nodes, On(j, c)'
      PROVE  Carried(c, r, gNodeList'[j].buf, Whole(r))
  <2>1. j = i
    BY <1>2, <1>4, <1>7
  <2>2. gNodeList'[j].buf = b
    BY <1>3, <2>1
  <2>. QED
    BY <2>2, Zenon
<1>8. On(i, c)'
  BY <1>2, <1>4
<1>. QED
  BY <1>1, <1>4, <1>5, <1>6, <1>7, <1>8, AioHolds, Zenon

(* A callback gives up its node, with nothing left in hand.                *)
LEMMA AioHeldLeaves ==
  ASSUME AioInv, AioHeld, A!Running, NEW i \in A!Nodes, gNodeList[i].phase # "none", fds' = fds,
         NEW c \in Clients, c = A!Behind(i),
         NEW r, conn' = [conn EXCEPT ![c] = r],
         Carried(c, r, <<>>, Whole(r)), A!Leaves(i)
  PROVE  AioHeld'
<1>1. /\ gNodeList \in [A!Nodes -> AioNode] /\ conn \in [Clients -> Connection(Clients \X Nat)]
      /\ gNodeList[i] \in AioNode
  BY DEF AioInv, AioTypes
<1>2. /\ On(i, c) /\ \A j \in A!Nodes : On(j, c) => j = i
  BY AioSingle, Zenon
<1>3. gNodeList' = [gNodeList EXCEPT ![i].status = FALSE, ![i].phase = "none",
                                     ![i].buf = <<>>, ![i].told = FALSE]
  BY DEF A!Leaves
<1>4. /\ gNodeList'[i].phase = "none" /\ gNodeList'[i].buf = <<>>
      /\ \A j \in A!Nodes \ {i} : gNodeList'[j] = gNodeList[j]
  BY <1>1, <1>3 DEF AioNode
<1>5. \A j \in A!Nodes : gNodeList'[j].phase # "write" => gNodeList'[j].buf = <<>>
  BY <1>4 DEF AioHeld
<1>6. ASSUME NEW j \in A!Nodes, NEW d \in Clients \ {c}
      PROVE  (On(j, d)' <=> On(j, d)) /\ (On(j, d) => gNodeList'[j].buf = gNodeList[j].buf)
  <2>1. CASE j = i
    BY <1>2, <1>4, <1>6, <2>1 DEF On
  <2>2. CASE j # i
    BY <1>4, <2>2 DEF On
  <2>. QED
    BY <2>1, <2>2
<1>7. ASSUME NEW j \in A!Nodes
      PROVE  ~ On(j, c)'
  BY <1>2, <1>4 DEF On
<1>. QED
  BY <1>1, <1>5, <1>6, <1>7, AioHolds, Zenon

(* read_cb moves what was unread into the buffer that write_cb will write. *)
LEMMA AioHeldReads ==
  ASSUME AioInv, AioHeld, NEW i \in A!Nodes, A!read_cb(i)
  PROVE  AioHeld'
<1>1. A!Running /\ gNodeList[i].phase = "read" /\ fds' = fds
  BY DEF A!read_cb
<1>2. PICK c \in Clients : c = A!Behind(i)
  BY <1>1, AioBehind
<1>3. conn \in [Clients -> Connection(Clients \X Nat)]
  BY DEF AioInv, AioTypes
<1>4. gNodeList[i].buf = <<>> /\ Carried(c, conn[c], gNodeList[i].buf, Whole(conn[c]))
  <2>1. gNodeList[i].phase # "none"
    BY <1>1
  <2>2. /\ Carried(A!Behind(i), conn[A!Behind(i)], gNodeList[i].buf, Whole(conn[A!Behind(i)]))
        /\ gNodeList[i].phase # "write" => gNodeList[i].buf = <<>>
    BY <1>1, <2>1, AioSingle, Zenon
  <2>3. gNodeList[i].phase # "write"
    BY <1>1
  <2>. QED
    BY <1>2, <2>2, <2>3, Zenon
<1>5. Carried(c, conn[c], <<>>, Whole(conn[c]))
  BY <1>4, Zenon
<1>6. CASE A!Becomes(i, "failed", <<>>) /\ UNCHANGED <<conn, leaving>>
  <2>1. conn' = [conn EXCEPT ![c] = conn[c]] /\ gNodeList[i].phase # "none"
    BY <1>1, <1>3, <1>6
  <2>. QED
    BY <1>1, <1>2, <1>5, <1>6, <2>1, AioHeldBecomes DEF A!Becomes
<1>7. CASE /\ A!Becomes(i, "write", conn[c].unread)
           /\ conn' = [conn EXCEPT ![c].unread = <<>>]
  <2>1. <<>> \in Seq(Clients \X Nat)
    OBVIOUS
  <2>2. \E r \in Connection(Clients \X Nat) :
          /\ conn' = [conn EXCEPT ![c] = r]
          /\ r.unread = <<>> /\ r.echoed = conn[c].echoed /\ r.stage = conn[c].stage
          /\ r.sent = conn[c].sent /\ r.fin = conn[c].fin /\ r.reset = conn[c].reset
    BY <1>3, <1>7, <2>1, TakenTyped, Zenon
  <2>3. PICK r \in Connection(Clients \X Nat) :
          /\ conn' = [conn EXCEPT ![c] = r]
          /\ r.unread = <<>> /\ r.echoed = conn[c].echoed /\ r.stage = conn[c].stage
          /\ r.sent = conn[c].sent /\ r.reset = conn[c].reset
    BY <2>2, Zenon
  <2>4. conn[c].sent \in Nat
    <3>1. conn[c] \in Connection(Clients \X Nat)
      BY <1>3
    <3>. QED
      BY <3>1 DEF Connection
  <2>5. Carried(c, r, conn[c].unread, Whole(conn[c]))
    BY <1>5, <2>3, <2>4, CarriedTakes, Zenon
  <2>6. Whole(r) <=> Whole(conn[c])
    BY <2>3 DEF Whole
  <2>7. Carried(c, r, conn[c].unread, Whole(r))
    BY <2>5, <2>6, CarriedWhole, Zenon
  <2>8. gNodeList[i].phase # "none"
    BY <1>1
  <2>. QED
    BY <1>1, <1>2, <1>7, <2>3, <2>7, <2>8, AioHeldBecomes DEF A!Becomes
<1>8. CASE A!Leaves(i) /\ UNCHANGED conn
  <2>1. conn' = [conn EXCEPT ![c] = conn[c]] /\ gNodeList[i].phase # "none"
    BY <1>1, <1>3, <1>8
  <2>. QED
    BY <1>1, <1>2, <1>5, <1>8, <2>1, AioHeldLeaves
<1>. QED
  BY <1>2, <1>6, <1>7, <1>8 DEF A!read_cb

(* write_cb gives the client the buffer, or drops it with the connection.  *)
LEMMA AioHeldWrites ==
  ASSUME AioInv, AioHeld, NEW i \in A!Nodes, A!write_cb(i)
  PROVE  AioHeld'
<1>1. A!Running /\ gNodeList[i].phase = "write" /\ fds' = fds /\ gNodeList[i].phase # "none"
  BY DEF A!write_cb
<1>2. PICK c \in Clients : c = A!Behind(i)
  BY <1>1, AioBehind
<1>3. conn \in [Clients -> Connection(Clients \X Nat)] /\ gNodeList[i] \in AioNode
  BY DEF AioInv, AioTypes
<1>4. PICK b \in Seq(Clients \X Nat) : b = gNodeList[i].buf
  BY <1>3 DEF AioNode
<1>5. Carried(c, conn[c], b, Whole(conn[c])) /\ conn[c].stage # "closed"
  <2>1. /\ Carried(A!Behind(i), conn[A!Behind(i)], gNodeList[i].buf, Whole(conn[A!Behind(i)]))
        /\ conn[A!Behind(i)].stage # "closed"
    BY <1>1, AioSingle, Zenon
  <2>. QED
    BY <1>2, <1>4, <2>1, Zenon
<1>6. conn[c].sent \in Nat /\ conn[c].echoed \in Seq(Clients \X Nat)
  <2>1. conn[c] \in Connection(Clients \X Nat)
    BY <1>3
  <2>. QED
    BY <2>1 DEF Connection
<1>7. PICK r : conn' = [conn EXCEPT ![c] = r] /\ Carried(c, r, <<>>, Whole(r))
  <2>1. CASE conn[c].reset
    <3>1. conn' = [conn EXCEPT ![c] = conn[c]]
      BY <1>2, <1>3, <2>1 DEF A!write_cb
    <3>2. ~ Whole(conn[c])
      BY <2>1 DEF Whole
    <3>3. Carried(c, conn[c], <<>>, Whole(conn[c]))
      BY <1>5, <3>2, CarriedEnds, Zenon
    <3>. QED
      BY <3>1, <3>3, Zenon
  <2>2. CASE ~ conn[c].reset
    <3>1. PICK e : e = conn[c].echoed \o b
      BY Zenon
    <3>2. e \in Seq(Clients \X Nat)
      BY <1>6, <3>1
    <3>3. conn' = [conn EXCEPT ![c].echoed = e]
      BY <1>2, <1>4, <2>2, <3>1 DEF A!write_cb
    <3>4. \E r \in Connection(Clients \X Nat) :
            /\ conn' = [conn EXCEPT ![c] = r]
            /\ r.unread = conn[c].unread /\ r.echoed = e /\ r.stage = conn[c].stage
            /\ r.sent = conn[c].sent /\ r.fin = conn[c].fin /\ r.reset = conn[c].reset
      BY <1>3, <3>2, <3>3, GivenTyped, Zenon
    <3>5. PICK r \in Connection(Clients \X Nat) :
            /\ conn' = [conn EXCEPT ![c] = r]
            /\ r.unread = conn[c].unread /\ r.echoed = e /\ r.sent = conn[c].sent
      BY <3>4, Zenon
    <3>6. Whole(conn[c])
      BY <1>5, <2>2 DEF Whole
    <3>7. Carried(c, conn[c], b, TRUE)
      BY <1>5, <3>6 DEF Carried
    <3>8. r.echoed = conn[c].echoed \o b
      BY <3>1, <3>5
    <3>9. Carried(c, r, <<>>, Whole(r))
      BY <1>6, <3>5, <3>7, <3>8, CarriedGives, Zenon
    <3>. QED
      BY <3>5, <3>9, Zenon
  <2>. QED
    BY <2>1, <2>2
<1>8. CASE quit
  BY <1>1, <1>2, <1>7, <1>8, AioHeldLeaves DEF A!write_cb
<1>9. CASE ~ quit
  <2>1. PICK t : t = conn[c].reset
    BY Zenon
  <2>2. gNodeList' = [gNodeList EXCEPT ![i].phase = "read", ![i].buf = <<>>, ![i].told = t]
    BY <1>2, <1>9, <2>1 DEF A!write_cb
  <2>. QED
    BY <1>1, <1>2, <1>7, <2>2, AioHeldBecomes
<1>. QED
  BY <1>8, <1>9

(* The node main took goes to work for a connection no node worked for.    *)
LEMMA AioHeldStarts ==
  ASSUME AioInv, AioHeld, A!Starts
  PROVE  AioHeld'
<1>1. /\ UNCHANGED <<conn, fds>> /\ pc = "start"
      /\ gNodeList' = [gNodeList EXCEPT ![taken.idx].fd = taken.fd, ![taken.idx].phase = "read"]
  BY DEF A!Starts, A!MainGoes
<1>2. AioTypes /\ AioNodesOk /\ TakenOk
  BY <1>1 DEF AioInv, AioNodesOk, A!Running
<1>3. PICK idx \in A!Nodes, fd \in Fds : idx = taken.idx /\ fd = taken.fd
  BY <1>1, <1>2 DEF TakenOk
<1>4. PICK c \in Clients : c = fds[fd]
  BY <1>1, <1>2, <1>3 DEF TakenOk
<1>5. /\ gNodeList[idx].phase = "none"
      /\ \A i \in A!Nodes : gNodeList[i].phase # "none" => gNodeList[i].fd # fd
  BY <1>1, <1>2, <1>3 DEF TakenOk
<1>6. /\ gNodeList \in [A!Nodes -> AioNode] /\ gNodeList[idx] \in AioNode
      /\ conn \in [Clients -> Connection(Clients \X Nat)] /\ FdTable
  BY <1>2, <1>3 DEF AioTypes
<1>7. ASSUME NEW i \in A!Nodes
      PROVE  ~ On(i, c)
  <2>1. SUFFICES ASSUME On(i, c)
                 PROVE  FALSE
    OBVIOUS
  <2>2. gNodeList[i].phase # "none" /\ gNodeList[i].fd \in Fds /\ fds[gNodeList[i].fd] = c
    BY <1>2, <2>1, AioNamedRunning DEF On
  <2>3. gNodeList[i].fd = fd
    BY <1>4, <1>6, <2>2, PeersAssumption DEF FdTable
  <2>. QED
    BY <1>5, <2>2, <2>3
<1>8. Carried(c, conn[c], <<>>, Whole(conn[c]))
  BY <1>7, Zenon DEF AioHeld
<1>9. PICK n1, n2 : n1 = [gNodeList[idx] EXCEPT !.fd = fd] /\ n2 = [n1 EXCEPT !.phase = "read"]
  BY Zenon
<1>10. n2.phase = "read" /\ n2.fd = fd /\ n2.buf = gNodeList[idx].buf
  BY <1>6, <1>9 DEF AioNode
<1>11. gNodeList' = [gNodeList EXCEPT ![idx] = n2]
  BY <1>1, <1>3, <1>6, <1>9 DEF AioNode
<1>12. /\ gNodeList'[idx] = n2 /\ \A j \in A!Nodes \ {idx} : gNodeList'[j] = gNodeList[j]
  BY <1>6, <1>11
<1>13. gNodeList[idx].buf = <<>>
  BY <1>5 DEF AioHeld
<1>14. \A j \in A!Nodes : gNodeList'[j].phase # "write" => gNodeList'[j].buf = <<>>
  BY <1>10, <1>12, <1>13 DEF AioHeld
<1>15. ASSUME NEW j \in A!Nodes, NEW d \in Clients \ {c}
       PROVE  (On(j, d)' <=> On(j, d)) /\ (On(j, d) => gNodeList'[j].buf = gNodeList[j].buf)
  <2>1. CASE j = idx
    BY <1>1, <1>4, <1>5, <1>10, <1>12, <2>1 DEF On
  <2>2. CASE j # idx
    BY <1>1, <1>12, <2>2 DEF On
  <2>. QED
    BY <2>1, <2>2
<1>16. ASSUME NEW j \in A!Nodes, On(j, c)'
       PROVE  Carried(c, conn[c], gNodeList'[j].buf, Whole(conn[c]))
  <2>1. j = idx
    BY <1>1, <1>7, <1>12, <1>16 DEF On
  <2>2. gNodeList'[j].buf = <<>>
    BY <1>10, <1>12, <1>13, <2>1
  <2>. QED
    BY <1>8, <2>2, Zenon
<1>17. conn' = [conn EXCEPT ![c] = conn[c]]
  BY <1>1, <1>6
<1>. QED
  BY <1>6, <1>8, <1>14, <1>15, <1>16, <1>17, AioHolds, Zenon

(* A connection is accepted on a descriptor no node works with.            *)
LEMMA AioHeldAccepts ==
  ASSUME AioInv, AioHeld, NEW c \in Clients, A!AcceptsOne(c)
  PROVE  AioHeld'
<1>1. /\ pc = "accept" /\ Accepts(c) /\ A!GetUnusedNode # {}
      /\ taken' = [idx |-> Min(A!GetUnusedNode), fd |-> FreeFd]
      /\ gNodeList' = [gNodeList EXCEPT ![taken'.idx].status = TRUE]
  BY AioPeers DEF A!AcceptsOne, A!MainGoes
<1>2. /\ conn \in [Clients -> Connection(Clients \X Nat)] /\ FdTable /\ AioTypes /\ AioNodesOk
      /\ gNodeList \in [A!Nodes -> AioNode]
  BY <1>1 DEF AioInv, AioTypes, A!Running
<1>3. FreeFd \in Fds /\ fds[FreeFd] = None /\ fds' = [fds EXCEPT ![FreeFd] = c]
      /\ conn[c].stage = "pending"
  BY <1>1, <1>2, AcceptsTyped
<1>4. PICK idx : idx = taken'.idx
  OBVIOUS
<1>5. ASSUME NEW i \in A!Nodes
      PROVE  /\ gNodeList'[i].phase = gNodeList[i].phase
             /\ gNodeList'[i].buf = gNodeList[i].buf /\ gNodeList'[i].fd = gNodeList[i].fd
  <2>1. gNodeList[i] \in AioNode /\ gNodeList' = [gNodeList EXCEPT ![idx].status = TRUE]
    BY <1>1, <1>2, <1>4
  <2>2. PICK n : n = [gNodeList[i] EXCEPT !.status = TRUE]
    OBVIOUS
  <2>3. n.phase = gNodeList[i].phase /\ n.buf = gNodeList[i].buf /\ n.fd = gNodeList[i].fd
    BY <2>1, <2>2 DEF AioNode
  <2>4. gNodeList'[i] = gNodeList[i] \/ gNodeList'[i] = n
    BY <1>2, <2>1, <2>2
  <2>. QED
    BY <2>3, <2>4
<1>6. ASSUME NEW i \in A!Nodes, NEW d \in Clients
      PROVE  On(i, d)' <=> On(i, d)
  <2>1. CASE gNodeList[i].phase = "none"
    BY <1>5, <2>1 DEF On
  <2>2. CASE gNodeList[i].phase # "none"
    <3>1. gNodeList[i].fd \in Fds /\ fds[gNodeList[i].fd] \in Clients
      BY <1>2, <2>2, AioNamedRunning
    <3>2. gNodeList[i].fd # FreeFd
      BY <1>3, <3>1, PeersAssumption
    <3>3. fds'[gNodeList[i].fd] = fds[gNodeList[i].fd]
      BY <1>3, <3>2
    <3>. QED
      BY <1>5, <3>3 DEF On
  <2>. QED
    BY <2>1, <2>2
<1>7. Opened(c)
  BY <1>1, <1>3 DEF Accepts, Opened
<1>. QED
  BY <1>2, <1>5, <1>6, <1>7, AioHeldSame, Zenon

(* A connection that is closed is one no node works for any more.          *)
LEMMA AioHeldCloses ==
  ASSUME AioInv, AioHeld, NEW c \in Clients, A!Closes(c)
  PROVE  AioHeld'
<1>1. A!Running /\ leaving[c].at = "close" /\ gNodeList' = gNodeList
  BY DEF A!Closes
<1>2. AioTypes /\ AioNodesOk
  BY <1>1 DEF AioInv
<1>3. conn \in [Clients -> Connection(Clients \X Nat)] /\ FdTable
  BY <1>2 DEF AioTypes
<1>4. CASE UNCHANGED <<conn, fds>>
  <2>1. \A i \in A!Nodes : /\ gNodeList'[i].phase = gNodeList[i].phase
                            /\ gNodeList'[i].buf = gNodeList[i].buf
                            /\ \A d \in Clients : On(i, d)' <=> On(i, d)
    BY <1>1, <1>4 DEF On
  <2>. QED
    BY <1>3, <1>4, <2>1, AioHeldSame, Zenon
<1>5. CASE /\ A!Behind(leaving[c].idx) = c
           /\ A!CloseFds({gNodeList[leaving[c].idx].fd})
  <2>1. PICK i \in A!Nodes, f \in Fds : i = leaving[c].idx /\ f = gNodeList[i].fd /\ fds[f] = c
    BY <1>1, <1>2, <1>5 DEF AioNodesOk, LeavingOk, A!Behind
  <2>2. PICK T \in SUBSET Fds : T = {f}
    BY Zenon
  <2>3. CloseFds(T)
    BY <1>5, <2>1, <2>2, AioPeers, Zenon
  <2>4. /\ \A g \in Fds : fds'[g] = IF g \in T THEN None ELSE fds[g]
        /\ \A d \in Clients : (\A g \in T : fds[g] # d) => conn'[d] = conn[d]
        /\ \A d \in Clients : (\E g \in T : fds[g] = d) => conn'[d].stage = "closed"
        /\ conn' \in [Clients -> Connection(Clients \X Nat)]
    BY <1>3, <2>3, ClosesTyped, Zenon
  <2>5. PICK r : r = conn'[c]
    OBVIOUS
  <2>6. conn' = [conn EXCEPT ![c] = r]
    <3>1. \A d \in Clients \ {c} : conn'[d] = conn[d]
      BY <2>1, <2>2, <2>4
    <3>. QED
      BY <1>3, <2>4, <2>5, <3>1
  <2>7. r.stage = "closed" /\ r.sent = conn[c].sent /\ r.echoed = conn[c].echoed
    <3>1. conn'[c] = conn[c] \/ (conn'[c].stage = "closed" /\ conn'[c].sent = conn[c].sent /\ conn'[c].echoed = conn[c].echoed)
      BY <1>3, <2>3, CloseEnds, Zenon
    <3>2. conn'[c].stage = "closed"
      BY <2>1, <2>2, <2>4
    <3>. QED
      BY <2>5, <3>1, <3>2
  <2>8. ASSUME NEW j \in A!Nodes
        PROVE  ~ On(j, c)
    BY <1>1, <1>2 DEF On, AioNodesOk, ActiveOk
  <2>9. Carried(c, conn[c], <<>>, Whole(conn[c]))
    BY <2>8, Zenon DEF AioHeld
  <2>10. Carried(c, r, <<>>, Whole(r))
    <3>1. ~ Whole(r)
      BY <2>7 DEF Whole
    <3>. QED
      BY <2>7, <2>9, <3>1, CarriedEnds, Zenon
  <2>11. ASSUME NEW j \in A!Nodes, gNodeList[j].phase # "none"
         PROVE  /\ gNodeList[j].fd # f /\ fds'[gNodeList[j].fd] = fds[gNodeList[j].fd]
    <3>1. gNodeList[j].fd \in Fds /\ fds[gNodeList[j].fd] \in Clients
      BY <1>2, <2>11, AioNamedRunning
    <3>2. gNodeList[j].fd # f
      BY <2>1, <2>8, <2>11 DEF On
    <3>. QED
      BY <2>2, <2>4, <3>1, <3>2
  <2>12. ASSUME NEW j \in A!Nodes, NEW d \in Clients
         PROVE  On(j, d)' <=> On(j, d)
    BY <1>1, <2>11 DEF On
  <2>13. \A j \in A!Nodes : gNodeList'[j].phase # "write" => gNodeList'[j].buf = <<>>
    BY <1>1 DEF AioHeld
  <2>14. \A j \in A!Nodes : ~ On(j, c)'
    BY <2>8, <2>12
  <2>15. \A j \in A!Nodes : gNodeList'[j].buf = gNodeList[j].buf
    BY <1>1
  <2>. QED
    BY <1>3, <2>6, <2>10, <2>12, <2>13, <2>14, <2>15, AioHolds, Zenon
<1>. QED
  BY <1>4, <1>5 DEF A!Closes

(* Every step of the asynchronous server keeps what its nodes hold.        *)
LEMMA AioHeldNext ==
  ASSUME AioInv, AioHeld, A!Next
  PROVE  AioHeld'
<1>1. conn \in [Clients -> Connection(Clients \X Nat)]
  BY DEF AioInv, AioTypes
<1>2. ASSUME UNCHANGED <<fds, gNodeList>>,
             \/ UNCHANGED conn
             \/ \E c \in Clients : Opened(c) \/ Ended(c) \/ Connects(c) \/ Arrives(c)
      PROVE  AioHeld'
  <2>1. \A i \in A!Nodes : /\ gNodeList'[i].phase = gNodeList[i].phase
                            /\ gNodeList'[i].buf = gNodeList[i].buf
                            /\ \A d \in Clients : On(i, d)' <=> On(i, d)
    BY <1>2 DEF On
  <2>. QED
    BY <1>1, <1>2, <2>1, AioHeldSame, Zenon
<1>3. CASE A!Main
  <2>1. CASE A!Checks \/ A!Turns \/ A!Ends \/ A!AcceptAlarm
    BY <1>2, <2>1 DEF A!Checks, A!Turns, A!Ends, A!AcceptAlarm, A!aioVars
  <2>2. ASSUME NEW c \in Clients, A!AcceptsFull(c)
        PROVE  AioHeld'
    <3>1. Refuses(c) /\ gNodeList' = gNodeList
      BY <2>2, AioPeers DEF A!AcceptsFull, A!aioVars
    <3>2. Ended(c) /\ fds' = fds
      BY <3>1, OpenedEnded DEF Refuses
    <3>. QED
      BY <1>2, <3>1, <3>2
  <2>. QED
    BY <1>3, <2>1, <2>2, AioHeldStarts, AioHeldAccepts DEF A!Main
<1>4. CASE A!Thread
  <2>1. ASSUME NEW i \in A!Nodes, A!read_cb_failed(i) \/ A!WriteFails(i)
        PROVE  AioHeld'
    BY <1>2, <2>1 DEF A!read_cb_failed, A!WriteFails, A!aioVars
  <2>2. ASSUME NEW c \in Clients, A!Counts(c)
        PROVE  AioHeld'
    BY <1>2, <2>2 DEF A!Counts
  <2>. QED
    BY <1>4, <2>1, <2>2, AioHeldReads, AioHeldWrites, AioHeldCloses DEF A!Thread
<1>5. CASE A!sig_int
  BY <1>2, <1>5 DEF A!sig_int, A!aioVars
<1>6. CASE A!Environment
  BY <1>2, <1>6, AioPeers DEF A!Environment, A!aioVars
<1>. QED
  BY <1>3, <1>4, <1>5, <1>6 DEF A!Next

(* When main or the process ends, the nodes stay as they are.              *)
LEMMA AioNamedNext ==
  ASSUME AioNamed, A!Running' => AioNamed', A!Next
  PROVE  AioNamed'
<1>1. ASSUME ~ A!Running'
      PROVE  UNCHANGED <<fds, gNodeList>>
  <2>1. CASE A!Main
    BY <1>1, <2>1 DEF A!Main, A!Checks, A!Turns, A!Ends, A!AcceptAlarm, A!AcceptsFull, A!AcceptsOne,
       A!Starts, A!MainGoes, A!Running, A!aioVars
  <2>2. ASSUME pc' = pc, A!Running
        PROVE  FALSE
    BY <1>1, <2>2 DEF A!Running
  <2>3. CASE A!Thread
    <3>1. ASSUME NEW i \in A!Nodes, A!read_cb(i) \/ A!write_cb(i)
          PROVE  FALSE
      BY <2>2, <3>1 DEF A!read_cb, A!write_cb
    <3>2. ASSUME NEW i \in A!Nodes, A!read_cb_failed(i) \/ A!WriteFails(i)
          PROVE  UNCHANGED <<fds, gNodeList>>
      BY <3>2 DEF A!read_cb_failed, A!WriteFails, A!aioVars
    <3>3. ASSUME NEW c \in Clients, A!Counts(c)
          PROVE  FALSE
      BY <2>2, <3>3 DEF A!Counts
    <3>4. ASSUME NEW c \in Clients, A!Closes(c)
          PROVE  UNCHANGED <<fds, gNodeList>>
      BY <2>2, <3>4 DEF A!Closes
    <3>. QED
      BY <2>3, <3>1, <3>2, <3>3, <3>4 DEF A!Thread
  <2>4. CASE A!sig_int \/ A!Environment
    BY <2>4 DEF A!sig_int, A!Environment, A!aioVars
  <2>. QED
    BY <2>1, <2>3, <2>4 DEF A!Next
<1>2. CASE ~ A!Running'
  BY <1>1, <1>2 DEF AioNamed, On, A!Nodes
<1>. QED
  BY <1>2

(* What the nodes hold is known throughout the runs of aio_echo_server.    *)
LEMMA AioHeldAlways == Spec => [](Runs({"aio_echo_server"}) => AioInv /\ AioNamed /\ AioHeld)
<1>0. (Runs({"aio_echo_server"}) => AioInv) => (Runs({"aio_echo_server"}) /\ A!Running => AioNamed)
  BY AioNamedRunning DEF AioInv
<1>1. Init => (Runs({"aio_echo_server"}) => AioNamed /\ AioHeld)
  <2>1. ASSUME A!Init
        PROVE  AioNamed /\ AioHeld
    <3>1. \A i \in A!Nodes : gNodeList[i].phase = "none" /\ gNodeList[i].buf = <<>>
      BY <2>1 DEF A!Init
    <3>2. conn = [c \in Clients |-> NoConn]
      BY <2>1 DEF A!Init, A!InitPeers, A!NoConn, NoConn
    <3>3. \A i \in A!Nodes, c \in Clients : ~ On(i, c)
      BY <3>1 DEF On
    <3>4. ASSUME NEW c \in Clients
          PROVE  Carried(c, conn[c], <<>>, Whole(conn[c]))
      <4>1. conn[c] = NoConn
        BY <3>2
      <4>. QED
        BY <4>1, NothingSent, Zenon
    <3>. QED
      BY <3>1, <3>3, <3>4, Zenon DEF AioNamed, AioHeld
  <2>. QED
    BY <2>1, OnlyOneStarts
<1>2. ASSUME Runs({"aio_echo_server"}) => AioInv,
             Runs({"aio_echo_server"}) => AioNamed /\ AioHeld,
             (Runs({"aio_echo_server"}) /\ A!Running => AioNamed)', [Next]_mcVars
      PROVE  (Runs({"aio_echo_server"}) => AioNamed /\ AioHeld)'
  <2>1. program' = program
    BY <1>2, ProgramStays
  <2>2. CASE UNCHANGED mcVars
    <3>1. UNCHANGED <<conn, fds, gNodeList>>
      BY <2>2 DEF mcVars, aioVars
    <3>. QED
      BY <1>2, <2>1, <3>1 DEF Runs, AioNamed, AioHeld, On, A!Nodes, Whole
  <2>3. CASE Next
    <3>1. CASE Runs({"aio_echo_server"})
      <4>1. A!Next
        BY <2>3, <3>1, OnlyOneRuns
      <4>2. AioHeld'
        BY <1>2, <3>1, <4>1, AioHeldNext
      <4>3. A!Running' => AioNamed'
        BY <1>2, <2>1, <3>1 DEF Runs
      <4>4. AioNamed'
        BY <1>2, <3>1, <4>1, <4>3, AioNamedNext
      <4>. QED
        BY <4>2, <4>4
    <3>2. CASE ~ Runs({"aio_echo_server"})
      BY <2>1, <3>2 DEF Runs
    <3>. QED
      BY <3>1, <3>2
  <2>. QED
    BY <1>2, <2>2, <2>3
<1>. QED
  BY <1>0, <1>1, <1>2, AioAlways, PTL DEF Spec

(* The node of a connection holds what was read and has not been written.  *)
LEMMA AioExact ==
  ASSUME AioInv, AioNamed, AioHeld
  PROVE  A!EchoExact
<1>1. conn \in [Clients -> Connection(Clients \X Nat)]
  BY DEF AioInv, AioTypes
<1>2. ASSUME NEW c \in Clients
      PROVE  /\ A!IsPrefix(conn[c].echoed, A!Sent(c))
             /\ A!Open(c) /\ A!Alive(c) => conn[c].echoed \o A!InNode(c) \o conn[c].unread = A!Sent(c)
  <2> DEFINE mine == {i \in A!Nodes : gNodeList[i].phase # "none" /\ A!Behind(i) = c}
  <2>1. mine = {i \in A!Nodes : gNodeList[i].phase # "none" /\ A!Behind(i) = c}
        /\ A!InNode(c) = IF mine = {} THEN <<>> ELSE gNodeList[CHOOSE i \in mine : TRUE].buf
    BY Zenon DEF A!InNode
  <2> HIDE DEF mine
  <2>2. PICK h : h = IF mine = {} THEN <<>> ELSE gNodeList[CHOOSE i \in mine : TRUE].buf
    BY Zenon
  <2>3. A!InNode(c) = h
    BY <2>1, <2>2, Zenon
  <2>4. \A i \in A!Nodes : i \in mine <=> On(i, c)
    BY <2>1 DEF On, A!Behind
  <2>5. Carried(c, conn[c], h, Whole(conn[c]))
    <3>1. CASE mine = {}
      <4>1. \A i \in A!Nodes : ~ On(i, c)
        BY <2>4, <3>1
      <4>2. Carried(c, conn[c], <<>>, Whole(conn[c]))
        BY <4>1, Zenon DEF AioHeld
      <4>3. h = <<>>
        BY <2>2, <3>1
      <4>. QED
        BY <4>2, <4>3, Zenon
    <3>2. CASE mine # {}
      <4>1. PICK i : i = CHOOSE j \in mine : TRUE
        BY Zenon
      <4>2. i \in mine
        BY <3>2, <4>1, Zenon
      <4>3. i \in A!Nodes /\ On(i, c)
        BY <2>1, <2>4, <4>2
      <4>4. Carried(c, conn[c], gNodeList[i].buf, Whole(conn[c]))
        BY <4>3, Zenon DEF AioHeld
      <4>5. h = gNodeList[i].buf
        BY <2>2, <3>2, <4>1, Zenon
      <4>. QED
        BY <4>4, <4>5, Zenon
    <3>. QED
      BY <3>1, <3>2
  <2>6. conn[c].sent \in Nat
    <3>1. conn[c] \in Connection(Clients \X Nat)
      BY <1>1
    <3>. QED
      BY <3>1 DEF Connection
  <2>7. PICK sent : sent = Sent(c) /\ sent = [i \in 1 .. conn[c].sent |-> <<c, i>>]
    BY DEF Sent
  <2>8. /\ IsPrefix(conn[c].echoed, sent)
        /\ Whole(conn[c]) => conn[c].echoed \o h \o conn[c].unread = sent
    BY <2>5, <2>6, <2>7, CarriedExactly, Zenon
  <2>9. A!Open(c) /\ A!Alive(c) => Whole(conn[c])
    BY DEF A!Open, A!Alive, Whole
  <2>. QED
    BY <2>3, <2>7, <2>8, <2>9 DEF A!IsPrefix, IsPrefix, A!Sent, Sent
<1>. QED
  BY <1>2 DEF A!EchoExact, A!EchoedExactly

-----------------------------------------------------------------------------
(***************************************************************************)
(* Every echo server, for any number of clients, descriptors and bytes:    *)
(* what came back to a client is what it sent first, byte for byte and in  *)
(* order; and while its connection is open nothing it sent is lost, so     *)
(* that what has not come back is still unread or in the server's hands.   *)
(***************************************************************************)
THEOREM BytesComeBack == Spec => []EchoExact
<1>1. (Runs({"epoll_reactor"}) => ReactInv /\ ReactHeld) => (Runs({"epoll_reactor"}) => R!EchoExact)
  BY ReactExact
<1>2. (Runs(E!Programs) => EpollInv /\ EpollHeld) => (Runs(E!Programs) => E!EchoExact)
  BY EpollExact
<1>3. (Runs(S!Programs) => SelectInv /\ AllKept) => (Runs(S!Programs) => S!EchoExact)
  BY SelectExact
<1>4. (Runs(F!Programs) => ForkInv) /\ (Runs(F!Programs) => ForkHeld) => (Runs(F!Programs) => F!EchoExact)
  BY ForkExact
<1>5. (Runs(G!Programs) => SigioHeld) => (Runs(G!Programs) => G!EchoExact)
  BY SigioExact
<1>6. (Runs(L!Programs) => EventHeld) => (Runs(L!Programs) => L!EchoExact)
  BY EventExact
<1>7. (Runs({"aio_echo_server"}) => AioInv /\ AioNamed /\ AioHeld) => (Runs({"aio_echo_server"}) => A!EchoExact)
  BY AioExact
<1>8. /\ Runs({"epoll_reactor"}) => R!EchoExact
      /\ Runs(E!Programs) => E!EchoExact
      /\ Runs(S!Programs) => S!EchoExact
      /\ Runs(F!Programs) => F!EchoExact
      /\ Runs(G!Programs) => G!EchoExact
      /\ Runs(L!Programs) => L!EchoExact
      /\ Runs({"aio_echo_server"}) => A!EchoExact
      => EchoExact
  BY DEF EchoExact
<1>. QED
  BY <1>1, <1>2, <1>3, <1>4, <1>5, <1>6, <1>7, <1>8, ReactHeldAlways, EpollHeldAlways, SelectKeptAlways,
     ForkAlways, ForkHeldAlways, SigioHeldAlways, EventHeldAlways, AioHeldAlways, PTL

-----------------------------------------------------------------------------
(* SigioServers: whether process p lists the connection of client c, and   *)
(* whether it is going to read it: a signal is pending, or its handler is  *)
(* not yet past the entry.                                                 *)
Has(p, c) == \E i \in G!Entries : cfd_list[p][i] = c

Watches(p, c) ==
  \/ sigio[p]
  \/ handler[p] \in {G!Accept, G!SetAio}
  \/ \E i \in G!Entries : cfd_list[p][i] = c /\ \E k \in 1 .. i : handler[p] = <<"read", k>>

SigioTypes ==
  /\ main \in {"start", "listening", "forked", "forwarding"}
  /\ program \in G!Programs
  /\ cfd_list \in [G!Procs -> [G!Entries -> Clients \union {None}]]
  /\ owner \in [Clients -> G!Procs \union {None}]
  /\ sigio \in [G!Procs -> BOOLEAN]
  /\ handler \in [G!Procs -> {G!None_, G!Accept, G!SetAio} \union ({"read"} \X G!Entries)]
  /\ new \in [G!Procs -> Clients \union {None}]
  /\ unseen \subseteq Clients
  /\ \A p \in G!Procs : handler[p] = G!SetAio => new[p] \in Clients

(* Before fork there is no child, and until the parent passes signals on   *)
(* the child has none. From then on the parent serves nobody.              *)
SigioIdle ==
  /\ main \in {"start", "listening"} => \A i \in G!Entries : cfd_list["child"][i] = None
  /\ main # "forwarding" => /\ handler["child"] = G!None_ /\ ~ sigio["child"]
                            /\ \A c \in Clients : owner[c] # "child"
  /\ main = "forwarding" => handler["parent"] = G!None_
  /\ ~ G!Features[program].forks => main \in {"start", "listening"}

(* A connection is listed before set_aio gives it its owner.               *)
SigioOwned ==
  \A p \in G!Procs, c \in Clients :
    Has(p, c) => owner[c] # None \/ (handler[p] = G!SetAio /\ new[p] = c)

(* The owner of what was not seen, or the child in its place, is going to  *)
(* read it.                                                                *)
Claim(c) ==
  /\ owner[c] = "child" /\ Has("child", c) => Watches("child", c)
  /\ owner[c] = "parent" /\ Has("parent", c) =>
       IF main # "forwarding" THEN Watches("parent", c)
       ELSE sigio["parent"] \/ (Has("child", c) => Watches("child", c))

SigioWatched == \A c \in unseen : Claim(c)

SigioSeen == main # "exited" => SigioTypes /\ SigioIdle /\ SigioOwned /\ SigioWatched

(* Nothing is unseen before the first client.                              *)
LEMMA SigioSeenInit ==
  ASSUME G!Init
  PROVE  SigioSeen
<1>1. SigioTypes
  <2>1. G!None_ \in {G!None_, G!Accept, G!SetAio} \union ({"read"} \X G!Entries)
    BY Zenon
  <2>2. handler \in [G!Procs -> {G!None_, G!Accept, G!SetAio} \union ({"read"} \X G!Entries)]
    BY <2>1, Zenon DEF G!Init
  <2>3. \A p \in G!Procs : handler[p] # G!SetAio
    BY DEF G!Init, G!None_, G!SetAio
  <2>4. None \in Clients \union {None} /\ None \in G!Procs \union {None}
    OBVIOUS
  <2>5. [i \in G!Entries |-> None] \in [G!Entries -> Clients \union {None}]
    BY <2>4, Zenon
  <2>6. cfd_list \in [G!Procs -> [G!Entries -> Clients \union {None}]]
    BY <2>5, Zenon DEF G!Init
  <2>7. owner \in [Clients -> G!Procs \union {None}] /\ new \in [G!Procs -> Clients \union {None}]
    BY <2>4, Zenon DEF G!Init
  <2>8. sigio \in [G!Procs -> BOOLEAN] /\ unseen \subseteq Clients
    BY Zenon DEF G!Init
  <2>9. main = "start" /\ program \in G!Programs
    BY DEF G!Init
  <2>. QED
    BY <2>2, <2>3, <2>6, <2>7, <2>8, <2>9, Zenon DEF SigioTypes
<1>2. SigioIdle
  <2>1. handler["child"] = G!None_ /\ ~ sigio["child"] /\ \A i \in G!Entries : cfd_list["child"][i] = None
    BY DEF G!Init, G!Procs
  <2>2. \A c \in Clients : owner[c] # "child"
    BY OwnerAssumption DEF G!Init
  <2>. QED
    BY <2>1, <2>2 DEF G!Init, SigioIdle
<1>3. SigioOwned
  <2>1. \A p \in G!Procs, c \in Clients : ~ Has(p, c)
    BY PeersAssumption DEF G!Init, Has
  <2>. QED
    BY <2>1 DEF SigioOwned
<1>4. SigioWatched
  BY DEF G!Init, SigioWatched
<1>. QED
  BY <1>1, <1>2, <1>3, <1>4 DEF SigioSeen

(* main.                                                                   *)
LEMMA SigioSeenMain ==
  ASSUME SigioTypes, SigioIdle, SigioOwned, SigioWatched, G!Listens \/ G!Forks \/ G!SetsFlag
  PROVE  SigioSeen'
<1>. USE DEF G!Main, G!Procs
<1>1. /\ UNCHANGED <<program, owner, sigio, handler, new, unseen>> /\ handler["parent"] = G!None_
      /\ \/ main = "start" /\ main' = "listening" /\ cfd_list' = cfd_list
         \/ /\ main = "listening" /\ main' = "forked" /\ G!Features[program].forks
            /\ cfd_list' = [cfd_list EXCEPT !["child"] = cfd_list["parent"]]
         \/ main = "forked" /\ main' = "forwarding" /\ cfd_list' = cfd_list
  BY DEF G!Listens, G!Forks, G!SetsFlag
<1>2. SigioTypes'
  <2>1. cfd_list' \in [G!Procs -> [G!Entries -> Clients \union {None}]]
    BY <1>1 DEF SigioTypes
  <2>. QED
    BY <1>1, <2>1 DEF SigioTypes
<1>3. /\ \A i \in G!Entries : cfd_list'["parent"][i] = cfd_list["parent"][i]
      /\ main' = "forked" => \A i \in G!Entries : cfd_list'["child"][i] = cfd_list["parent"][i]
      /\ main' # "forked" => cfd_list' = cfd_list
  BY <1>1 DEF SigioTypes
<1>4. \A c : /\ Has("parent", c)' <=> Has("parent", c)
             /\ Has("child", c)' => Has("child", c) \/ (main # "forwarding" /\ Has("parent", c))
  BY <1>1, <1>3 DEF Has
<1>5. SigioIdle'
  BY <1>1, <1>3 DEF SigioIdle
<1>6. SigioOwned'
  <2>1. G!None_ # G!SetAio
    BY DEF G!None_, G!SetAio
  <2>. QED
    BY <1>1, <1>4, <2>1 DEF SigioOwned, SigioIdle
<1>7. \A c : Watches("parent", c)' <=> Watches("parent", c)
  BY <1>1, <1>3 DEF Watches
<1>8. \A c : Watches("parent", c) => sigio["parent"]
  <2>1. ~ (G!None_ \in {G!Accept, G!SetAio}) /\ \A k : G!None_ # <<"read", k>>
    BY DEF G!None_, G!SetAio, G!Accept
  <2>. QED
    BY <1>1, <2>1 DEF Watches
<1>9. ASSUME NEW c \in unseen
      PROVE  Claim(c)'
  <2>1. Claim(c) /\ c \in Clients
    BY <1>9 DEF SigioWatched, SigioTypes
  <2>2. main # "forwarding" /\ owner[c] # "child" /\ owner'[c] = owner[c]
    BY <1>1, <2>1 DEF SigioIdle
  <2>. QED
    BY <1>1, <1>4, <1>7, <1>8, <2>1, <2>2 DEF Claim
<1>. QED
  BY <1>1, <1>2, <1>5, <1>6, <1>9 DEF SigioSeen, SigioWatched

(* The places of the handler.                                              *)
SigioPlaces == {G!None_, G!Accept, G!SetAio} \union ({"read"} \X G!Entries)

LEMMA SigioPlacesKnown ==
  /\ G!None_ # G!Accept /\ G!None_ # G!SetAio /\ G!Accept # G!SetAio
  /\ 1 \in G!Entries /\ G!ReadOf(1) = <<"read", 1>>
  /\ \A i \in G!Entries :
       /\ G!ReadOf(i) = <<"read", i>> /\ G!ReadOf(i) # G!None_ /\ G!ReadOf(i) # G!Accept /\ G!ReadOf(i) # G!SetAio
       /\ G!ReadOf(i) \in SigioPlaces /\ G!ReadOf(i + 1) \in SigioPlaces /\ G!ReadOf(i + 1) # G!SetAio
       /\ i + 1 \in G!Entries => G!ReadOf(i + 1) = <<"read", i + 1>>
<1>1. TABLE_MAX \in Nat \ {0}
  BY ServersAssumption
<1>2. G!None_ # G!Accept /\ G!None_ # G!SetAio /\ G!Accept # G!SetAio
  BY DEF G!None_, G!Accept, G!SetAio
<1>3. 1 \in G!Entries /\ G!ReadOf(1) = <<"read", 1>>
  BY <1>1 DEF G!Entries, G!ReadOf
<1>4. ASSUME NEW i \in G!Entries
      PROVE  G!ReadOf(i) = <<"read", i>> /\ (i + 1 \in G!Entries => G!ReadOf(i + 1) = <<"read", i + 1>>)
             /\ (i + 1 \notin G!Entries => G!ReadOf(i + 1) = G!None_)
  BY <1>1 DEF G!Entries, G!ReadOf
<1>5. \A i : <<"read", i>> # G!None_ /\ <<"read", i>> # G!Accept /\ <<"read", i>> # G!SetAio
  BY DEF G!None_, G!Accept, G!SetAio
<1>6. \A i \in G!Entries : <<"read", i>> \in SigioPlaces
  BY DEF SigioPlaces
<1>7. G!None_ \in SigioPlaces
  BY DEF SigioPlaces
<1>. QED
  BY <1>2, <1>3, <1>4, <1>5, <1>6, <1>7

(* A step of the handler of one process.                                   *)
LEMMA SigioAtWork ==
  ASSUME SigioTypes, SigioIdle, SigioOwned, SigioWatched, SigioTypes',
         NEW p \in G!Procs, handler[p] # G!None_,
         UNCHANGED <<main, program, sigio>>,
         \A q \in G!Procs : q # p => /\ handler'[q] = handler[q] /\ cfd_list'[q] = cfd_list[q]
                                     /\ new'[q] = new[q],
         \A c \in Clients : owner'[c] = owner[c] \/ owner'[c] = p,
         \A c \in Clients : Has(p, c)' => owner'[c] # None \/ (handler'[p] = G!SetAio /\ new'[p] = c),
         unseen' \subseteq unseen,
         \A c \in unseen' : Has(p, c)' =>
           \/ Watches(p, c)'
           \/ Has(p, c) /\ owner'[c] = owner[c] /\ ~ Watches(p, c)
  PROVE  SigioSeen'
<1>1. /\ p \in {"parent", "child"} /\ "parent" \in G!Procs /\ "child" \in G!Procs
      /\ p = "child" <=> main = "forwarding"
  BY DEF G!Procs, SigioIdle
<1>2. SigioIdle'
  <2>1. /\ p = "parent" => handler'["child"] = handler["child"] /\ cfd_list'["child"] = cfd_list["child"]
        /\ p = "child" => handler'["parent"] = handler["parent"]
    BY <1>1
  <2>2. p = "parent" => \A c \in Clients : owner[c] # "child" => owner'[c] # "child"
    BY <1>1
  <2>. QED
    BY <1>1, <2>1, <2>2 DEF SigioIdle
<1>3. \A q \in G!Procs : \A c : q # p => (Has(q, c)' <=> Has(q, c)) /\ (Watches(q, c)' <=> Watches(q, c))
  BY DEF Has, Watches
<1>4. SigioOwned'
  <2>1. ASSUME NEW q \in G!Procs, NEW c \in Clients, Has(q, c)', q # p
        PROVE  owner'[c] # None \/ (handler'[q] = G!SetAio /\ new'[q] = c)
    <3>1. owner[c] # None \/ (handler[q] = G!SetAio /\ new[q] = c)
      BY <1>3, <2>1 DEF SigioOwned
    <3>2. p # None
      BY <1>1, OwnerAssumption
    <3>. QED
      BY <2>1, <3>1, <3>2
  <2>. QED
    BY <2>1 DEF SigioOwned
<1>5. ASSUME NEW c \in unseen'
      PROVE  Claim(c)'
  <2>1. c \in Clients /\ Claim(c)
    BY <1>5 DEF SigioWatched, SigioTypes
  <2>2. CASE p = "child"
    <3>1. main = "forwarding" /\ main' = "forwarding"
      BY <1>1, <2>2
    <3>2. Has("parent", c)' <=> Has("parent", c)
      BY <1>1, <1>3, <2>2
    <3>3. owner'[c] = owner[c] \/ owner'[c] = "child"
      BY <2>1, <2>2
    <3>4. Has("child", c)' => Watches("child", c)' \/ (Has("child", c) /\ owner'[c] = owner[c] /\ ~ Watches("child", c))
      BY <1>5, <2>2
    <3>. QED
      BY <2>1, <3>1, <3>2, <3>3, <3>4 DEF Claim
  <2>3. CASE p = "parent"
    <3>1. main # "forwarding" /\ main' # "forwarding"
      BY <1>1, <2>3
    <3>2. owner'[c] # "child"
      BY <2>1, <2>3, <3>1 DEF SigioIdle
    <3>3. Has("parent", c)' => Watches("parent", c)' \/ (Has("parent", c) /\ owner'[c] = owner[c] /\ ~ Watches("parent", c))
      BY <1>5, <2>3
    <3>. QED
      BY <2>1, <3>1, <3>2, <3>3 DEF Claim
  <2>. QED
    BY <1>1, <2>2, <2>3
<1>. QED
  BY <1>2, <1>4, <1>5 DEF SigioSeen, SigioWatched

(* The types after a step of a handler, from those of what it changed.     *)
LEMMA SigioTypesNext ==
  ASSUME SigioTypes, NEW p \in G!Procs, NEW to \in SigioPlaces,
         UNCHANGED <<main, program>>, handler' = [handler EXCEPT ![p] = to],
         cfd_list' \in [G!Procs -> [G!Entries -> Clients \union {None}]],
         owner' \in [Clients -> G!Procs \union {None}], sigio' \in [G!Procs -> BOOLEAN],
         new' \in [G!Procs -> Clients \union {None}],
         \A q \in G!Procs : q # p => new'[q] = new[q],
         to = G!SetAio => new'[p] \in Clients,
         unseen' \subseteq Clients
  PROVE  /\ SigioTypes' /\ handler'[p] = to
         /\ \A q \in G!Procs : q # p => handler'[q] = handler[q]
<1>1. handler \in [G!Procs -> SigioPlaces]
  BY DEF SigioTypes, SigioPlaces
<1>2. handler' \in [G!Procs -> SigioPlaces] /\ handler'[p] = to /\ \A q \in G!Procs : q # p => handler'[q] = handler[q]
  BY <1>1
<1>3. \A q \in G!Procs : handler'[q] = G!SetAio => new'[q] \in Clients
  BY <1>2 DEF SigioTypes
<1>4. main' \in {"start", "listening", "forked", "forwarding"} /\ program' \in G!Programs
  BY DEF SigioTypes
<1>5. handler' \in [G!Procs -> {G!None_, G!Accept, G!SetAio} \union ({"read"} \X G!Entries)]
  BY <1>2 DEF SigioPlaces
<1>. QED
  BY <1>2, <1>3, <1>4, <1>5, Zenon DEF SigioTypes

(* One entry of cfd_list is set.                                           *)
LEMMA SigioEntrySet ==
  ASSUME cfd_list \in [G!Procs -> [G!Entries -> Clients \union {None}]],
         NEW p \in G!Procs, NEW i \in G!Entries, NEW d \in Clients \union {None},
         cfd_list' = [cfd_list EXCEPT ![p][i] = d]
  PROVE  /\ cfd_list' \in [G!Procs -> [G!Entries -> Clients \union {None}]]
         /\ \A q \in G!Procs : q # p => cfd_list'[q] = cfd_list[q]
         /\ \A j \in G!Entries : j # i => cfd_list'[p][j] = cfd_list[p][j]
         /\ cfd_list'[p][i] = d
<1>1. PICK r \in [G!Entries -> Clients \union {None}] : r = cfd_list[p]
  OBVIOUS
<1>2. PICK t \in [G!Entries -> Clients \union {None}] : t = [r EXCEPT ![i] = d]
  OBVIOUS
<1>3. cfd_list' = [cfd_list EXCEPT ![p] = t]
  BY <1>1, <1>2
<1>4. cfd_list' \in [G!Procs -> [G!Entries -> Clients \union {None}]] /\ cfd_list'[p] = t
      /\ \A q \in G!Procs : q # p => cfd_list'[q] = cfd_list[q]
  BY <1>3
<1>5. t[i] = d /\ \A j \in G!Entries : j # i => t[j] = r[j]
  BY <1>2
<1>. QED
  BY <1>1, <1>4, <1>5

(* The reads.                                                              *)
LEMMA SigioSeenReads ==
  ASSUME SigioTypes, SigioIdle, SigioOwned, SigioWatched, NEW p \in G!Procs, NEW i \in G!Entries,
         NEW c \in Clients \union {None}, G!AtEntry(p, i, c), main' = main,
         cfd_list' = cfd_list \/ cfd_list' = [cfd_list EXCEPT ![p][i] = None]
  PROVE  SigioSeen'
<1>1. /\ c = cfd_list[p][i] /\ handler[p] = <<"read", i>>
      /\ handler' = [handler EXCEPT ![p] = G!ReadOf(i + 1)]
      /\ UNCHANGED <<program, owner, sigio, new>> /\ unseen' = unseen \ {c}
  BY SigioPlacesKnown DEF G!AtEntry, G!Handler
<1>2. /\ cfd_list' \in [G!Procs -> [G!Entries -> Clients \union {None}]]
      /\ \A q \in G!Procs : q # p => cfd_list'[q] = cfd_list[q]
      /\ \A j \in G!Entries : j # i => cfd_list'[p][j] = cfd_list[p][j]
      /\ \A j \in G!Entries : cfd_list'[p][j] # None => cfd_list'[p][j] = cfd_list[p][j]
  <2>1. cfd_list \in [G!Procs -> [G!Entries -> Clients \union {None}]]
    BY DEF SigioTypes
  <2>2. CASE cfd_list' = cfd_list
    BY <2>1, <2>2
  <2>3. CASE cfd_list' = [cfd_list EXCEPT ![p][i] = None]
    <3>1. PICK d \in Clients \union {None} : d = None
      OBVIOUS
    <3>2. cfd_list' = [cfd_list EXCEPT ![p][i] = d]
      BY <2>3, <3>1, Zenon
    <3>. QED
      BY <2>1, <3>1, <3>2, SigioEntrySet
  <2>. QED
    BY <2>2, <2>3
<1>3. G!ReadOf(i + 1) \in SigioPlaces /\ G!ReadOf(i + 1) # G!SetAio /\ handler[p] # G!None_ /\ handler[p] # G!SetAio
      /\ handler[p] # G!Accept
  BY <1>1, SigioPlacesKnown
<1>4. SigioTypes' /\ handler'[p] = G!ReadOf(i + 1) /\ \A q \in G!Procs : q # p => handler'[q] = handler[q]
  BY <1>1, <1>2, <1>3, SigioTypesNext DEF SigioTypes
<1>5. \A d \in Clients : Has(p, d)' => Has(p, d)
  BY <1>2, PeersAssumption DEF Has
<1>6. ASSUME NEW d \in unseen', Has(p, d)'
      PROVE  Watches(p, d)' \/ (Has(p, d) /\ owner'[d] = owner[d] /\ ~ Watches(p, d))
  <2>1. d \in Clients /\ d # c
    BY <1>1, <1>6 DEF SigioTypes
  <2>2. CASE sigio[p]
    BY <1>1, <2>2 DEF Watches
  <2>3. ASSUME ~ sigio[p], Watches(p, d)
        PROVE  Watches(p, d)'
    <3>1. PICK j \in G!Entries : cfd_list[p][j] = d /\ \E k \in 1 .. j : handler[p] = <<"read", k>>
      BY <1>3, <2>3 DEF Watches
    <3>2. i \in 1 .. j /\ j # i
      <4>1. PICK k \in 1 .. j : handler[p] = <<"read", k>>
        BY <3>1
      <4>2. k = i
        BY <1>1, <4>1
      <4>. QED
        BY <1>1, <2>1, <3>1, <4>2
    <3>3. i + 1 \in 1 .. j /\ i + 1 \in G!Entries
      BY <3>1, <3>2, ServersAssumption DEF G!Entries
    <3>4. handler'[p] = <<"read", i + 1>> /\ cfd_list'[p][j] = d
      BY <1>2, <1>4, <3>1, <3>2, <3>3, SigioPlacesKnown
    <3>. QED
      BY <3>1, <3>3, <3>4 DEF Watches
  <2>. QED
    BY <1>1, <1>5, <1>6, <2>1, <2>2, <2>3
<1>7. ASSUME NEW d \in Clients, Has(p, d)'
      PROVE  owner'[d] # None
  BY <1>1, <1>3, <1>5, <1>7 DEF SigioOwned
<1>. QED
  BY <1>1, <1>2, <1>3, <1>4, <1>6, <1>7, SigioAtWork

(* accept and set_aio.                                                     *)
LEMMA SigioSeenAccepts ==
  ASSUME SigioTypes, SigioIdle, SigioOwned, SigioWatched, NEW p \in G!Procs,
         UNCHANGED <<main, program, sigio, unseen>>,
         NEW to, handler' = [handler EXCEPT ![p] = to],
         \/ /\ handler[p] = G!Accept /\ to = G!ReadOf(1) /\ UNCHANGED <<cfd_list, owner, new>>
         \/ /\ handler[p] = G!SetAio /\ to = G!ReadOf(1) /\ UNCHANGED cfd_list
            /\ owner' = [owner EXCEPT ![new[p]] = p] /\ new' = [new EXCEPT ![p] = None]
         \/ /\ handler[p] = G!Accept /\ to = G!SetAio /\ UNCHANGED owner
            /\ \E c \in Clients, i \in G!Entries :
                 cfd_list' = [cfd_list EXCEPT ![p][i] = c] /\ new' = [new EXCEPT ![p] = c]
  PROVE  SigioSeen'
<1>1. handler[p] # G!None_ /\ to \in SigioPlaces /\ p # None
  BY SigioPlacesKnown, OwnerAssumption DEF SigioPlaces, G!Procs
<1>2. /\ cfd_list \in [G!Procs -> [G!Entries -> Clients \union {None}]]
      /\ owner \in [Clients -> G!Procs \union {None}]
      /\ new \in [G!Procs -> Clients \union {None}]
      /\ sigio \in [G!Procs -> BOOLEAN] /\ unseen \subseteq Clients
      /\ handler[p] = G!SetAio => new[p] \in Clients
  BY DEF SigioTypes
<1>3. CASE to = G!ReadOf(1) /\ UNCHANGED cfd_list
  <2>1. /\ owner' \in [Clients -> G!Procs \union {None}]
        /\ \A c \in Clients : owner'[c] = owner[c] \/ owner'[c] = p
        /\ \A c \in Clients : owner[c] = None /\ handler[p] = G!SetAio /\ new[p] = c => owner'[c] = p
    BY <1>2, <1>3, SigioPlacesKnown
  <2>2. new' \in [G!Procs -> Clients \union {None}] /\ \A q \in G!Procs : q # p => new'[q] = new[q]
    BY <1>2, <1>3, SigioPlacesKnown
  <2>3. to # G!SetAio
    BY <1>3, SigioPlacesKnown
  <2>4. SigioTypes' /\ handler'[p] = to /\ \A q \in G!Procs : q # p => handler'[q] = handler[q]
    BY <1>1, <1>2, <1>3, <2>1, <2>2, <2>3, SigioTypesNext
  <2>5. ASSUME NEW c \in Clients, Has(p, c)'
        PROVE  owner'[c] # None
    <3>1. Has(p, c)
      BY <1>3, <2>5 DEF Has
    <3>. QED
      BY <1>1, <2>1, <3>1 DEF SigioOwned
  <2>6. ASSUME NEW c, Has(p, c)'
        PROVE  Watches(p, c)'
    <3>1. PICK i \in G!Entries : cfd_list'[p][i] = c
      BY <2>6 DEF Has
    <3>2. 1 \in 1 .. i
      BY ServersAssumption DEF G!Entries
    <3>3. handler'[p] = <<"read", 1>>
      BY <1>3, <2>4, SigioPlacesKnown
    <3>. QED
      BY <3>1, <3>2, <3>3 DEF Watches
  <2>. QED
    BY <1>1, <1>3, <2>1, <2>2, <2>4, <2>5, <2>6, SigioAtWork
<1>4. ASSUME NEW c \in Clients, NEW i \in G!Entries, handler[p] = G!Accept, to = G!SetAio, UNCHANGED owner,
             cfd_list' = [cfd_list EXCEPT ![p][i] = c], new' = [new EXCEPT ![p] = c]
      PROVE  SigioSeen'
  <2>1. /\ cfd_list' \in [G!Procs -> [G!Entries -> Clients \union {None}]]
        /\ \A q \in G!Procs : q # p => cfd_list'[q] = cfd_list[q]
        /\ \A j \in G!Entries : j # i => cfd_list'[p][j] = cfd_list[p][j]
        /\ cfd_list'[p][i] = c
    BY <1>2, <1>4, SigioEntrySet
  <2>2. /\ new' \in [G!Procs -> Clients \union {None}] /\ new'[p] = c
        /\ \A q \in G!Procs : q # p => new'[q] = new[q]
    BY <1>2, <1>4
  <2>3. SigioTypes' /\ handler'[p] = to /\ \A q \in G!Procs : q # p => handler'[q] = handler[q]
    <3>1. /\ owner' \in [Clients -> G!Procs \union {None}] /\ sigio' \in [G!Procs -> BOOLEAN]
          /\ unseen' \subseteq Clients /\ (to = G!SetAio => new'[p] \in Clients)
      BY <1>2, <1>4, <2>2
    <3>. QED
      BY <1>1, <2>1, <2>2, <3>1, SigioTypesNext
  <2>4. \A d : Has(p, d)' => Has(p, d) \/ d = c
    BY <2>1 DEF Has
  <2>5. handler[p] # G!SetAio
    BY <1>4, SigioPlacesKnown
  <2>6. \A d \in Clients : Has(p, d)' => owner'[d] # None \/ (handler'[p] = G!SetAio /\ new'[p] = d)
    BY <1>4, <2>2, <2>3, <2>4, <2>5 DEF SigioOwned
  <2>7. \A d : Watches(p, d)'
    BY <1>4, <2>3 DEF Watches
  <2>. QED
    BY <1>1, <1>4, <2>1, <2>2, <2>3, <2>6, <2>7, SigioAtWork
<1>. QED
  BY <1>3, <1>4

(* A signal is delivered; the parent passes it on.                         *)
LEMMA SigioSeenSignal ==
  ASSUME SigioTypes, SigioIdle, SigioOwned, SigioWatched, NEW p \in G!Procs, G!sig_io(p)
  PROVE  SigioSeen'
<1>1. /\ UNCHANGED <<main, program, cfd_list, owner, new, unseen>> /\ sigio[p] /\ handler[p] = G!None_
      /\ main # "start"
  BY DEF G!sig_io, G!Handler
<1>2. /\ sigio \in [G!Procs -> BOOLEAN] /\ "parent" \in G!Procs /\ "child" \in G!Procs
      /\ p \in {"parent", "child"}
  BY DEF SigioTypes, G!Procs
<1>3. CASE p = "parent" /\ main = "forwarding"
  <2>1. handler' = [handler EXCEPT ![p] = G!None_] /\ sigio' = [q \in G!Procs |-> q = "child"]
    BY <1>3 DEF G!sig_io, G!Handler
  <2>2. sigio' \in [G!Procs -> BOOLEAN] /\ sigio'["child"]
    BY <1>2, <2>1
  <2>3. G!None_ \in SigioPlaces /\ G!None_ # G!SetAio
    BY SigioPlacesKnown DEF SigioPlaces
  <2>4. SigioTypes' /\ handler'[p] = G!None_ /\ \A q \in G!Procs : q # p => handler'[q] = handler[q]
    BY <1>1, <2>1, <2>2, <2>3, SigioTypesNext DEF SigioTypes
  <2>5. \A q \in G!Procs : handler'[q] = handler[q]
    BY <1>1, <2>4
  <2>6. SigioIdle'
    BY <1>1, <1>2, <1>3, <2>5 DEF SigioIdle
  <2>7. SigioOwned'
    BY <1>1, <2>5 DEF SigioOwned, Has
  <2>8. \A c : Claim(c)'
    BY <1>1, <1>3, <2>2 DEF Claim, Watches
  <2>. QED
    BY <2>4, <2>6, <2>7, <2>8 DEF SigioSeen, SigioWatched
<1>4. CASE ~ (p = "parent" /\ main = "forwarding")
  <2>1. handler' = [handler EXCEPT ![p] = G!Accept] /\ sigio' = [sigio EXCEPT ![p] = FALSE]
    BY <1>4 DEF G!sig_io, G!Handler
  <2>2. sigio' \in [G!Procs -> BOOLEAN] /\ \A q \in G!Procs : q # p => sigio'[q] = sigio[q]
    BY <1>2, <2>1
  <2>3. G!Accept \in SigioPlaces /\ G!Accept # G!SetAio
    BY SigioPlacesKnown DEF SigioPlaces
  <2>4. SigioTypes' /\ handler'[p] = G!Accept /\ \A q \in G!Procs : q # p => handler'[q] = handler[q]
    BY <1>1, <2>1, <2>2, <2>3, SigioTypesNext DEF SigioTypes
  <2>5. p = "child" <=> main = "forwarding"
    BY <1>1, <1>2, <1>4 DEF SigioIdle
  <2>6. SigioIdle'
    BY <1>1, <1>2, <2>2, <2>4, <2>5 DEF SigioIdle
  <2>7. SigioOwned'
    <3>1. handler[p] # G!SetAio
      BY <1>1, SigioPlacesKnown
    <3>. QED
      BY <1>1, <2>4, <3>1 DEF SigioOwned, Has
  <2>8. /\ \A c : Watches(p, c)'
        /\ \A q \in G!Procs : \A c : Watches(q, c) /\ q # p => Watches(q, c)'
    BY <1>1, <2>2, <2>4 DEF Watches
  <2>9. ASSUME NEW c \in unseen'
        PROVE  Claim(c)'
    <3>1. Claim(c) /\ c \in Clients
      BY <1>1, <2>9 DEF SigioWatched, SigioTypes
    <3>2. CASE p = "child"
      BY <1>1, <1>2, <2>5, <2>8, <3>1, <3>2 DEF Claim
    <3>3. CASE p = "parent"
      <4>1. main # "forwarding" /\ owner'[c] # "child"
        BY <1>1, <2>5, <3>1, <3>3 DEF SigioIdle
      <4>. QED
        BY <1>1, <2>8, <3>3, <4>1 DEF Claim
    <3>. QED
      BY <1>2, <3>2, <3>3
  <2>. QED
    BY <2>4, <2>6, <2>7, <2>9 DEF SigioSeen, SigioWatched
<1>. QED
  BY <1>3, <1>4

(* What clients do raises the signal of the owner.                         *)
LEMMA SigioSeenEnvironment ==
  ASSUME SigioTypes, SigioIdle, SigioOwned, SigioWatched, G!Environment
  PROVE  SigioSeen'
<1>1. UNCHANGED <<fds, program, main, cfd_list, owner, handler, new>>
  BY DEF G!Environment
<1>2. sigio \in [G!Procs -> BOOLEAN] /\ owner \in [Clients -> G!Procs \union {None}] /\ unseen \subseteq Clients
  BY DEF SigioTypes
<1>3. PICK c \in Clients :
        \/ G!Raises(IF main = "start" THEN None ELSE "parent") /\ unseen' = unseen
        \/ G!Raises(owner[c]) /\ unseen' = unseen \union {c}
  BY DEF G!Environment
<1>4. PICK p \in G!Procs \union {None} :
        /\ sigio' = IF p = None THEN sigio ELSE [sigio EXCEPT ![p] = TRUE]
        /\ \/ p \in {None, "parent"} /\ unseen' = unseen
           \/ p = owner[c] /\ unseen' = unseen \union {c}
  <2>1. "parent" \in G!Procs \union {None} /\ None \in G!Procs \union {None} /\ owner[c] \in G!Procs \union {None}
    BY <1>2 DEF G!Procs
  <2>. QED
    BY <1>3, <2>1 DEF G!Raises
<1>5. sigio' \in [G!Procs -> BOOLEAN] /\ (\A q \in G!Procs : sigio[q] \/ q = p => sigio'[q])
      /\ \A q \in G!Procs : q # p => sigio'[q] = sigio[q]
  BY <1>2, <1>4, OwnerAssumption DEF G!Procs
<1>6. unseen' \subseteq Clients
  BY <1>2, <1>4
<1>7. SigioTypes'
  BY <1>1, <1>5, <1>6 DEF SigioTypes
<1>8. main # "forwarding" => p # "child"
  BY <1>4, OwnerAssumption DEF SigioIdle
<1>9. SigioIdle' /\ SigioOwned'
  <2>1. SigioIdle'
    BY <1>1, <1>5, <1>8 DEF SigioIdle, G!Procs
  <2>2. SigioOwned'
    BY <1>1 DEF SigioOwned, Has
  <2>. QED
    BY <2>1, <2>2
<1>10. \A q \in G!Procs : \A d : Watches(q, d) => Watches(q, d)'
  BY <1>1, <1>5 DEF Watches
<1>11. \A q, d : Has(q, d)' <=> Has(q, d)
  BY <1>1 DEF Has
<1>12. "parent" \in G!Procs /\ "child" \in G!Procs
  BY DEF G!Procs
<1>13. ASSUME NEW d \in unseen'
       PROVE  Claim(d)'
  <2>1. CASE d \in unseen
    <3>1. Claim(d)
      BY <2>1 DEF SigioWatched
    <3>. QED
      BY <1>1, <1>5, <1>10, <1>11, <1>12, <3>1 DEF Claim
  <2>2. CASE d = c /\ p = owner[c]
    <3>1. \A q \in G!Procs : q = owner[d] => sigio'[q]
      BY <1>5, <2>2
    <3>2. \A q \in G!Procs : q = owner'[d] => sigio'[q] /\ Watches(q, d)'
      BY <1>1, <3>1 DEF Watches
    <3>. QED
      BY <1>12, <3>2 DEF Claim
  <2>. QED
    BY <1>4, <1>13, <2>1, <2>2
<1>. QED
  BY <1>7, <1>9, <1>13 DEF SigioSeen, SigioWatched

(* Every step of the servers driven by SIGIO keeps it.                     *)
LEMMA SigioSeenNext ==
  ASSUME SigioSeen, G!Next
  PROVE  SigioSeen'
<1>1. CASE main = "exited"
  <2>1. main' = main
    BY <1>1 DEF G!Next, G!Server, G!Environment, G!Listens, G!Forks, G!SetsFlag, G!Main, G!sig_io, G!AcceptsNone,
           G!AcceptsOne, G!set_aio, G!Arms, G!ReadsNothing, G!ReadsData, G!ReadsEnd, G!Exits, G!AtEntry, G!Handler
  <2>. QED
    BY <1>1, <2>1 DEF SigioSeen
<1>2. CASE main # "exited"
  <2>. USE <1>2
  <2>0. SigioTypes /\ SigioIdle /\ SigioOwned /\ SigioWatched
    BY DEF SigioSeen
  <2>1. CASE G!Environment
    BY <2>0, <2>1, SigioSeenEnvironment
  <2>2. CASE G!Listens \/ G!Forks \/ G!SetsFlag
    BY <2>0, <2>2, SigioSeenMain
  <2>3. ASSUME NEW p \in G!Procs, G!sig_io(p)
        PROVE  SigioSeen'
    BY <2>0, <2>3, SigioSeenSignal
  <2>4. ASSUME NEW p \in G!Procs, NEW to, G!Handler(p, G!Accept, to) \/ G!Handler(p, G!SetAio, to)
        PROVE  handler' = [handler EXCEPT ![p] = to] /\ UNCHANGED program
               /\ (G!Handler(p, G!Accept, to) => handler[p] = G!Accept)
               /\ (G!Handler(p, G!SetAio, to) => handler[p] = G!SetAio)
    BY <2>4 DEF G!Handler
  <2>5. ASSUME NEW p \in G!Procs, G!AcceptsNone(p)
        PROVE  SigioSeen'
    <3>1. G!Handler(p, G!Accept, G!ReadOf(1)) /\ UNCHANGED <<main, cfd_list, owner, sigio, new, unseen>>
      BY <2>5 DEF G!AcceptsNone
    <3>2. PICK to : to = G!ReadOf(1)
      BY Zenon
    <3>. QED
      BY <2>0, <2>4, <3>1, <3>2, SigioSeenAccepts
  <2>6. ASSUME NEW p \in G!Procs, G!set_aio(p)
        PROVE  SigioSeen'
    <3>1. /\ G!Handler(p, G!SetAio, G!ReadOf(1)) /\ UNCHANGED <<main, cfd_list, sigio, unseen>>
          /\ owner' = [owner EXCEPT ![new[p]] = p] /\ new' = [new EXCEPT ![p] = None]
      BY <2>6 DEF G!set_aio, G!Arms
    <3>2. PICK to : to = G!ReadOf(1)
      BY Zenon
    <3>. QED
      BY <2>0, <2>4, <3>1, <3>2, SigioSeenAccepts
  <2>7. ASSUME NEW p \in G!Procs, NEW c \in Clients, G!AcceptsOne(p, c)
        PROVE  SigioSeen'
    <3>1. CASE G!Free(p) = {}
      <4>1. G!Handler(p, G!Accept, G!ReadOf(1)) /\ UNCHANGED <<main, cfd_list, owner, sigio, new, unseen>>
        BY <2>7, <3>1 DEF G!AcceptsOne
      <4>2. PICK to : to = G!ReadOf(1)
        BY Zenon
      <4>. QED
        BY <2>0, <2>4, <4>1, <4>2, SigioSeenAccepts
    <3>2. CASE G!Free(p) # {}
      <4>1. PICK i : i = G!Min(G!Free(p))
        BY Zenon
      <4>2. i \in G!Entries
        <5>1. G!Free(p) \subseteq G!Entries /\ G!Entries \subseteq Nat
          BY DEF G!Free, G!Entries
        <5>2. Min(G!Free(p)) \in G!Free(p)
          BY <3>2, <5>1, MinIsLeast
        <5>3. G!Min(G!Free(p)) = Min(G!Free(p))
          BY DEF G!Min, Min
        <5>. QED
          BY <4>1, <5>1, <5>2, <5>3
      <4>3. /\ G!Handler(p, G!Accept, G!SetAio) /\ UNCHANGED <<main, owner, sigio, unseen>>
            /\ cfd_list' = [cfd_list EXCEPT ![p][i] = c] /\ new' = [new EXCEPT ![p] = c]
        BY <2>7, <3>2, <4>1 DEF G!AcceptsOne
      <4>4. PICK to : to = G!SetAio
        BY Zenon
      <4>. QED
        BY <2>0, <2>4, <4>2, <4>3, <4>4, SigioSeenAccepts
    <3>. QED
      BY <3>1, <3>2
  <2>8. ASSUME NEW p \in G!Procs, NEW i \in G!Entries, G!ReadsNothing(p, i)
        PROVE  SigioSeen'
    <3>1. PICK c \in Clients \union {None} : G!AtEntry(p, i, c) /\ main' = main /\ cfd_list' = cfd_list
      BY <2>8 DEF G!ReadsNothing
    <3>. QED
      BY <2>0, <3>1, SigioSeenReads
  <2>9. ASSUME NEW p \in G!Procs, NEW i \in G!Entries, NEW c \in Clients, G!ReadsData(p, i, c) \/ G!ReadsEnd(p, i, c)
        PROVE  SigioSeen'
    <3>1. G!AtEntry(p, i, c) /\ main' = main
          /\ (cfd_list' = cfd_list \/ cfd_list' = [cfd_list EXCEPT ![p][i] = None])
      BY <2>9 DEF G!ReadsData, G!ReadsEnd
    <3>2. PICK d \in Clients \union {None} : d = c
      OBVIOUS
    <3>. QED
      BY <2>0, <3>1, <3>2, SigioSeenReads
  <2>10. ASSUME NEW p \in G!Procs, NEW i \in G!Entries, NEW c \in Clients, G!Exits(p, i, c)
         PROVE  SigioSeen'
    BY <2>10 DEF G!Exits, SigioSeen
  <2>. QED
    BY <2>1, <2>2, <2>3, <2>5, <2>6, <2>7, <2>8, <2>9, <2>10 DEF G!Next, G!Server
<1>. QED
  BY <1>1, <1>2

(* It holds throughout their runs.                                         *)
LEMMA SigioSeenAlways == Spec => [](Runs(G!Programs) => SigioSeen)
<1>1. Init => (Runs(G!Programs) => SigioSeen)
  BY OnlyOneStarts, SigioSeenInit
<1>2. ASSUME Runs(G!Programs) => SigioSeen, [Next]_mcVars
      PROVE  (Runs(G!Programs) => SigioSeen)'
  <2>1. program' = program
    BY <1>2, ProgramStays
  <2>2. CASE UNCHANGED mcVars
    <3>1. UNCHANGED <<program, main, cfd_list, owner, sigio, handler, new, unseen>>
      BY <2>2 DEF mcVars, sigioVars
    <3>. QED
      BY <1>2, <3>1 DEF SigioSeen, SigioTypes, SigioIdle, SigioOwned, SigioWatched, Claim, Has, Watches, Runs
  <2>3. CASE Next
    <3>1. Runs(G!Programs) => G!Next
      BY <2>3, OnlyOneRuns
    <3>2. Runs(G!Programs)' <=> Runs(G!Programs)
      BY <2>1 DEF Runs
    <3>. QED
      BY <1>2, <3>1, <3>2, SigioSeenNext
  <2>. QED
    BY <1>2, <2>2, <2>3
<1>. QED
  BY <1>1, <1>2, PTL DEF Spec

(***************************************************************************)
(* aio_sigio.c and aio_sigio2.c, for any number of clients and entries:    *)
(* with no signal pending and no handler running, every connection of the  *)
(* serving process was read since something last arrived on it, whatever   *)
(* came between accept, set_aio and the loop, and around fork.             *)
(***************************************************************************)
THEOREM NothingIsMissed == Spec => []NothingUnseen
<1>1. ASSUME SigioSeen
      PROVE  G!NothingUnseen
  <2>1. SUFFICES ASSUME main \in {"listening", "forwarding"}, \A p \in G!Procs : ~ sigio[p] /\ handler[p] = G!None_,
                        NEW c \in G!Listed(G!Serving), c \in G!Listed(owner[c]), c \in unseen
                 PROVE  FALSE
    BY DEF G!NothingUnseen
  <2>2. SigioTypes /\ SigioIdle /\ SigioOwned /\ Claim(c)
    BY <1>1, <2>1 DEF SigioSeen, SigioWatched
  <2>3. "parent" \in G!Procs /\ "child" \in G!Procs /\ G!Serving \in {"parent", "child"}
    BY DEF G!Procs, G!Serving
  <2>4. \A p \in G!Procs : ~ Watches(p, c) /\ ~ sigio[p]
    <3>1. ~ (G!None_ \in {G!Accept, G!SetAio}) /\ \A k : G!None_ # <<"read", k>>
      BY DEF G!None_, G!Accept, G!SetAio
    <3>. QED
      BY <2>1, <3>1 DEF Watches
  <2>5. /\ c \in Clients /\ Has(G!Serving, c)
        /\ owner[c] \in G!Procs => Has(owner[c], c)
    BY <2>1, <2>2 DEF G!Listed, Has, SigioTypes
  <2>6. owner[c] \in {"parent", "child"}
    <3>1. owner[c] \in G!Procs \union {None}
      BY <2>2, <2>5 DEF SigioTypes
    <3>2. owner[c] # None
      <4>1. handler[G!Serving] # G!SetAio
        BY <2>1, <2>3, SigioPlacesKnown
      <4>. QED
        BY <2>2, <2>3, <2>5, <4>1 DEF SigioOwned
    <3>. QED
      BY <3>1, <3>2 DEF G!Procs
  <2>7. CASE owner[c] = "child"
    BY <2>2, <2>3, <2>4, <2>5, <2>7 DEF Claim
  <2>8. CASE owner[c] = "parent"
    <3>1. main = "forwarding" /\ ~ Has("child", c)
      BY <2>2, <2>3, <2>4, <2>5, <2>8 DEF Claim
    <3>2. G!Features[program].forks
      BY <2>2, <3>1 DEF SigioIdle
    <3>. QED
      BY <2>5, <3>1, <3>2 DEF G!Serving
  <2>. QED
    BY <2>6, <2>7, <2>8
<1>2. (Runs(G!Programs) => SigioSeen) => NothingUnseen
  BY <1>1 DEF NothingUnseen
<1>. QED
  BY <1>2, SigioSeenAlways, PTL
=============================================================================
