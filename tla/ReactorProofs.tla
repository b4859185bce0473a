---------------------------- MODULE ReactorProofs ----------------------------
(***************************************************************************)
(* Proofs about epoll_reactor.c, for any number of clients and nodes and   *)
(* any length of a batch: no event of a batch is stale, and the bytes of a *)
(* client come back once and in order. Its lemmas about bytes, about       *)
(* registrations and about reports serve the other servers as well.        *)
(***************************************************************************)
EXTENDS ServersProofs

-----------------------------------------------------------------------------
(* What a read takes and what it leaves.                                   *)
LEMMA UptoRest ==
  ASSUME NEW T, NEW s \in Seq(T), NEW n \in Nat
  PROVE  /\ Upto(n, s) \in Seq(T) /\ SubSeq(s, n + 1, Len(s)) \in Seq(T)
         /\ Upto(n, s) \o SubSeq(s, n + 1, Len(s)) = s
         /\ n # 0 /\ s # <<>> => Upto(n, s) # <<>>
<1>1. PICK k : k = Min({n, Len(s)})
  OBVIOUS
<1>2. PICK l \in Nat : l = Len(s)
  OBVIOUS
<1>3. k \in {n, l} /\ k =< n /\ k =< l
  BY <1>1, <1>2, MinIsLeast, Zenon
<1>4. k \in Nat /\ (n < l => k = n) /\ (n >= l => k = l)
  BY <1>2, <1>3
<1>5. PICK u : u = SubSeq(s, 1, k)
  BY Zenon
<1>6. u \in Seq(T) /\ Len(u) = k /\ \A i \in 1 .. k : u[i] = s[i]
  BY <1>2, <1>3, <1>4, <1>5
<1>7. PICK r : r = SubSeq(s, n + 1, l)
  BY Zenon
<1>8. r \in Seq(T) /\ Len(r) = l - k /\ \A i \in 1 .. l - k : r[i] = s[k + i]
  <2>1. CASE n < l
    BY <1>2, <1>4, <1>7, <2>1
  <2>2. CASE n >= l
    BY <1>2, <1>4, <1>7, <2>2, SubSeqEmpty
  <2>. QED
    BY <1>2, <2>1, <2>2
<1>9. u \o r = s
  <2>1. u \o r \in Seq(T) /\ Len(u \o r) = l
    BY <1>2, <1>4, <1>6, <1>8
  <2>2. ASSUME NEW i \in 1 .. l
        PROVE  (u \o r)[i] = s[i]
    <3>1. CASE i =< k
      BY <1>4, <1>6, <1>8, <3>1
    <3>2. CASE ~ (i =< k)
      <4>1. i - k \in 1 .. l - k
        BY <1>2, <1>4, <3>2
      <4>2. (u \o r)[i] = r[i - k]
        BY <1>2, <1>4, <1>6, <1>8, <3>2
      <4>. QED
        BY <1>4, <1>8, <4>1, <4>2
    <3>. QED
      BY <3>1, <3>2, Zenon
  <2>3. PICK w : w = u \o r
    BY Zenon
  <2>4. w \in Seq(T) /\ Len(w) = l /\ \A i \in 1 .. l : w[i] = s[i]
    BY <2>1, <2>2, <2>3, Zenon
  <2>5. w = s
    BY <1>2, <2>4, SeqEqual
  <2>. QED
    BY <2>3, <2>5
<1>10. n # 0 /\ s # <<>> => u # <<>>
  <2>1. s # <<>> => l # 0
    BY <1>2, EmptySeq
  <2>2. u = <<>> => k = 0
    BY <1>6, EmptySeq
  <2>. QED
    BY <1>3, <2>1, <2>2
<1>. QED
  BY <1>1, <1>2, <1>5, <1>6, <1>7, <1>8, <1>9, <1>10, Zenon DEF Upto

(* A server that reads and echoes or prints in one step.                   *)
LEMMA EchoesTyped ==
  ASSUME conn \in [Clients -> Connection(Clients \X Nat)], NEW c \in Clients, NEW n \in Nat,
         Echoes(c, n)
  PROVE  \E r \in Connection(Clients \X Nat) :
           /\ conn' = [conn EXCEPT ![c] = r]
           /\ r.stage = conn[c].stage /\ r.sent = conn[c].sent
           /\ r.fin = conn[c].fin /\ r.reset = conn[c].reset
           /\ r.echoed = conn[c].echoed \o Upto(n, conn[c].unread)
           /\ r.unread = SubSeq(conn[c].unread, n + 1, Len(conn[c].unread))
<1>1. PICK u, e : /\ u = SubSeq(conn[c].unread, n + 1, Len(conn[c].unread))
                  /\ e = conn[c].echoed \o Upto(n, conn[c].unread)
  BY Zenon
<1>2. conn[c] \in Connection(Clients \X Nat)
  OBVIOUS
<1>3. conn[c].unread \in Seq(Clients \X Nat) /\ conn[c].echoed \in Seq(Clients \X Nat)
  BY <1>2 DEF Connection
<1>4. Upto(n, conn[c].unread) \in Seq(Clients \X Nat) /\ u \in Seq(Clients \X Nat)
  BY <1>1, <1>3, UptoRest
<1>5. e \in Seq(Clients \X Nat)
  BY <1>1, <1>3, <1>4
<1>6. PICK r1 : r1 = [conn[c] EXCEPT !.echoed = e]
  BY Zenon
<1>7. PICK r : r = [r1 EXCEPT !.unread = u]
  BY Zenon
<1>8. r1 \in Connection(Clients \X Nat) /\ r1.echoed = e
      /\ r1.stage = conn[c].stage /\ r1.sent = conn[c].sent
      /\ r1.fin = conn[c].fin /\ r1.reset = conn[c].reset
  BY <1>2, <1>5, <1>6, Zenon DEF Connection
<1>9. r \in Connection(Clients \X Nat) /\ r.echoed = e /\ r.unread = u
      /\ r.stage = conn[c].stage /\ r.sent = conn[c].sent
      /\ r.fin = conn[c].fin /\ r.reset = conn[c].reset
  BY <1>4, <1>7, <1>8, Zenon DEF Connection
<1>10. conn' = [conn EXCEPT ![c] = r]
  <2>1. conn' = [conn EXCEPT ![c].echoed = @ \o Upto(n, conn[c].unread),
                             ![c].unread = SubSeq(@, n + 1, Len(@))]
    BY DEF Echoes
  <2>2. PICK g1 : g1 = [conn EXCEPT ![c] = r1]
    BY Zenon
  <2>3. g1 = [conn EXCEPT ![c].echoed = @ \o Upto(n, conn[c].unread)]
    BY <1>1, <1>6, <2>2
  <2>4. g1[c] = r1 /\ r1.unread = conn[c].unread
    BY <1>2, <1>6, <2>2 DEF Connection
  <2>5. conn' = [g1 EXCEPT ![c].unread = SubSeq(@, n + 1, Len(@))]
    BY <2>1, <2>3, Zenon
  <2>6. conn' = [g1 EXCEPT ![c] = r]
    BY <1>1, <1>7, <2>4, <2>5, Zenon
  <2>. QED
    BY <2>2, <2>6, Zenon
<1>. QED
  BY <1>1, <1>9, <1>10, Zenon

(* What arrives leaves readable what was.                                  *)
LEMMA StaysReadable ==
  ASSUME conn \in [Clients -> Connection(Clients \X Nat)], NEW c \in Clients,
         Connects(c) \/ Arrives(c)
  PROVE  \A d \in Clients : Readable(d) => Readable(d)'
<1>1. conn[c] \in Connection(Clients \X Nat)
  OBVIOUS
<1>2. CASE Connects(c)
  BY <1>1, <1>2 DEF Connects, Readable, Connection
<1>3. CASE Sends(c)
  <2>1. PICK b : b = <<c, conn[c].sent + 1>>
    BY Zenon
  <2>2. conn' = [conn EXCEPT ![c].sent = @ + 1, ![c].unread = Append(@, b)]
    BY <1>3, <2>1 DEF Sends
  <2>3. conn[c].unread \in Seq(Clients \X Nat) /\ b \in Clients \X Nat
    BY <1>1, <2>1 DEF Connection
  <2>4. Append(conn[c].unread, b) # <<>>
    <3>1. PICK s \in Seq(Clients \X Nat) : s = conn[c].unread
      BY <2>3
    <3>2. Len(Append(s, b)) = Len(s) + 1 /\ Len(s) \in Nat
      BY <2>3, <3>1
    <3>3. Append(s, b) # <<>>
      BY <3>2, EmptySeq
    <3>. QED
      BY <3>1, <3>3
  <2>5. conn'[c].unread = Append(conn[c].unread, b) /\ \A d \in Clients : d # c => conn'[d] = conn[d]
    BY <1>1, <2>2 DEF Connection
  <2>. QED
    BY <2>4, <2>5 DEF Readable
<1>4. CASE ShutsDown(c)
  BY <1>1, <1>4 DEF ShutsDown, Readable, Connection
<1>5. CASE Resets(c)
  BY <1>1, <1>5 DEF Resets, Readable, Connection
<1>. QED
  BY <1>2, <1>3, <1>4, <1>5 DEF Arrives

(* A connection of which something was read, or to which something was     *)
(* written.                                                                *)
LEMMA TakenTyped ==
  ASSUME conn \in [Clients -> Connection(Clients \X Nat)], NEW c \in Clients,
         NEW u \in Seq(Clients \X Nat), conn' = [conn EXCEPT ![c].unread = u]
  PROVE  \E r \in Connection(Clients \X Nat) :
           /\ conn' = [conn EXCEPT ![c] = r]
           /\ r.unread = u /\ r.echoed = conn[c].echoed /\ r.stage = conn[c].stage
           /\ r.sent = conn[c].sent /\ r.fin = conn[c].fin /\ r.reset = conn[c].reset
<1>1. conn[c] \in Connection(Clients \X Nat)
  OBVIOUS
<1>2. PICK r : r = [conn[c] EXCEPT !.unread = u]
  OBVIOUS
<1>3. /\ r \in Connection(Clients \X Nat)
      /\ r.unread = u /\ r.echoed = conn[c].echoed /\ r.stage = conn[c].stage
      /\ r.sent = conn[c].sent /\ r.fin = conn[c].fin /\ r.reset = conn[c].reset
  BY <1>1, <1>2, Zenon DEF Connection
<1>. QED
  BY <1>2, <1>3, Zenon

(* A change of what a client got back is a change of its connection alone. *)
LEMMA GivenTyped ==
  ASSUME conn \in [Clients -> Connection(Clients \X Nat)], NEW c \in Clients, NEW e \in Seq(Clients \X Nat),
         conn' = [conn EXCEPT ![c].echoed = e]
  PROVE  \E r \in Connection(Clients \X Nat) :
           /\ conn' = [conn EXCEPT ![c] = r]
           /\ r.unread = conn[c].unread /\ r.echoed = e /\ r.stage = conn[c].stage
           /\ r.sent = conn[c].sent /\ r.fin = conn[c].fin /\ r.reset = conn[c].reset
<1>1. conn[c] \in Connection(Clients \X Nat)
  OBVIOUS
<1>2. PICK r : r = [conn[c] EXCEPT !.echoed = e]
  OBVIOUS
<1>3. /\ r \in Connection(Clients \X Nat)
      /\ r.unread = conn[c].unread /\ r.echoed = e /\ r.stage = conn[c].stage
      /\ r.sent = conn[c].sent /\ r.fin = conn[c].fin /\ r.reset = conn[c].reset
  BY <1>1, <1>2, Zenon DEF Connection
<1>. QED
  BY <1>2, <1>3, Zenon

-----------------------------------------------------------------------------
(* Epoll.                                                                  *)
Registration == [ptr : Nat, events : {"IN", "IN|ET", "OUT"}, edge : BOOLEAN]
Reported == [ptr : Nat, of : Clients \union {None}]

(* A report of epoll is one of the listener, or of a ready registration.   *)
LEMMA ReportsKnown ==
  ASSUME fds \in [Fds -> Clients \union {None}], interest \in [Fds -> Registration \union {None}],
         NEW l \in Nat
  PROVE  /\ IsFiniteSet(Reports(l))
         /\ Reports(l) \in SUBSET Reported
         /\ \A e \in Reports(l) :
              \/ e.ptr = l /\ e.of = None
              \/ \E f \in ReadyFds : e.ptr = interest[f].ptr /\ e.of = fds[f]
<1>1. PICK g : g = [f \in ReadyFds |-> [ptr |-> interest[f].ptr, of |-> fds[f]]]
  BY Zenon
<1>2. PICK T : T = {[ptr |-> interest[f].ptr, of |-> fds[f]] : f \in ReadyFds}
  BY Zenon
<1>3. IsFiniteSet(ReadyFds)
  <2>1. ReadyFds \in SUBSET Fds
    BY DEF ReadyFds
  <2>. QED
    BY <2>1, FdsFinite, FS_Subset
<1>4. g \in Surjection(ReadyFds, T)
  BY <1>1, <1>2 DEF Surjection
<1>5. IsFiniteSet(T)
  BY <1>3, <1>4, FS_Surjection
<1>6. PICK listener : listener = [ptr |-> l, of |-> None]
  BY Zenon
<1>7. Reports(l) = T \union (IF Pending = {} THEN {} ELSE {listener})
  BY <1>2, <1>6 DEF Reports
<1>8. IsFiniteSet(Reports(l))
  <2>1. IsFiniteSet({}) /\ IsFiniteSet({listener})
    BY FS_EmptySet, FS_Singleton, Zenon
  <2>. QED
    BY <1>5, <1>7, <2>1, FS_Union
<1>9. ASSUME NEW e \in Reports(l)
      PROVE  /\ e \in Reported
             /\ \/ e.ptr = l /\ e.of = None
                \/ \E f \in ReadyFds : e.ptr = interest[f].ptr /\ e.of = fds[f]
  <2>1. CASE e = listener
    BY <1>6, <2>1 DEF Reported
  <2>2. CASE e \in T
    <3>1. PICK f \in ReadyFds : e = [ptr |-> interest[f].ptr, of |-> fds[f]]
      BY <1>2, <2>2
    <3>2. f \in Fds /\ interest[f] # None
      BY DEF ReadyFds
    <3>3. interest[f] \in Registration
      BY <3>2
    <3>4. interest[f].ptr \in Nat
      BY <3>3 DEF Registration
    <3>. QED
      BY <3>1, <3>2, <3>4 DEF Reported
  <2>. QED
    BY <1>7, <2>1, <2>2
<1>. QED
  BY <1>8, <1>9

(* epoll_wait returns distinct reports, and takes off no registration more *)
(* than its edge.                                                          *)
LEMMA EpollWaits ==
  ASSUME fds \in [Fds -> Clients \union {None}], interest \in [Fds -> Registration \union {None}],
         NEW l \in Nat, epoll_wait(l)
  PROVE  /\ events' \in Seq(Reported)
         /\ \A i \in 1 .. Len(events') : events'[i] \in Reports(l)
         /\ \A i, j \in 1 .. Len(events') : i # j => events'[i] # events'[j]
         /\ interest' \in [Fds -> Registration \union {None}]
         /\ \A f \in Fds : /\ interest'[f] = None <=> interest[f] = None
                           /\ interest[f] # None => /\ interest'[f].ptr = interest[f].ptr
                                                    /\ interest'[f].events = interest[f].events
<1>1. PICK batch \in SUBSET Reports(l) :
        /\ events' \in SetToSeqs(batch)
        /\ interest' = [f \in Fds |->
             IF f \in ReadyFds /\ \E e \in batch : e.of = fds[f]
             THEN [interest[f] EXCEPT !.edge = FALSE] ELSE interest[f]]
  BY DEF epoll_wait, kSubset
<1>2. PICK n \in Nat : n = Cardinality(batch)
  BY ReportsKnown, FS_Subset, FS_CardinalityType
<1>3. events' \in [1 .. n -> batch] /\ \A i, j \in 1 .. n : i # j => events'[i] # events'[j]
  BY <1>1, <1>2 DEF SetToSeqs
<1>4. batch \in SUBSET Reported
  BY ReportsKnown
<1>5. events' \in Seq(Reported) /\ Len(events') = n
  BY <1>3, <1>4
<1>6. ASSUME NEW f \in Fds
      PROVE  /\ interest'[f] \in Registration \union {None}
             /\ interest'[f] = None <=> interest[f] = None
             /\ interest[f] # None => /\ interest'[f].ptr = interest[f].ptr
                                      /\ interest'[f].events = interest[f].events
  <2>1. CASE interest[f] = None
    BY <1>1, <2>1 DEF ReadyFds
  <2>2. CASE interest[f] # None
    <3>1. interest[f] \in Registration
      BY <2>2
    <3>2. PICK r : r = [interest[f] EXCEPT !.edge = FALSE]
      BY Zenon
    <3>3. r \in Registration /\ r.ptr = interest[f].ptr /\ r.events = interest[f].events
      BY <3>1, <3>2, Zenon DEF Registration
    <3>4. interest'[f] = r \/ interest'[f] = interest[f]
      BY <1>1, <3>2
    <3>5. r # None
      BY <3>3, EpollAssumption DEF Registration
    <3>. QED
      BY <2>2, <3>3, <3>4, <3>5
  <2>. QED
    BY <2>1, <2>2
<1>7. interest' \in [Fds -> Registration \union {None}]
  <2>1. PICK g : g = [f \in Fds |-> interest'[f]]
    BY Zenon
  <2>2. interest' = g
    BY <1>1, <2>1
  <2>. QED
    BY <1>6, <2>1, <2>2
<1>. QED
  BY <1>3, <1>5, <1>6, <1>7

(* An edge on what is registered.                                          *)
LEMMA SignalsTyped ==
  ASSUME interest \in [Fds -> Registration \union {None}], NEW c \in Clients, Signals(c)
  PROVE  /\ interest' \in [Fds -> Registration \union {None}]
         /\ \A f \in Fds : /\ interest'[f] = None <=> interest[f] = None
                           /\ interest[f] # None => /\ interest'[f].ptr = interest[f].ptr
                                                    /\ interest'[f].events = interest[f].events
<1>1. PICK mine : mine = {f \in Fds : fds[f] = c /\ interest[f] # None}
  BY Zenon
<1>2. PICK g : g = [f \in Fds |-> IF f \in mine THEN [interest[f] EXCEPT !.edge = TRUE]
                                                ELSE interest[f]]
  BY Zenon
<1>3. interest' = g
  BY <1>1, <1>2 DEF Signals
<1>4. ASSUME NEW f \in Fds
      PROVE  /\ g[f] \in Registration \union {None}
             /\ g[f] = None <=> interest[f] = None
             /\ interest[f] # None => g[f].ptr = interest[f].ptr /\ g[f].events = interest[f].events
  <2>1. CASE f \in mine
    <3>1. interest[f] \in Registration
      BY <1>1, <2>1
    <3>2. PICK k : k = [interest[f] EXCEPT !.edge = TRUE]
      BY Zenon
    <3>3. k \in Registration /\ k.ptr = interest[f].ptr /\ k.events = interest[f].events
      BY <3>1, <3>2, Zenon DEF Registration
    <3>4. k # None /\ g[f] = k /\ interest[f] # None
      BY <1>1, <1>2, <2>1, <3>2, <3>3, EpollAssumption, Zenon DEF Registration
    <3>. QED
      BY <3>3, <3>4
  <2>2. CASE f \notin mine
    BY <1>2, <2>2
  <2>. QED
    BY <2>1, <2>2
<1>5. g \in [Fds -> Registration \union {None}]
  BY <1>2, <1>4
<1>. QED
  BY <1>3, <1>4, <1>5

-----------------------------------------------------------------------------
(* Reactor.                                                                *)
ReactNode ==
  [fd : Fds \union {None}, buf : Seq(Clients \X Nat), pfunc : {None, "DoReadLoop", "DoWrite"},
   regArgs : BOOLEAN, status : BOOLEAN, age : 0 .. 2]

ReactTypes ==
  /\ conn \in [Clients -> Connection(Clients \X Nat)]
  /\ FdTable
  /\ NodeList \in [R!Nodes -> ReactNode]
  /\ interest \in [Fds -> Registration \union {None}]
  /\ events \in Seq(Reported)
  /\ pc \in {"sweep", "wait", "handle", "exited"}

(* What a node in use has, and what epoll has of an open descriptor.       *)
UsedOk(n) ==
  /\ NodeList[n].regArgs = NodeList[n].status
  /\ NodeList[n].status =>
       /\ NodeList[n].fd \in Fds
       /\ fds[NodeList[n].fd] # None
       /\ interest[NodeList[n].fd].ptr = n
       /\ interest[NodeList[n].fd].events = "OUT" <=> NodeList[n].pfunc = "DoWrite"

RegisteredOk(f) ==
  /\ interest[f] = None <=> fds[f] = None
  /\ fds[f] # None => /\ interest[f].ptr \in R!Nodes
                      /\ NodeList[interest[f].ptr].status
                      /\ NodeList[interest[f].ptr].fd = f

ReactTables ==
  /\ \A n \in R!Nodes : UsedOk(n)
  /\ \A f \in Fds : RegisteredOk(f)

(* An event is for a node in use, and no other event is.                   *)
EventOk(e) ==
  IF e.of = None THEN e.ptr = R!Listener
  ELSE /\ e.ptr \in R!Nodes
       /\ NodeList[e.ptr].status
       /\ fds[NodeList[e.ptr].fd] = e.of

ReactEvents ==
  /\ \A i \in 1 .. Len(events) : EventOk(events[i])
  /\ \A i, j \in 1 .. Len(events) : i # j => events[i].ptr # events[j].ptr
  /\ pc \in {"sweep", "wait"} => events = <<>>

ReactInv == ReactTypes /\ ReactTables /\ ReactEvents

(* Both sides count the clients in the same way.                           *)
LEMMA ReactFds == R!Fds = Fds
BY DEF R!Fds, Fds, R!Cardinality, Cardinality

(* What the names of Peers and Epoll mean in the reactor.                  *)
LEMMA ReactPeers ==
  /\ R!FreeFd = FreeFd
  /\ \A T : R!Min(T) = Min(T)
  /\ \A l : R!Reports(l) = Reports(l)
  /\ \A l : R!epoll_wait(l) => epoll_wait(l)
  /\ \A T : R!CloseFds(T) => CloseFds(T)
  /\ \A c \in Clients : /\ R!Accepts(c) => Accepts(c)
                        /\ R!Connects(c) => Connects(c)
                        /\ R!Arrives(c) => Arrives(c)
<1>1. \A T : R!Min(T) = Min(T)
  BY DEF R!Min, Min
<1>2. R!FreeFd = FreeFd
  BY <1>1, ReactFds DEF R!FreeFd, FreeFd
<1>3. R!Pending = Pending
  BY DEF R!Pending, Pending
<1>4. R!ReadyFds = ReadyFds
  BY ReactFds DEF R!ReadyFds, ReadyFds, R!Readable, Readable
<1>5. \A l : R!Reports(l) = Reports(l)
  BY <1>3, <1>4 DEF R!Reports, Reports
<1>6. \A T : R!Cardinality(T) = Cardinality(T)
  BY DEF R!Cardinality, Cardinality
<1>7. \A k, T : R!kSubset(k, T) = kSubset(k, T)
  BY <1>6 DEF R!kSubset, kSubset
<1>8. \A T : R!SetToSeqs(T) = SetToSeqs(T)
  BY <1>6 DEF R!SetToSeqs, SetToSeqs
<1>9. ASSUME NEW l, R!epoll_wait(l)
      PROVE  epoll_wait(l)
  <2>1. PICK most : most = Min({Cardinality(Reports(l)), EVENTS_MAX})
    OBVIOUS
  <2>2. most = R!Min({R!Cardinality(R!Reports(l)), EVENTS_MAX})
    BY <1>1, <1>5, <1>6, <2>1
  <2>3. \E batch \in kSubset(most, Reports(l)) :
          /\ batch # {}
          /\ events' \in SetToSeqs(batch)
          /\ interest' = [f \in Fds |->
               IF f \in ReadyFds /\ \E e \in batch : e.of = fds[f]
               THEN [interest[f] EXCEPT !.edge = FALSE] ELSE interest[f]]
    BY <1>4, <1>5, <1>7, <1>8, <1>9, <2>2, ReactFds DEF R!epoll_wait
  <2>. QED
    BY <2>1, <2>3 DEF epoll_wait
<1>10. ASSUME NEW T
       PROVE  R!CloseFds(T) => CloseFds(T)
  BY ReactFds DEF R!CloseFds, CloseFds
<1>11. ASSUME NEW c \in Clients
       PROVE  R!Accepts(c) => Accepts(c)
  BY <1>2, <1>3 DEF R!Accepts, Accepts
<1>12. ASSUME NEW c \in Clients
       PROVE  /\ R!Connects(c) => Connects(c)
              /\ R!Arrives(c) => Arrives(c)
  BY DEF R!Connects, R!Arrives, R!Sends, R!ShutsDown, R!Resets, R!Alive, R!Open,
         Connects, Arrives, Sends, ShutsDown, Resets, Alive, Open
<1>. QED
  BY <1>1, <1>2, <1>5, <1>9, <1>10, <1>11, <1>12

(* The types after a step, from those of the variables it changed.         *)
LEMMA ReactTypesNext ==
  ASSUME conn' \in [Clients -> Connection(Clients \X Nat)], FdTable',
         NodeList' \in [R!Nodes -> ReactNode], interest' \in [Fds -> Registration \union {None}],
         events' \in Seq(Reported), pc' \in {"sweep", "wait", "handle", "exited"}
  PROVE  ReactTypes'
<1>1. R!Nodes' = R!Nodes /\ ReactNode' = ReactNode /\ Fds' = Fds
  BY DEF R!Nodes, ReactNode, Fds
<1>2. Connection(Clients \X Nat)' = Connection(Clients \X Nat)
  BY DEF Connection
<1>3. Registration' = Registration /\ Reported' = Reported
  BY DEF Registration, Reported
<1>. QED
  BY <1>1, <1>2, <1>3, Zenon DEF ReactTypes

(* The tables of the reactor agree before its first event.                 *)
LEMMA ReactInit ==
  ASSUME R!Init
  PROVE  ReactInv
<1>1. /\ conn = [c \in Clients |-> NoConn] /\ fds = [f \in Fds |-> None]
      /\ interest = [f \in Fds |-> None] /\ events = <<>> /\ pc = "sweep"
  BY ReactFds DEF R!Init, R!InitPeers, R!InitEpoll, R!NoConn, NoConn
<1>2. NodeList = [n \in R!Nodes |-> R!FreeNode]
  BY DEF R!Init
<1>3. R!FreeNode \in ReactNode /\ ~ R!FreeNode.status /\ ~ R!FreeNode.regArgs
  <2>1. <<>> \in Seq(Clients \X Nat)
    OBVIOUS
  <2>. QED
    BY <2>1 DEF R!FreeNode, ReactNode
<1>4. conn \in [Clients -> Connection(Clients \X Nat)]
  BY <1>1, NoConnTyped
<1>5. FdTable
  BY <1>1, PeersAssumption DEF FdTable, NoConn
<1>6. NodeList \in [R!Nodes -> ReactNode]
  BY <1>2, <1>3
<1>7. events \in Seq(Reported) /\ Len(events) = 0
  BY <1>1, EmptySeq
<1>8. ReactTypes
  <2>1. interest \in [Fds -> Registration \union {None}]
    BY <1>1
  <2>. QED
    BY <1>1, <1>4, <1>5, <1>6, <1>7, <2>1, Zenon DEF ReactTypes
<1>9. ReactTables
  <2>1. \A n \in R!Nodes : NodeList[n].status = FALSE /\ NodeList[n].regArgs = FALSE
    BY <1>2 DEF R!FreeNode
  <2>2. \A n \in R!Nodes : UsedOk(n)
    BY <2>1, Zenon DEF UsedOk
  <2>3. \A f \in Fds : RegisteredOk(f)
    BY <1>1 DEF RegisteredOk
  <2>. QED
    BY <2>2, <2>3 DEF ReactTables
<1>10. ReactEvents
  BY <1>1, <1>7 DEF ReactEvents
<1>. QED
  BY <1>8, <1>9, <1>10 DEF ReactInv

(* The event a callback is called for, and the rest of the batch.          *)
LEMMA ReactHandles ==
  ASSUME ReactInv, NEW p, R!Handles(p)
  PROVE  /\ pc = "handle" /\ events' \in Seq(Reported)
         /\ \A i \in 1 .. Len(events') : EventOk(events'[i]) /\ events'[i].ptr # p
         /\ \A i, j \in 1 .. Len(events') : i # j => events'[i].ptr # events'[j].ptr
         /\ p \in R!Nodes => NodeList[p].status
<1>1. pc = "handle" /\ events # <<>> /\ Head(events).ptr = p /\ events' = Tail(events)
  BY DEF R!Handles
<1>2. events \in Seq(Reported)
  BY DEF ReactInv, ReactTypes
<1>3. PICK n \in Nat : n = Len(events')
  BY <1>1, <1>2, HeadTailProperties, LenProperties
<1>4. events' \in Seq(Reported) /\ Len(events) = n + 1 /\ Head(events) = events[1]
      /\ \A i \in 1 .. n : events'[i] = events[i + 1]
  BY <1>1, <1>2, <1>3
<1>5. ASSUME NEW i \in 1 .. n
      PROVE  EventOk(events'[i]) /\ events'[i].ptr # p
  <2>1. 1 \in 1 .. Len(events) /\ i + 1 \in 1 .. Len(events) /\ i + 1 # 1
    BY <1>4
  <2>. QED
    BY <1>1, <1>4, <2>1 DEF ReactInv, ReactEvents
<1>6. ASSUME NEW i \in 1 .. n, NEW j \in 1 .. n, i # j
      PROVE  events'[i].ptr # events'[j].ptr
  <2>1. i + 1 \in 1 .. Len(events) /\ j + 1 \in 1 .. Len(events) /\ i + 1 # j + 1
    BY <1>4, <1>6
  <2>. QED
    BY <1>4, <2>1 DEF ReactInv, ReactEvents
<1>7. ASSUME p \in R!Nodes
      PROVE  NodeList[p].status
  <2>1. EventOk(events[1]) /\ events[1].ptr = p
    BY <1>1, <1>4 DEF ReactInv, ReactEvents
  <2>2. R!Listener \notin R!Nodes
    BY ServersAssumption DEF R!Listener, R!Nodes
  <2>. QED
    BY <1>7, <2>1, <2>2 DEF EventOk
<1>. QED
  BY <1>1, <1>3, <1>4, <1>5, <1>6, <1>7, Zenon

(* A callback keeps the other nodes, and what is left of the batch.        *)
LEMMA ReactRest ==
  ASSUME ReactInv, NEW p, R!Handles(p), pc' \in {"handle", "exited"},
         \A m \in R!Nodes : m # p /\ NodeList[m].status =>
           NodeList'[m].status /\ fds'[NodeList'[m].fd] = fds[NodeList[m].fd]
  PROVE  ReactEvents'
<1>1. ASSUME NEW i \in 1 .. Len(events')
      PROVE  EventOk(events[i])'
  <2>1. EventOk(events'[i]) /\ events'[i].ptr # p
    BY ReactHandles
  <2>2. PICK e : e = events'[i]
    OBVIOUS
  <2>3. IF e.of = None THEN e.ptr = R!Listener
        ELSE e.ptr \in R!Nodes /\ NodeList[e.ptr].status /\ fds[NodeList[e.ptr].fd] = e.of
    BY <2>1, <2>2 DEF EventOk
  <2>4. IF e.of = None THEN e.ptr = R!Listener
        ELSE e.ptr \in R!Nodes /\ NodeList'[e.ptr].status /\ fds'[NodeList'[e.ptr].fd] = e.of
    BY <2>1, <2>2, <2>3
  <2>. QED
    BY <2>2, <2>4 DEF EventOk, R!Listener, R!Nodes
<1>. QED
  BY <1>1, ReactHandles DEF ReactEvents

(* Closing the nodes of a set, by the sweep or at an end of file, empties  *)
(* these nodes and leaves the tables in order.                             *)
LEMMA ReactCloses ==
  ASSUME ReactTypes, ReactTables, NEW T \in SUBSET {n \in R!Nodes : NodeList[n].status},
         R!EventDel(T), R!Close(T)
  PROVE  /\ conn' \in [Clients -> Connection(Clients \X Nat)] /\ FdTable'
         /\ NodeList' \in [R!Nodes -> ReactNode]
         /\ interest' \in [Fds -> Registration \union {None}]
         /\ ReactTables'
         /\ \A m \in R!Nodes \ T : NodeList'[m] = NodeList[m]
         /\ \A m \in R!Nodes \ T : NodeList[m].status => fds'[NodeList[m].fd] = fds[NodeList[m].fd]
         /\ \A m \in T : ~ NodeList'[m].status
<1>1. PICK C : C = {NodeList[n].fd : n \in T}
  BY Zenon
<1>2. C \in SUBSET Fds
  BY <1>1 DEF ReactTables, UsedOk
<1>3. CloseFds(C) /\ interest' = [f \in Fds |-> IF f \in C THEN None ELSE interest[f]]
  BY <1>1, ReactPeers, ReactFds DEF R!Close, R!Unregister
<1>4. /\ conn' \in [Clients -> Connection(Clients \X Nat)] /\ FdTable'
      /\ \A f \in Fds : fds'[f] = IF f \in C THEN None ELSE fds[f]
  BY <1>2, <1>3, ClosesTyped, Zenon DEF ReactTypes
<1>5. interest \in [Fds -> Registration \union {None}] /\ NodeList \in [R!Nodes -> ReactNode]
  BY DEF ReactTypes
<1>6. /\ interest' \in [Fds -> Registration \union {None}]
      /\ \A f \in Fds : interest'[f] = IF f \in C THEN None ELSE interest[f]
  BY <1>3, <1>5
<1>7. ASSUME NEW m \in R!Nodes
      PROVE  /\ NodeList'[m] \in ReactNode
             /\ m \notin T => NodeList'[m] = NodeList[m]
             /\ m \in T => NodeList'[m].status = FALSE /\ NodeList'[m].regArgs = FALSE
  <2>1. PICK n1 : n1 = [NodeList[m] EXCEPT !.buf = <<>>]
    BY Zenon
  <2>2. PICK n2 : n2 = [n1 EXCEPT !.regArgs = FALSE]
    BY Zenon
  <2>3. PICK n3 : n3 = [n2 EXCEPT !.status = FALSE]
    BY Zenon
  <2>4. NodeList[m] \in ReactNode /\ <<>> \in Seq(Clients \X Nat)
    BY <1>5
  <2>5. n1 \in ReactNode
    BY <2>1, <2>4, Zenon DEF ReactNode
  <2>6. n2 \in ReactNode /\ n2.regArgs = FALSE
    BY <2>2, <2>5, Zenon DEF ReactNode
  <2>7. n3 \in ReactNode /\ n3.regArgs = FALSE /\ n3.status = FALSE
    BY <2>3, <2>6, Zenon DEF ReactNode
  <2>8. NodeList'[m] = IF m \in T THEN n3 ELSE NodeList[m]
    <3>1. n3 = [NodeList[m] EXCEPT !.buf = <<>>, !.regArgs = FALSE, !.status = FALSE]
      BY <2>1, <2>2, <2>3, Zenon
    <3>. QED
      BY <3>1 DEF R!EventDel
  <2>. QED
    BY <2>4, <2>7, <2>8
<1>8. NodeList' \in [R!Nodes -> ReactNode]
  <2>1. PICK g : g = [m \in R!Nodes |-> NodeList'[m]]
    BY Zenon
  <2>2. NodeList' = g
    BY <2>1 DEF R!EventDel
  <2>. QED
    BY <1>7, <2>1, <2>2, Zenon
<1>9. ASSUME NEW m \in R!Nodes \ T, NodeList[m].status
      PROVE  NodeList[m].fd \in Fds \ C
  <2>1. NodeList[m].fd \in Fds /\ interest[NodeList[m].fd].ptr = m
    BY <1>9 DEF ReactTables, UsedOk
  <2>2. \A n \in T : interest[NodeList[n].fd].ptr = n
    BY DEF ReactTables, UsedOk
  <2>. QED
    BY <1>1, <2>1, <2>2
<1>10. \A n \in R!Nodes : UsedOk(n)'
  <2>1. ASSUME NEW n \in R!Nodes
        PROVE  /\ NodeList'[n].regArgs = NodeList'[n].status
               /\ NodeList'[n].status =>
                    /\ NodeList'[n].fd \in Fds
                    /\ fds'[NodeList'[n].fd] # None
                    /\ interest'[NodeList'[n].fd].ptr = n
                    /\ interest'[NodeList'[n].fd].events = "OUT" <=> NodeList'[n].pfunc = "DoWrite"
    <3>1. CASE n \in T
      BY <1>7, <3>1, Zenon
    <3>2. CASE n \notin T
      <4>1. NodeList'[n] = NodeList[n] /\ UsedOk(n)
        BY <1>7, <3>2, Zenon DEF ReactTables
      <4>2. NodeList[n].status => NodeList[n].fd \in Fds \ C
        BY <1>9, <3>2
      <4>. QED
        BY <1>4, <1>6, <4>1, <4>2 DEF UsedOk
    <3>. QED
      BY <3>1, <3>2
  <2>. QED
    BY <2>1 DEF UsedOk, Fds
<1>11. \A f \in Fds : RegisteredOk(f)'
  <2>1. ASSUME NEW f \in Fds
        PROVE  /\ interest'[f] = None <=> fds'[f] = None
               /\ fds'[f] # None => /\ interest'[f].ptr \in R!Nodes
                                    /\ NodeList'[interest'[f].ptr].status
                                    /\ NodeList'[interest'[f].ptr].fd = f
    <3>1. CASE f \in C
      BY <1>4, <1>6, <3>1
    <3>2. CASE f \notin C
      <4>1. fds'[f] = fds[f] /\ interest'[f] = interest[f] /\ RegisteredOk(f)
        BY <1>4, <1>6, <3>2 DEF ReactTables
      <4>2. fds[f] # None => interest[f].ptr \notin T
        BY <1>1, <3>2, <4>1 DEF RegisteredOk
      <4>. QED
        BY <1>7, <4>1, <4>2, Zenon DEF RegisteredOk
    <3>. QED
      BY <3>1, <3>2
  <2>. QED
    BY <2>1 DEF RegisteredOk, Fds, R!Nodes
<1>12. ReactTables'
  BY <1>10, <1>11 DEF ReactTables, Fds, R!Nodes
<1>. QED
  BY <1>4, <1>6, <1>7, <1>8, <1>9, <1>12, Zenon

(* A node goes on with another callback.                                   *)
LEMMA ReactGoesOn ==
  ASSUME ReactTypes, ReactTables, NEW n \in R!Nodes, NodeList[n].status, NEW r \in ReactNode,
         r.status = TRUE, r.regArgs = TRUE, r.fd = NodeList[n].fd, NodeList' = [NodeList EXCEPT ![n] = r],
         fds' = fds, interest' \in [Fds -> Registration \union {None}],
         \A f \in Fds : f # r.fd => interest'[f] = interest[f],
         interest'[r.fd] # None, interest'[r.fd].ptr = n,
         interest'[r.fd].events = "OUT" <=> r.pfunc = "DoWrite"
  PROVE  ReactTables'
<1>1. /\ NodeList \in [R!Nodes -> ReactNode] /\ r.fd \in Fds /\ fds[r.fd] # None
  BY DEF ReactTypes, ReactTables, UsedOk
<1>2. NodeList'[n] = r /\ \A m \in R!Nodes \ {n} : NodeList'[m] = NodeList[m]
  BY <1>1
<1>3. ASSUME NEW m \in R!Nodes
      PROVE  /\ NodeList'[m].regArgs = NodeList'[m].status
             /\ NodeList'[m].status =>
                  /\ NodeList'[m].fd \in Fds
                  /\ fds[NodeList'[m].fd] # None
                  /\ interest'[NodeList'[m].fd].ptr = m
                  /\ interest'[NodeList'[m].fd].events = "OUT" <=> NodeList'[m].pfunc = "DoWrite"
  <2>1. CASE m = n
    BY <1>1, <1>2, <2>1, Zenon
  <2>2. CASE m # n
    <3>1. UsedOk(m) /\ UsedOk(n) /\ NodeList'[m] = NodeList[m]
      BY <1>2, <2>2 DEF ReactTables
    <3>2. NodeList[m].status => NodeList[m].fd # r.fd
      BY <2>2, <3>1 DEF UsedOk
    <3>. QED
      BY <3>1, <3>2 DEF UsedOk
  <2>. QED
    BY <2>1, <2>2
<1>4. ASSUME NEW f \in Fds
      PROVE  /\ interest'[f] = None <=> fds[f] = None
             /\ fds[f] # None => /\ interest'[f].ptr \in R!Nodes
                                 /\ NodeList'[interest'[f].ptr].status
                                 /\ NodeList'[interest'[f].ptr].fd = f
  <2>1. CASE f = r.fd
    BY <1>1, <1>2, <2>1
  <2>2. CASE f # r.fd
    <3>1. RegisteredOk(f) /\ interest'[f] = interest[f]
      BY <2>2 DEF ReactTables
    <3>2. fds[f] # None => interest[f].ptr # n
      BY <2>2, <3>1 DEF RegisteredOk
    <3>. QED
      BY <1>2, <3>1, <3>2 DEF RegisteredOk
  <2>. QED
    BY <2>1, <2>2
<1>5. \A m \in R!Nodes : UsedOk(m)'
  BY <1>3 DEF UsedOk, Fds
<1>6. \A f \in Fds : RegisteredOk(f)'
  BY <1>4 DEF RegisteredOk, Fds, R!Nodes
<1>. QED
  BY <1>5, <1>6 DEF ReactTables, Fds, R!Nodes

(* A step that changes edges and ages at most.                             *)
LEMMA ReactKeeps ==
  ASSUME ReactTables, fds' = fds,
         \A n \in R!Nodes : /\ NodeList'[n].status = NodeList[n].status
                            /\ NodeList'[n].regArgs = NodeList[n].regArgs
                            /\ NodeList'[n].fd = NodeList[n].fd
                            /\ NodeList'[n].pfunc = NodeList[n].pfunc,
         \A f \in Fds : /\ interest'[f] = None <=> interest[f] = None
                        /\ interest[f] # None => /\ interest'[f].ptr = interest[f].ptr
                                                 /\ interest'[f].events = interest[f].events
  PROVE  ReactTables'
<1>1. ASSUME NEW n \in R!Nodes
      PROVE  UsedOk(n)'
  <2>1. UsedOk(n)
    BY DEF ReactTables
  <2>2. NodeList[n].status => NodeList[n].fd \in Fds /\ interest[NodeList[n].fd] # None
    BY <2>1 DEF ReactTables, UsedOk, RegisteredOk
  <2>3. NodeList[n].status =>
          /\ interest'[NodeList[n].fd].ptr = interest[NodeList[n].fd].ptr
          /\ interest'[NodeList[n].fd].events = interest[NodeList[n].fd].events
    BY <2>2
  <2>4. /\ NodeList'[n].status = NodeList[n].status /\ NodeList'[n].regArgs = NodeList[n].regArgs
        /\ NodeList'[n].fd = NodeList[n].fd /\ NodeList'[n].pfunc = NodeList[n].pfunc
    OBVIOUS
  <2>. QED
    BY <2>1, <2>3, <2>4 DEF UsedOk, Fds
<1>2. ASSUME NEW f \in Fds
      PROVE  RegisteredOk(f)'
  <2>1. RegisteredOk(f)
    BY DEF ReactTables
  <2>. QED
    BY <2>1 DEF RegisteredOk, R!Nodes
<1>. QED
  BY <1>1, <1>2 DEF ReactTables, Fds, R!Nodes

(* A node that falls idle disturbs nothing.                                *)
LEMMA ReactMinute ==
  ASSUME ReactInv, R!MinutePasses
  PROVE  ReactInv'
<1>1. UNCHANGED <<fds, interest, conn, pc, events>>
  BY DEF R!MinutePasses
<1>2. NodeList \in [R!Nodes -> ReactNode]
  BY DEF ReactInv, ReactTypes
<1>3. ASSUME NEW n \in R!Nodes
      PROVE  /\ NodeList'[n] \in ReactNode
             /\ NodeList'[n].status = NodeList[n].status
             /\ NodeList'[n].regArgs = NodeList[n].regArgs
             /\ NodeList'[n].fd = NodeList[n].fd
             /\ NodeList'[n].pfunc = NodeList[n].pfunc
  <2>1. PICK r : r = [NodeList[n] EXCEPT !.age = NodeList[n].age + 1]
    BY Zenon
  <2>2. NodeList'[n] = IF NodeList[n].status /\ NodeList[n].age < 2 THEN r ELSE NodeList[n]
    BY <2>1 DEF R!MinutePasses
  <2>3. NodeList[n] \in ReactNode
    BY <1>2
  <2>4. NodeList[n].age \in 0 .. 2
    BY <2>3 DEF ReactNode
  <2>5. NodeList[n].age < 2 => NodeList[n].age + 1 \in 0 .. 2
    BY <2>4
  <2>6. /\ NodeList[n].age < 2 => r \in ReactNode
        /\ r.status = NodeList[n].status /\ r.regArgs = NodeList[n].regArgs
        /\ r.fd = NodeList[n].fd /\ r.pfunc = NodeList[n].pfunc
    BY <2>1, <2>3, <2>5, Zenon DEF ReactNode
  <2>. QED
    BY <2>2, <2>3, <2>6
<1>4. NodeList' \in [R!Nodes -> ReactNode]
  <2>1. PICK g : g = [m \in R!Nodes |-> NodeList'[m]]
    BY Zenon
  <2>2. NodeList' = g
    BY <2>1 DEF R!MinutePasses
  <2>. QED
    BY <1>3, <2>1, <2>2
<1>5. FdTable'
  BY <1>1 DEF ReactInv, ReactTypes, FdTable, Fds
<1>6. ReactTypes'
  BY <1>1, <1>4, <1>5, ReactTypesNext, Zenon DEF ReactInv, ReactTypes
<1>7. ReactTables'
  BY <1>1, <1>3, ReactKeeps DEF ReactInv
<1>8. ReactEvents'
  BY <1>1, <1>3 DEF ReactInv, ReactEvents, EventOk, R!Nodes, R!Listener
<1>. QED
  BY <1>6, <1>7, <1>8 DEF ReactInv

(* The sweep closes idle nodes before any event is collected.              *)
LEMMA ReactSweep ==
  ASSUME ReactInv, R!Sweep
  PROVE  ReactInv'
<1>1. /\ pc = "sweep" /\ pc' = "wait" /\ events' = events
      /\ R!EventDel(R!Expired) /\ R!Close(R!Expired)
  BY DEF R!Sweep
<1>2. R!Expired \in SUBSET {n \in R!Nodes : NodeList[n].status}
  BY DEF R!Expired
<1>3. ReactTypes /\ ReactTables
  BY DEF ReactInv
<1>4. /\ conn' \in [Clients -> Connection(Clients \X Nat)] /\ FdTable'
      /\ NodeList' \in [R!Nodes -> ReactNode]
      /\ interest' \in [Fds -> Registration \union {None}]
      /\ ReactTables'
  BY <1>1, <1>2, <1>3, ReactCloses, Zenon
<1>5. ReactTypes'
  BY <1>1, <1>3, <1>4, ReactTypesNext, Zenon DEF ReactTypes
<1>6. events = <<>> /\ Len(events) = 0
  BY <1>1 DEF ReactInv, ReactEvents
<1>7. ReactEvents'
  BY <1>1, <1>6 DEF ReactEvents
<1>. QED
  BY <1>4, <1>5, <1>7 DEF ReactInv

(* A batch collected now is fresh: each event names the node of its own    *)
(* connection.                                                             *)
LEMMA ReactWait ==
  ASSUME ReactInv, R!EpollWait
  PROVE  ReactInv'
<1>1. /\ pc = "wait" /\ pc' = "handle" /\ epoll_wait(R!Listener)
      /\ NodeList' = NodeList /\ fds' = fds /\ conn' = conn
  BY ReactPeers DEF R!EpollWait
<1>2. /\ fds \in [Fds -> Clients \union {None}] /\ interest \in [Fds -> Registration \union {None}]
      /\ FdTable /\ R!Listener \in Nat
  BY ServersAssumption DEF ReactInv, ReactTypes, FdTable, R!Listener
<1>3. /\ events' \in Seq(Reported)
      /\ \A i \in 1 .. Len(events') : events'[i] \in Reports(R!Listener)
      /\ \A i, j \in 1 .. Len(events') : i # j => events'[i] # events'[j]
      /\ interest' \in [Fds -> Registration \union {None}]
      /\ \A f \in Fds : /\ interest'[f] = None <=> interest[f] = None
                        /\ interest[f] # None => /\ interest'[f].ptr = interest[f].ptr
                                                 /\ interest'[f].events = interest[f].events
  BY <1>1, <1>2, EpollWaits
<1>4. ReactTables'
  BY <1>1, <1>3, ReactKeeps DEF ReactInv
<1>5. FdTable'
  BY <1>1, <1>2 DEF FdTable, Fds
<1>6. ReactTypes'
  BY <1>1, <1>3, <1>5, ReactTypesNext, Zenon DEF ReactInv, ReactTypes
<1>7. ASSUME NEW e \in Reports(R!Listener)
      PROVE  \/ e.of = None /\ e.ptr = R!Listener
             \/ \E f \in Fds : /\ e.of = fds[f] /\ fds[f] # None /\ e.ptr \in R!Nodes
                               /\ NodeList[e.ptr].status /\ NodeList[e.ptr].fd = f
  <2>1. CASE e.of = None /\ e.ptr = R!Listener
    BY <2>1
  <2>2. ASSUME NEW f \in ReadyFds, e.ptr = interest[f].ptr, e.of = fds[f]
        PROVE  \E g \in Fds : /\ e.of = fds[g] /\ fds[g] # None /\ e.ptr \in R!Nodes
                              /\ NodeList[e.ptr].status /\ NodeList[e.ptr].fd = g
    <3>1. f \in Fds /\ interest[f] # None
      BY DEF ReadyFds
    <3>2. RegisteredOk(f)
      BY <3>1 DEF ReactInv, ReactTables
    <3>. QED
      BY <2>2, <3>1, <3>2 DEF RegisteredOk
  <2>. QED
    BY <1>2, <2>1, <2>2, ReportsKnown
<1>8. \A i \in 1 .. Len(events') : EventOk(events'[i])
  BY <1>3, <1>7 DEF EventOk
<1>9. ASSUME NEW i \in 1 .. Len(events'), NEW j \in 1 .. Len(events'), events'[i].ptr = events'[j].ptr
      PROVE  i = j
  <2>1. PICK d, e : d = events'[i] /\ e = events'[j]
    OBVIOUS
  <2>2. d \in Reports(R!Listener) /\ e \in Reports(R!Listener) /\ d.ptr = e.ptr
    BY <1>3, <1>9, <2>1
  <2>3. R!Listener \notin R!Nodes
    BY ServersAssumption DEF R!Listener, R!Nodes
  <2>4. d.of = e.of
    BY <1>7, <2>2, <2>3
  <2>5. d \in Reported /\ e \in Reported
    BY <1>2, <2>2, ReportsKnown
  <2>6. d = e
    BY <2>2, <2>4, <2>5 DEF Reported
  <2>. QED
    BY <1>3, <2>1, <2>6, Zenon
<1>10. ReactEvents'
  BY <1>1, <1>8, <1>9 DEF ReactEvents, EventOk, R!Nodes, R!Listener
<1>. QED
  BY <1>4, <1>6, <1>10 DEF ReactInv

(* The end of a batch, and of a wait, leaves the tables alone.             *)
LEMMA ReactTurns ==
  ASSUME ReactInv, R!WaitEnds \/ R!BatchEnds
  PROVE  ReactInv'
<1>1. /\ UNCHANGED <<NodeList, fds, interest, conn, events>>
      /\ pc' = "sweep" /\ events = <<>>
  BY DEF R!WaitEnds, R!BatchEnds, ReactInv, ReactEvents
<1>2. FdTable'
  BY <1>1 DEF ReactInv, ReactTypes, FdTable, Fds
<1>3. ReactTypes'
  BY <1>1, <1>2, ReactTypesNext, Zenon DEF ReactInv, ReactTypes
<1>4. ReactTables'
  BY <1>1, ReactKeeps DEF ReactInv
<1>5. ReactEvents'
  BY <1>1 DEF ReactInv, ReactEvents, EventOk, R!Nodes, R!Listener
<1>. QED
  BY <1>3, <1>4, <1>5 DEF ReactInv

(* The record of epoll_ctl keeps the node and the events it was given.     *)
LEMMA ReactRegistered ==
  ASSUME NEW n \in R!Nodes, NEW c \in Clients, NEW ev \in {"IN", "IN|ET", "OUT"}
  PROVE  /\ R!Registered(n, c, ev) \in Registration \ {None}
         /\ R!Registered(n, c, ev).ptr = n /\ R!Registered(n, c, ev).events = ev
<1>1. PICK b : b = R!Readable(c)
  OBVIOUS
<1>2. b \in BOOLEAN
  BY <1>1 DEF R!Readable
<1>3. R!Registered(n, c, ev) = [ptr |-> n, events |-> ev, edge |-> b]
  BY <1>1 DEF R!Registered
<1>4. n \in Nat
  BY DEF R!Nodes
<1>5. R!Registered(n, c, ev) \in Registration
  BY <1>2, <1>3, <1>4 DEF Registration
<1>. QED
  BY <1>3, <1>5, EpollAssumption DEF Registration

(* Whose node it is.                                                       *)
LEMMA ReactBehind ==
  ASSUME ReactInv, NEW n \in R!Nodes, R!Handles(n)
  PROVE  /\ NodeList[n].status /\ NodeList[n].fd \in Fds /\ fds[NodeList[n].fd] \in Clients
         /\ NodeList[n].regArgs = TRUE /\ NodeList[n].status = TRUE
<1>1. NodeList[n].status
  BY ReactHandles
<1>2. UsedOk(n)
  BY DEF ReactInv, ReactTables
<1>3. NodeList[n].fd \in Fds /\ fds[NodeList[n].fd] # None /\ NodeList[n].regArgs = NodeList[n].status
  BY <1>1, <1>2 DEF UsedOk
<1>4. NodeList[n] \in ReactNode
  BY DEF ReactInv, ReactTypes
<1>5. NodeList[n].status \in BOOLEAN
  BY <1>4 DEF ReactNode
<1>6. fds[NodeList[n].fd] \in Clients
  BY <1>3 DEF ReactInv, ReactTypes, FdTable
<1>. QED
  BY <1>1, <1>3, <1>5, <1>6

(* Finding no free node, and the exit of the process, change no table.     *)
LEMMA ReactPasses ==
  ASSUME ReactInv, R!AcceptFindsNoNode \/ \E n \in R!Nodes : R!Exits(n)
  PROVE  ReactInv'
<1>1. PICK p : R!Handles(p) /\ pc' \in {pc, "exited"} /\ UNCHANGED <<NodeList, fds, interest, conn>>
  BY DEF R!AcceptFindsNoNode, R!Exits
<1>2. pc' \in {"handle", "exited"} /\ events' \in Seq(Reported)
  BY <1>1, ReactHandles
<1>3. FdTable'
  BY <1>1 DEF ReactInv, ReactTypes, FdTable, Fds
<1>4. ReactTypes'
  BY <1>1, <1>2, <1>3, ReactTypesNext, Zenon DEF ReactInv, ReactTypes
<1>5. ReactTables'
  BY <1>1, ReactKeeps DEF ReactInv
<1>6. ReactEvents'
  BY <1>1, <1>2, ReactRest
<1>. QED
  BY <1>4, <1>5, <1>6 DEF ReactInv

(* An end of file closes the node of the event and no other.               *)
LEMMA ReactReadsEnd ==
  ASSUME ReactInv, NEW n \in R!Nodes, R!ReadsEnd(n)
  PROVE  ReactInv'
<1>1. R!Handles(n) /\ R!EventDel({n}) /\ R!Close({n}) /\ pc' = pc
  BY DEF R!ReadsEnd
<1>2. {n} \in SUBSET {m \in R!Nodes : NodeList[m].status}
  BY <1>1, ReactBehind, Zenon
<1>3. ReactTypes /\ ReactTables
  BY DEF ReactInv
<1>4. /\ conn' \in [Clients -> Connection(Clients \X Nat)] /\ FdTable'
      /\ NodeList' \in [R!Nodes -> ReactNode]
      /\ interest' \in [Fds -> Registration \union {None}]
      /\ ReactTables'
      /\ \A m \in R!Nodes \ {n} : NodeList'[m] = NodeList[m]
      /\ \A m \in R!Nodes \ {n} : NodeList[m].status => fds'[NodeList[m].fd] = fds[NodeList[m].fd]
  BY <1>1, <1>2, <1>3, ReactCloses, Zenon
<1>5. pc' \in {"handle", "exited"} /\ events' \in Seq(Reported)
  BY <1>1, ReactHandles
<1>6. ReactTypes'
  BY <1>4, <1>5, ReactTypesNext, Zenon
<1>7. ReactEvents'
  BY <1>1, <1>4, <1>5, ReactRest
<1>. QED
  BY <1>4, <1>6, <1>7 DEF ReactInv

(* A read registers the same node again, to write.                         *)
LEMMA ReactReadsAll ==
  ASSUME ReactInv, NEW n \in R!Nodes, R!ReadsAll(n)
  PROVE  ReactInv'
<1>1. PICK f, c : f = NodeList[n].fd /\ c = fds[f]
  OBVIOUS
<1>2. /\ R!Handles(n) /\ fds' = fds /\ pc' = pc
      /\ NodeList' = [NodeList EXCEPT ![n].buf = conn[c].unread,
                                      ![n].pfunc = "DoWrite", ![n].age = 0]
      /\ conn' = [conn EXCEPT ![c].unread = <<>>]
      /\ interest' = [interest EXCEPT ![f] = R!Registered(n, c, "OUT")]
  BY <1>1 DEF R!ReadsAll
<1>3. /\ NodeList[n].status /\ f \in Fds /\ c \in Clients
      /\ NodeList[n].regArgs = TRUE /\ NodeList[n].status = TRUE
  BY <1>1, <1>2, ReactBehind, Zenon
<1>4. /\ NodeList \in [R!Nodes -> ReactNode] /\ NodeList[n] \in ReactNode
      /\ conn \in [Clients -> Connection(Clients \X Nat)] /\ conn[c] \in Connection(Clients \X Nat)
      /\ interest \in [Fds -> Registration \union {None}] /\ FdTable
  BY <1>3, Zenon DEF ReactInv, ReactTypes
<1>5. conn[c].unread \in Seq(Clients \X Nat) /\ <<>> \in Seq(Clients \X Nat)
  BY <1>4 DEF Connection
<1>6. PICK n1 : n1 = [NodeList[n] EXCEPT !.buf = conn[c].unread]
  BY Zenon
<1>7. PICK n2 : n2 = [n1 EXCEPT !.pfunc = "DoWrite"]
  BY Zenon
<1>8. PICK r : r = [n2 EXCEPT !.age = 0]
  BY Zenon
<1>9. n1 \in ReactNode /\ n1.fd = f /\ n1.status = TRUE /\ n1.regArgs = TRUE
  BY <1>1, <1>3, <1>4, <1>5, <1>6, Zenon DEF ReactNode
<1>10. n2 \in ReactNode /\ n2.fd = f /\ n2.status = TRUE /\ n2.regArgs = TRUE /\ n2.pfunc = "DoWrite"
  BY <1>7, <1>9 DEF ReactNode
<1>11. r \in ReactNode /\ r.fd = f /\ r.status = TRUE /\ r.regArgs = TRUE /\ r.pfunc = "DoWrite"
  BY <1>8, <1>10 DEF ReactNode
<1>12. NodeList' = [NodeList EXCEPT ![n] = r]
  <2>1. r = [NodeList[n] EXCEPT !.buf = conn[c].unread, !.pfunc = "DoWrite", !.age = 0]
    BY <1>6, <1>7, <1>8, Zenon
  <2>2. PICK g1, g2 : g1 = [NodeList EXCEPT ![n] = n1] /\ g2 = [g1 EXCEPT ![n] = n2]
    BY Zenon
  <2>3. g1 \in [R!Nodes -> ReactNode] /\ g1[n] = n1 /\ g1 = [NodeList EXCEPT ![n].buf = conn[c].unread]
    BY <1>4, <1>6, <1>9, <2>2
  <2>4. g2 \in [R!Nodes -> ReactNode] /\ g2[n] = n2 /\ g2 = [g1 EXCEPT ![n].pfunc = "DoWrite"]
    BY <1>7, <1>10, <2>2, <2>3
  <2>5. [g2 EXCEPT ![n].age = 0] = [g2 EXCEPT ![n] = r]
    BY <1>8, <2>4
  <2>6. [g2 EXCEPT ![n] = r] = [NodeList EXCEPT ![n] = r]
    BY <1>4, <1>11, <2>2, Zenon
  <2>7. NodeList' = [[[NodeList EXCEPT ![n].buf = conn[c].unread] EXCEPT ![n].pfunc = "DoWrite"]
                        EXCEPT ![n].age = 0]
    BY <1>2
  <2>. QED
    BY <2>3, <2>4, <2>5, <2>6, <2>7, Zenon
<1>13. /\ NodeList' \in [R!Nodes -> ReactNode]
       /\ \A m \in R!Nodes \ {n} : NodeList'[m] = NodeList[m]
  BY <1>4, <1>11, <1>12
<1>14. /\ conn' \in [Clients -> Connection(Clients \X Nat)]
       /\ \A d \in Clients : conn'[d].stage = conn[d].stage
  <2>1. PICK k : k = [conn[c] EXCEPT !.unread = <<>>]
    BY Zenon
  <2>2. k \in Connection(Clients \X Nat) /\ k.stage = conn[c].stage
    BY <1>4, <1>5, <2>1, Zenon DEF Connection
  <2>3. conn' = [conn EXCEPT ![c] = k]
    BY <1>2, <2>1
  <2>. QED
    BY <1>3, <1>4, <2>2, <2>3
<1>15. PICK g : g = R!Registered(n, c, "OUT")
  OBVIOUS
<1>16. g \in Registration /\ g # None /\ g.ptr = n /\ g.events = "OUT"
  BY <1>3, <1>15, ReactRegistered
<1>17. /\ interest' \in [Fds -> Registration \union {None}] /\ interest'[f] = g
       /\ \A h \in Fds : h # f => interest'[h] = interest[h]
  BY <1>2, <1>3, <1>4, <1>15, <1>16
<1>18. ReactTables'
  <2>1. interest'[f] # None /\ interest'[f].ptr = n /\ interest'[f].events = "OUT"
    BY <1>16, <1>17
  <2>2. ReactTypes /\ ReactTables
    BY DEF ReactInv
  <2>3. /\ r.fd = NodeList[n].fd
        /\ \A h \in Fds : h # r.fd => interest'[h] = interest[h]
        /\ interest'[r.fd] # None /\ interest'[r.fd].ptr = n
        /\ interest'[r.fd].events = "OUT" <=> r.pfunc = "DoWrite"
    BY <1>1, <1>11, <1>17, <2>1
  <2>4. fds' = fds /\ NodeList[n].status /\ interest' \in [Fds -> Registration \union {None}]
    BY <1>2, <1>3, <1>17
  <2>. QED
    BY <1>11, <1>12, <2>2, <2>3, <2>4, ReactGoesOn, Zenon
<1>19. FdTable'
  BY <1>2, <1>4, <1>14, SameTable
<1>20. pc' \in {"handle", "exited"} /\ events' \in Seq(Reported)
  BY <1>2, ReactHandles
<1>21. ReactTypes'
  BY <1>13, <1>14, <1>17, <1>19, <1>20, ReactTypesNext, Zenon
<1>22. ReactEvents'
  BY <1>2, <1>13, <1>20, ReactRest
<1>. QED
  BY <1>18, <1>21, <1>22 DEF ReactInv

(* A write registers the same node again to read, or closes it.            *)
LEMMA ReactDoWrite ==
  ASSUME ReactInv, NEW n \in R!Nodes, R!DoWrite(n)
  PROVE  ReactInv'
<1>1. PICK f, c, buf0 : f = NodeList[n].fd /\ c = fds[f] /\ buf0 = NodeList[n].buf
  OBVIOUS
<1>2. PICK cnt \in 1 .. Len(buf0) :
        /\ R!Handles(n) /\ fds' = fds /\ pc' = pc /\ NodeList[n].pfunc = "DoWrite"
        /\ conn' = [conn EXCEPT ![c].echoed = @ \o SubSeq(buf0, 1, cnt)]
        /\ NodeList' = [NodeList EXCEPT ![n].buf = R!Left(buf0, cnt), ![n].age = 0,
                          ![n].pfunc = IF cnt = Len(buf0) THEN "DoReadLoop" ELSE @]
        /\ interest' = IF cnt = Len(buf0)
                       THEN [interest EXCEPT ![f] = R!Registered(n, c, "IN|ET")]
                       ELSE interest
  BY <1>1, Zenon DEF R!DoWrite
<1>3. /\ NodeList[n].status /\ f \in Fds /\ c \in Clients
      /\ NodeList[n].regArgs = TRUE /\ NodeList[n].status = TRUE
  BY <1>1, <1>2, ReactBehind, Zenon
<1>4. /\ NodeList \in [R!Nodes -> ReactNode] /\ NodeList[n] \in ReactNode
      /\ conn \in [Clients -> Connection(Clients \X Nat)] /\ conn[c] \in Connection(Clients \X Nat)
      /\ interest \in [Fds -> Registration \union {None}] /\ FdTable
  BY <1>3, Zenon DEF ReactInv, ReactTypes
<1>5. conn[c].echoed \in Seq(Clients \X Nat) /\ buf0 \in Seq(Clients \X Nat)
  BY <1>1, <1>4 DEF Connection, ReactNode
<1>6. Len(buf0) \in Nat /\ cnt \in Nat
  BY <1>2, <1>5, LenProperties
<1>7. PICK left, wrote : left = SubSeq(buf0, cnt + 1, Len(buf0)) /\ wrote = SubSeq(buf0, 1, cnt)
  BY Zenon
<1>8. left \in Seq(Clients \X Nat) /\ wrote \in Seq(Clients \X Nat)
  <2>1. \A i \in 1 .. Len(buf0) : buf0[i] \in Clients \X Nat
    BY <1>5, ElementOfSeq
  <2>2. cnt =< Len(buf0) /\ cnt + 1 \in Int
    BY <1>2, <1>6
  <2>. QED
    BY <1>5, <1>6, <1>7, <2>1, <2>2
<1>9. PICK pf \in {"DoReadLoop", "DoWrite"} : pf = IF cnt = Len(buf0) THEN "DoReadLoop" ELSE "DoWrite"
  OBVIOUS
<1>10. PICK n1 : n1 = [NodeList[n] EXCEPT !.buf = left]
  BY Zenon
<1>11. PICK n2 : n2 = [n1 EXCEPT !.age = 0]
  BY Zenon
<1>12. PICK r : r = [n2 EXCEPT !.pfunc = pf]
  BY Zenon
<1>13. n1 \in ReactNode /\ n1.fd = f /\ n1.status = TRUE /\ n1.regArgs = TRUE /\ n1.pfunc = "DoWrite"
  BY <1>1, <1>2, <1>3, <1>4, <1>8, <1>10, Zenon DEF ReactNode
<1>14. n2 \in ReactNode /\ n2.fd = f /\ n2.status = TRUE /\ n2.regArgs = TRUE /\ n2.pfunc = "DoWrite"
  BY <1>11, <1>13 DEF ReactNode
<1>15. r \in ReactNode /\ r.fd = f /\ r.status = TRUE /\ r.regArgs = TRUE /\ r.pfunc = pf
  BY <1>12, <1>14 DEF ReactNode
<1>16. NodeList' = [NodeList EXCEPT ![n] = r]
  <2>1. PICK g1, g2 : g1 = [NodeList EXCEPT ![n] = n1] /\ g2 = [g1 EXCEPT ![n] = n2]
    BY Zenon
  <2>2. g1 \in [R!Nodes -> ReactNode] /\ g1[n] = n1 /\ g1 = [NodeList EXCEPT ![n].buf = left]
    BY <1>4, <1>10, <1>13, <2>1
  <2>3. g2 \in [R!Nodes -> ReactNode] /\ g2[n] = n2 /\ g2 = [g1 EXCEPT ![n].age = 0]
    BY <1>11, <1>14, <2>1, <2>2
  <2>4. [g2 EXCEPT ![n].pfunc = IF cnt = Len(buf0) THEN "DoReadLoop" ELSE @] = [g2 EXCEPT ![n] = r]
    <3>1. g2[n].pfunc = "DoWrite"
      BY <1>14, <2>3
    <3>. QED
      BY <1>9, <1>12, <2>3, <3>1, Zenon
  <2>5. [g2 EXCEPT ![n] = r] = [NodeList EXCEPT ![n] = r]
    BY <1>4, <1>15, <2>1, Zenon
  <2>6. NodeList' = [[[NodeList EXCEPT ![n].buf = left] EXCEPT ![n].age = 0]
                        EXCEPT ![n].pfunc = IF cnt = Len(buf0) THEN "DoReadLoop" ELSE @]
    BY <1>2, <1>7, Zenon DEF R!Left
  <2>. QED
    BY <2>2, <2>3, <2>4, <2>5, <2>6, Zenon
<1>17. /\ NodeList' \in [R!Nodes -> ReactNode]
       /\ \A m \in R!Nodes \ {n} : NodeList'[m] = NodeList[m]
  BY <1>4, <1>15, <1>16
<1>18. /\ conn' \in [Clients -> Connection(Clients \X Nat)]
       /\ \A d \in Clients : conn'[d].stage = conn[d].stage
  <2>1. PICK k : k = [conn[c] EXCEPT !.echoed = conn[c].echoed \o wrote]
    BY Zenon
  <2>2. conn[c].echoed \o wrote \in Seq(Clients \X Nat)
    BY <1>5, <1>8
  <2>3. k \in Connection(Clients \X Nat) /\ k.stage = conn[c].stage
    BY <1>4, <2>1, <2>2, Zenon DEF Connection
  <2>4. conn' = [conn EXCEPT ![c] = k]
    BY <1>2, <1>7, <2>1
  <2>. QED
    BY <1>3, <1>4, <2>3, <2>4
<1>19. PICK g : g = R!Registered(n, c, "IN|ET")
  OBVIOUS
<1>20. g \in Registration /\ g # None /\ g.ptr = n /\ g.events = "IN|ET"
  BY <1>3, <1>19, ReactRegistered
<1>21. ReactTypes /\ ReactTables /\ UsedOk(n) /\ RegisteredOk(f)
  BY <1>3 DEF ReactInv, ReactTables
<1>22. /\ interest' \in [Fds -> Registration \union {None}]
       /\ \A h \in Fds : h # f => interest'[h] = interest[h]
       /\ interest'[f] # None /\ interest'[f].ptr = n
       /\ interest'[f].events = "OUT" <=> pf = "DoWrite"
  <2>1. CASE cnt = Len(buf0)
    <3>1. interest' = [interest EXCEPT ![f] = g] /\ pf = "DoReadLoop"
      BY <1>2, <1>9, <1>19, <2>1
    <3>. QED
      BY <1>3, <1>4, <1>20, <3>1
  <2>2. CASE cnt # Len(buf0)
    <3>1. interest' = interest /\ pf = "DoWrite"
      BY <1>2, <1>9, <2>2
    <3>2. fds[f] # None
      BY <1>1, <1>3, PeersAssumption
    <3>. QED
      BY <1>1, <1>2, <1>3, <1>4, <1>21, <3>1, <3>2 DEF UsedOk, RegisteredOk
  <2>. QED
    BY <2>1, <2>2
<1>23. ReactTables'
  <2>1. /\ r.fd = NodeList[n].fd
        /\ \A h \in Fds : h # r.fd => interest'[h] = interest[h]
        /\ interest'[r.fd] # None /\ interest'[r.fd].ptr = n
        /\ interest'[r.fd].events = "OUT" <=> r.pfunc = "DoWrite"
    BY <1>1, <1>15, <1>22
  <2>2. fds' = fds /\ NodeList[n].status /\ interest' \in [Fds -> Registration \union {None}]
    BY <1>2, <1>3, <1>22
  <2>. QED
    BY <1>15, <1>16, <1>21, <2>1, <2>2, ReactGoesOn, Zenon
<1>24. FdTable'
  BY <1>2, <1>4, <1>18, SameTable
<1>25. pc' \in {"handle", "exited"} /\ events' \in Seq(Reported)
  BY <1>2, ReactHandles
<1>26. ReactTypes'
  BY <1>17, <1>18, <1>22, <1>24, <1>25, ReactTypesNext, Zenon
<1>27. ReactEvents'
  BY <1>2, <1>17, <1>25, ReactRest
<1>. QED
  BY <1>23, <1>26, <1>27 DEF ReactInv

(* An accept takes a node that no event of the batch names.                *)
LEMMA ReactAccepts ==
  ASSUME ReactInv, NEW c \in Clients, R!DoAccept(c)
  PROVE  ReactInv'
<1>1. PICK n, f : n = Min(R!Unused) /\ f = FreeFd
  OBVIOUS
<1>2. /\ R!Handles(R!Listener) /\ R!Unused # {} /\ Accepts(c) /\ pc' = pc
      /\ NodeList' = [NodeList EXCEPT ![n] =
               [fd |-> f, buf |-> <<>>, pfunc |-> "DoReadLoop", regArgs |-> TRUE,
                status |-> TRUE, age |-> 0]]
      /\ interest' = [interest EXCEPT ![f] = R!Registered(n, c, "IN|ET")]
  BY <1>1, ReactPeers, Zenon DEF R!DoAccept
<1>3. n \in R!Nodes /\ ~ NodeList[n].status
  <2>1. R!Unused \in SUBSET Nat
    BY DEF R!Unused, R!Nodes
  <2>. QED
    BY <1>1, <1>2, <2>1, MinIsLeast DEF R!Unused
<1>4. /\ NodeList \in [R!Nodes -> ReactNode] /\ conn \in [Clients -> Connection(Clients \X Nat)]
      /\ interest \in [Fds -> Registration \union {None}] /\ FdTable /\ ReactTables
  BY Zenon DEF ReactInv, ReactTypes
<1>5. /\ conn' \in [Clients -> Connection(Clients \X Nat)] /\ FdTable'
      /\ f \in Fds /\ fds[f] = None /\ fds' = [fds EXCEPT ![f] = c]
  BY <1>1, <1>2, <1>4, AcceptsTyped, Zenon
<1>6. fds'[f] = c /\ c # None /\ \A h \in Fds : h # f => fds'[h] = fds[h]
  BY <1>4, <1>5, PeersAssumption DEF FdTable
<1>7. PICK r : r = [fd |-> f, buf |-> <<>>, pfunc |-> "DoReadLoop", regArgs |-> TRUE,
                    status |-> TRUE, age |-> 0]
  BY Zenon
<1>8. /\ r \in ReactNode /\ r.fd = f /\ r.regArgs = TRUE /\ r.status = TRUE
      /\ r.pfunc = "DoReadLoop"
  <2>1. <<>> \in Seq(Clients \X Nat) /\ 0 \in 0 .. 2
    OBVIOUS
  <2>. QED
    BY <1>5, <1>7, <2>1 DEF ReactNode
<1>9. /\ NodeList' \in [R!Nodes -> ReactNode] /\ NodeList'[n] = r
      /\ \A m \in R!Nodes : m # n => NodeList'[m] = NodeList[m]
  <2>1. NodeList' = [NodeList EXCEPT ![n] = r]
    BY <1>2, <1>7
  <2>. QED
    BY <1>3, <1>4, <1>8, <2>1
<1>10. PICK g : g = R!Registered(n, c, "IN|ET")
  OBVIOUS
<1>11. g \in Registration /\ g # None /\ g.ptr = n /\ g.events = "IN|ET"
  BY <1>3, <1>10, ReactRegistered
<1>12. /\ interest' \in [Fds -> Registration \union {None}] /\ interest'[f] = g
       /\ \A h \in Fds : h # f => interest'[h] = interest[h]
  BY <1>2, <1>4, <1>5, <1>10, <1>11
<1>13. ASSUME NEW m \in R!Nodes, m # n, NodeList[m].status
       PROVE  NodeList[m].fd \in Fds /\ NodeList[m].fd # f
  BY <1>4, <1>5, <1>13 DEF ReactTables, UsedOk
<1>14. \A m \in R!Nodes : UsedOk(m)'
  <2>1. ASSUME NEW m \in R!Nodes
        PROVE  /\ NodeList'[m].regArgs = NodeList'[m].status
               /\ NodeList'[m].status =>
                    /\ NodeList'[m].fd \in Fds
                    /\ fds'[NodeList'[m].fd] # None
                    /\ interest'[NodeList'[m].fd].ptr = m
                    /\ interest'[NodeList'[m].fd].events = "OUT" <=> NodeList'[m].pfunc = "DoWrite"
    <3>1. CASE m = n
      BY <1>5, <1>6, <1>8, <1>9, <1>11, <1>12, <3>1, Zenon
    <3>2. CASE m # n
      <4>1. UsedOk(m) /\ NodeList'[m] = NodeList[m]
        BY <1>4, <1>9, <3>2 DEF ReactTables
      <4>. QED
        BY <1>6, <1>12, <1>13, <3>2, <4>1 DEF UsedOk
    <3>. QED
      BY <3>1, <3>2
  <2>. QED
    BY <2>1 DEF UsedOk, Fds
<1>15. \A h \in Fds : RegisteredOk(h)'
  <2>1. ASSUME NEW h \in Fds
        PROVE  /\ interest'[h] = None <=> fds'[h] = None
               /\ fds'[h] # None => /\ interest'[h].ptr \in R!Nodes
                                    /\ NodeList'[interest'[h].ptr].status
                                    /\ NodeList'[interest'[h].ptr].fd = h
    <3>1. CASE h = f
      BY <1>3, <1>6, <1>8, <1>9, <1>11, <1>12, <3>1
    <3>2. CASE h # f
      <4>1. RegisteredOk(h) /\ interest'[h] = interest[h] /\ fds'[h] = fds[h]
        BY <1>4, <1>6, <1>12, <3>2 DEF ReactTables
      <4>2. fds[h] # None => interest[h].ptr # n
        BY <1>3, <4>1 DEF RegisteredOk
      <4>. QED
        BY <1>9, <4>1, <4>2 DEF RegisteredOk
    <3>. QED
      BY <3>1, <3>2
  <2>. QED
    BY <2>1 DEF RegisteredOk, Fds, R!Nodes
<1>16. ReactTables'
  BY <1>14, <1>15 DEF ReactTables, Fds, R!Nodes
<1>17. pc' \in {"handle", "exited"} /\ events' \in Seq(Reported)
  BY <1>2, ReactHandles
<1>18. ReactTypes'
  BY <1>5, <1>9, <1>12, <1>17, ReactTypesNext, Zenon
<1>19. ReactEvents'
  <2>1. ASSUME NEW m \in R!Nodes, NodeList[m].status
        PROVE  NodeList'[m].status /\ fds'[NodeList'[m].fd] = fds[NodeList[m].fd]
    <3>1. m # n /\ NodeList'[m] = NodeList[m]
      BY <1>3, <1>9, <2>1
    <3>. QED
      BY <1>6, <1>13, <2>1, <3>1
  <2>. QED
    BY <1>2, <1>17, <2>1, ReactRest
<1>. QED
  BY <1>16, <1>18, <1>19 DEF ReactInv

(* What arrives from the clients does not touch the tables of the server.  *)
LEMMA ReactEnvironment ==
  ASSUME ReactInv, R!Environment
  PROVE  ReactInv'
<1>1. CASE R!MinutePasses
  BY <1>1, ReactMinute
<1>2. CASE ~ R!MinutePasses
  <2>1. PICK c \in Clients :
          /\ Connects(c) \/ Arrives(c)
          /\ interest' = interest \/ R!Signals(c)
          /\ UNCHANGED <<NodeList, fds, pc, events>>
    BY <1>2, ReactPeers DEF R!Environment
  <2>2. /\ conn \in [Clients -> Connection(Clients \X Nat)] /\ FdTable
        /\ interest \in [Fds -> Registration \union {None}]
    BY Zenon DEF ReactInv, ReactTypes
  <2>3. PICK r \in Connection(Clients \X Nat) :
          /\ conn' = [conn EXCEPT ![c] = r]
          /\ r.stage = "open" <=> conn[c].stage = "open"
    <3>1. \E r \in Connection(Clients \X Nat) :
            /\ conn' = [conn EXCEPT ![c] = r]
            /\ r.echoed = conn[c].echoed
            /\ \/ Arrives(c) /\ r.stage = conn[c].stage /\ r.stage \in {"pending", "open"}
               \/ conn[c].stage = "none" /\ r.stage = "pending"
      BY <2>1, <2>2, ArrivesTyped
    <3>. QED
      BY <3>1, Zenon
  <2>4. conn' \in [Clients -> Connection(Clients \X Nat)]
        /\ \A d \in Clients : conn'[d].stage = "open" <=> conn[d].stage = "open"
    BY <2>2, <2>3
  <2>5. FdTable'
    BY <2>1, <2>2, <2>4, SameTable
  <2>6. R!Signals(c) => Signals(c)
    BY ReactFds DEF R!Signals, Signals
  <2>7. /\ interest' \in [Fds -> Registration \union {None}]
        /\ \A f \in Fds : /\ interest'[f] = None <=> interest[f] = None
                          /\ interest[f] # None => /\ interest'[f].ptr = interest[f].ptr
                                                   /\ interest'[f].events = interest[f].events
    BY <2>1, <2>2, <2>6, SignalsTyped
  <2>8. ReactTables'
    BY <2>1, <2>7, ReactKeeps DEF ReactInv
  <2>9. ReactTypes'
    BY <2>1, <2>4, <2>5, <2>7, ReactTypesNext, Zenon DEF ReactInv, ReactTypes
  <2>10. ReactEvents'
    BY <2>1 DEF ReactInv, ReactEvents, EventOk, R!Nodes, R!Listener
  <2>. QED
    BY <2>8, <2>9, <2>10 DEF ReactInv
<1>. QED
  BY <1>1, <1>2

(* Every step of the reactor keeps its invariant.                          *)
LEMMA ReactNext ==
  ASSUME ReactInv, R!Next
  PROVE  ReactInv'
<1>1. CASE R!Server
  BY <1>1, ReactSweep, ReactWait, ReactTurns, ReactPasses, ReactAccepts, ReactReadsEnd,
     ReactReadsAll, ReactDoWrite DEF R!Server
<1>2. CASE R!Environment
  BY <1>2, ReactEnvironment
<1>. QED
  BY <1>1, <1>2 DEF R!Next

(* The invariant holds throughout a run of epoll_reactor.                  *)
LEMMA ReactAlways == Spec => [](Runs({"epoll_reactor"}) => ReactInv)
<1>1. Init => (Runs({"epoll_reactor"}) => ReactInv)
  BY OnlyOneStarts, ReactInit
<1>2. ASSUME Runs({"epoll_reactor"}) => ReactInv, [Next]_mcVars
      PROVE  (Runs({"epoll_reactor"}) => ReactInv)'
  <2>1. program' = program
    BY <1>2, ProgramStays
  <2>2. CASE UNCHANGED mcVars
    <3>1. UNCHANGED <<NodeList, fds, interest, conn, pc, events>>
      BY <2>2 DEF mcVars, epollVars
    <3>2. ASSUME ReactInv
          PROVE  ReactInv'
      <4>1. FdTable'
        BY <3>1, <3>2 DEF ReactInv, ReactTypes, FdTable, Fds
      <4>2. ReactTypes'
        BY <3>1, <3>2, <4>1, ReactTypesNext, Zenon DEF ReactInv, ReactTypes
      <4>3. ReactTables'
        BY <3>1, <3>2, ReactKeeps DEF ReactInv
      <4>4. ReactEvents'
        BY <3>1, <3>2 DEF ReactInv, ReactEvents, EventOk, R!Nodes, R!Listener
      <4>. QED
        BY <4>2, <4>3, <4>4 DEF ReactInv
    <3>. QED
      BY <1>2, <2>1, <3>2 DEF Runs
  <2>3. CASE Next
    <3>1. CASE Runs({"epoll_reactor"})
      BY <1>2, <2>3, <3>1, OnlyOneRuns, ReactNext
    <3>2. CASE ~ Runs({"epoll_reactor"})
      BY <2>1, <3>2 DEF Runs
    <3>. QED
      BY <3>1, <3>2
  <2>. QED
    BY <1>2, <2>2, <2>3
<1>. QED
  BY <1>1, <1>2, PTL DEF Spec

(***************************************************************************)
(* epoll_reactor.c: no event of a batch is stale, for any number of        *)
(* clients and nodes and any length of the batch: the node it points to    *)
(* still is the node of the connection it was reported for, whatever the   *)
(* callbacks before it in the batch closed and accepted.                   *)
(***************************************************************************)
THEOREM EventsStayFresh == Spec => []NoStaleEvent
<1>1. (Runs({"epoll_reactor"}) => ReactInv) => NoStaleEvent
  BY DEF ReactInv, ReactEvents, EventOk, NoStaleEvent, R!NoStaleEvent
<1>. QED
  BY <1>1, ReactAlways, PTL

(* The nodes, epoll's registrations and the open descriptors agree.        *)
LEMMA ReactAgrees ==
  ASSUME ReactInv
  PROVE  R!TableAgrees
<1>1. ReactTables /\ FdTable
  BY DEF ReactInv, ReactTypes
<1>2. PICK used : used = {n \in R!Nodes : NodeList[n].status}
  BY Zenon
<1>3. \A m, n \in used : NodeList[m].fd = NodeList[n].fd => m = n
  BY <1>1, <1>2 DEF ReactTables, UsedOk
<1>4. {NodeList[n].fd : n \in used} = {f \in Fds : fds[f] # None}
  <2>1. \A n \in used : NodeList[n].fd \in {f \in Fds : fds[f] # None}
    BY <1>1, <1>2 DEF ReactTables, UsedOk
  <2>2. \A f \in {f \in Fds : fds[f] # None} : \E n \in used : f = NodeList[n].fd
    BY <1>1, <1>2 DEF ReactTables, RegisteredOk
  <2>. QED
    BY <2>1, <2>2
<1>5. {fds[f] : f \in Fds} \ {None} = {c \in Clients : R!Open(c)}
  BY <1>1, PeersAssumption DEF FdTable, R!Open
<1>6. \A f \in Fds : interest[f] = None <=> fds[f] = None
  BY <1>1 DEF ReactTables, RegisteredOk
<1>7. \A n \in R!Nodes : NodeList[n].regArgs = NodeList[n].status
  BY <1>1 DEF ReactTables, UsedOk
<1>8. \A n \in used : /\ interest[NodeList[n].fd].ptr = n
                      /\ interest[NodeList[n].fd].events = "OUT" <=> NodeList[n].pfunc = "DoWrite"
  BY <1>1, <1>2 DEF ReactTables, UsedOk
<1>. QED
  BY <1>2, <1>3, <1>4, <1>5, <1>6, <1>7, <1>8, ReactFds DEF R!TableAgrees

-----------------------------------------------------------------------------
(* The bytes a client sends after the first i, up to the j-th.             *)
Bytes(c, i, j) == [k \in 1 .. j - i |-> <<c, i + k>>]

(***************************************************************************)
(* What is known of a connection's bytes: what came back is what was sent  *)
(* first; and if no byte was lost, then those in the server's hands come   *)
(* next, and those unread last.                                            *)
(***************************************************************************)
Carried(c, r, hand, whole) ==
  \E i, j \in Nat :
    /\ i =< j /\ j =< r.sent
    /\ r.echoed = Bytes(c, 0, i)
    /\ whole => hand = Bytes(c, i, j) /\ r.unread = Bytes(c, j, r.sent)

(* The bytes from one place to another, their number and each of them.     *)
LEMMA BytesKnown ==
  ASSUME NEW c \in Clients, NEW i \in Nat, NEW j \in Nat, i =< j
  PROVE  /\ Bytes(c, i, j) \in Seq(Clients \X Nat) /\ Len(Bytes(c, i, j)) = j - i
         /\ \A k \in 1 .. j - i : Bytes(c, i, j)[k] = <<c, i + k>>
<1>1. PICK n \in Nat : n = j - i
  OBVIOUS
<1>2. PICK s : s = [k \in 1 .. n |-> <<c, i + k>>]
  BY Zenon
<1>3. s \in [1 .. n -> Clients \X Nat] /\ \A k \in 1 .. n : s[k] = <<c, i + k>>
  BY <1>2
<1>4. s \in Seq(Clients \X Nat) /\ Len(s) = n
  BY <1>3
<1>. QED
  BY <1>1, <1>2, <1>3, <1>4, Zenon DEF Bytes

(* A sequence is known from its length and its bytes.                      *)
LEMMA BytesAre ==
  ASSUME NEW c \in Clients, NEW i \in Nat, NEW j \in Nat, i =< j,
         NEW s \in Seq(Clients \X Nat), Len(s) = j - i, \A k \in 1 .. j - i : s[k] = <<c, i + k>>
  PROVE  s = Bytes(c, i, j)
<1>1. PICK b : b = Bytes(c, i, j)
  BY Zenon
<1>2. b \in Seq(Clients \X Nat) /\ Len(b) = j - i /\ \A k \in 1 .. j - i : b[k] = <<c, i + k>>
  BY <1>1, BytesKnown, Zenon
<1>3. Len(s) = Len(b) /\ \A k \in 1 .. Len(s) : s[k] = b[k]
  BY <1>2
<1>4. s = b
  BY <1>2, <1>3, SeqEqual
<1>. QED
  BY <1>1, <1>4

(* From a place to itself there are none.                                  *)
LEMMA NoBytes ==
  ASSUME NEW c \in Clients, NEW i \in Nat
  PROVE  Bytes(c, i, i) = <<>>
<1>1. PICK s : s = Bytes(c, i, i)
  BY Zenon
<1>2. s \in Seq(Clients \X Nat) /\ Len(s) = i - i
  BY <1>1, BytesKnown
<1>3. s = <<>>
  BY <1>2, EmptySeq
<1>. QED
  BY <1>1, <1>3

(* And only from a place to itself.                                        *)
LEMMA BytesOfNone ==
  ASSUME NEW c \in Clients, NEW i \in Nat, NEW j \in Nat, i =< j
  PROVE  Bytes(c, i, j) = <<>> <=> i = j
<1>1. PICK s : s = Bytes(c, i, j)
  BY Zenon
<1>2. s \in Seq(Clients \X Nat) /\ Len(s) = j - i
  BY <1>1, BytesKnown
<1>3. s = <<>> <=> i = j
  BY <1>2, EmptySeq
<1>. QED
  BY <1>1, <1>3

(* The next byte appended.                                                 *)
LEMMA BytesAdd ==
  ASSUME NEW c \in Clients, NEW i \in Nat, NEW j \in Nat, i =< j
  PROVE  Append(Bytes(c, i, j), <<c, j + 1>>) = Bytes(c, i, j + 1)
<1>1. PICK s, b : s = Bytes(c, i, j) /\ b = <<c, j + 1>>
  BY Zenon
<1>2. s \in Seq(Clients \X Nat) /\ Len(s) = j - i /\ \A k \in 1 .. j - i : s[k] = <<c, i + k>>
  BY <1>1, BytesKnown, Zenon
<1>3. b \in Clients \X Nat
  BY <1>1
<1>4. PICK t : t = Append(s, b)
  BY Zenon
<1>5. /\ t \in Seq(Clients \X Nat) /\ Len(t) = Len(s) + 1
      /\ \A k \in 1 .. Len(s) : t[k] = s[k]
      /\ t[Len(s) + 1] = b
  BY <1>2, <1>3, <1>4
<1>6. \A k \in 1 .. j + 1 - i : t[k] = <<c, i + k>>
  <2>1. ASSUME NEW k \in 1 .. j + 1 - i
        PROVE  t[k] = <<c, i + k>>
    <3>1. CASE k = j + 1 - i
      <4>1. t[k] = b /\ i + k = j + 1
        BY <1>2, <1>5, <3>1
      <4>. QED
        BY <1>1, <4>1
    <3>2. CASE k # j + 1 - i
      <4>1. k \in 1 .. j - i
        BY <3>2
      <4>. QED
        BY <1>2, <1>5, <4>1
    <3>. QED
      BY <3>1, <3>2
  <2>. QED
    BY <2>1
<1>7. PICK l \in Nat : l = j + 1
  OBVIOUS
<1>8. i =< l /\ Len(t) = l - i /\ \A k \in 1 .. l - i : t[k] = <<c, i + k>>
  BY <1>2, <1>5, <1>6, <1>7
<1>9. t = Bytes(c, i, l)
  BY <1>5, <1>8, BytesAre, Zenon
<1>. QED
  BY <1>1, <1>4, <1>7, <1>9, Zenon

(* Bytes followed by the next ones.                                        *)
LEMMA BytesJoin ==
  ASSUME NEW c \in Clients, NEW i \in Nat, NEW j \in Nat, NEW l \in Nat, i =< j, j =< l
  PROVE  Bytes(c, i, j) \o Bytes(c, j, l) = Bytes(c, i, l)
<1>1. PICK s, t : s = Bytes(c, i, j) /\ t = Bytes(c, j, l)
  BY Zenon
<1>2. s \in Seq(Clients \X Nat) /\ Len(s) = j - i /\ \A k \in 1 .. j - i : s[k] = <<c, i + k>>
  BY <1>1, BytesKnown, Zenon
<1>3. t \in Seq(Clients \X Nat) /\ Len(t) = l - j /\ \A k \in 1 .. l - j : t[k] = <<c, j + k>>
  BY <1>1, BytesKnown, Zenon
<1>4. PICK u : u = s \o t
  BY Zenon
<1>10. PICK m \in Nat, n \in Nat : m = j - i /\ n = l - j
  OBVIOUS
<1>11. /\ u \in Seq(Clients \X Nat) /\ Len(u) = m + n
       /\ \A k \in 1 .. m + n : u[k] = IF k =< m THEN s[k] ELSE t[k - m]
  <2>1. Len(s) = m /\ Len(t) = n
    BY <1>2, <1>3, <1>10
  <2>2. /\ s \o t \in Seq(Clients \X Nat)
        /\ Len(s \o t) = Len(s) + Len(t)
        /\ \A k \in 1 .. Len(s) + Len(t) : (s \o t)[k] = IF k <= Len(s) THEN s[k] ELSE t[k - Len(s)]
    BY <1>2, <1>3, ConcatProperties, Zenon
  <2>. QED
    BY <1>4, <2>1, <2>2, Zenon
<1>5. u \in Seq(Clients \X Nat) /\ Len(u) = l - i
  BY <1>10, <1>11
<1>6. ASSUME NEW k \in 1 .. l - i
      PROVE  u[k] = <<c, i + k>>
  <2>1. CASE k =< j - i
    <3>1. k \in 1 .. j - i /\ k \in 1 .. m + n /\ k =< m
      BY <1>10, <2>1
    <3>. QED
      BY <1>2, <1>11, <3>1
  <2>2. CASE ~ (k =< j - i)
    <3>1. PICK p \in 1 .. l - j : p = k - (j - i)
      BY <2>2
    <3>2. k \in 1 .. m + n /\ ~ (k =< m) /\ p = k - m
      BY <1>10, <2>2, <3>1
    <3>4. u[k] = t[p]
      BY <1>11, <3>2
    <3>3. t[p] = <<c, j + p>> /\ j + p = i + k
      BY <1>3, <3>1
    <3>. QED
      BY <3>3, <3>4
  <2>. QED
    BY <2>1, <2>2
<1>7. i =< l
  OBVIOUS
<1>8. u = Bytes(c, i, l)
  BY <1>5, <1>6, <1>7, BytesAre, Zenon
<1>. QED
  BY <1>1, <1>4, <1>8, Zenon

(* Bytes cut in two at a place between.                                    *)
LEMMA BytesCut ==
  ASSUME NEW c \in Clients, NEW i \in Nat, NEW j \in Nat, NEW l \in Nat, i =< j, j =< l
  PROVE  /\ SubSeq(Bytes(c, i, l), 1, j - i) = Bytes(c, i, j)
         /\ SubSeq(Bytes(c, i, l), j - i + 1, l - i) = Bytes(c, j, l)
<1>1. PICK s : s = Bytes(c, i, l)
  BY Zenon
<1>0. i =< l
  OBVIOUS
<1>2. s \in Seq(Clients \X Nat) /\ Len(s) = l - i /\ \A k \in 1 .. l - i : s[k] = <<c, i + k>>
  BY <1>0, <1>1, BytesKnown, Zenon
<1>3. PICK t : t = SubSeq(s, 1, j - i)
  BY Zenon
<1>4. t \in Seq(Clients \X Nat) /\ Len(t) = j - i /\ \A k \in 1 .. j - i : t[k] = s[k]
  BY <1>2, <1>3
<1>5. \A k \in 1 .. j - i : t[k] = <<c, i + k>>
  BY <1>2, <1>4
<1>6. t = Bytes(c, i, j)
  BY <1>4, <1>5, BytesAre, Zenon
<1>7. PICK u : u = SubSeq(s, j - i + 1, l - i)
  BY Zenon
<1>8. u \in Seq(Clients \X Nat) /\ Len(u) = l - j /\ \A k \in 1 .. l - j : u[k] = s[j - i + k]
  <2>1. CASE j = l
    <3>1. u = <<>>
      BY <1>2, <1>7, <2>1, SubSeqEmpty
    <3>. QED
      BY <2>1, <3>1
  <2>2. CASE j < l
    <3>1. PICK m \in Nat, n \in Nat : m = j - i + 1 /\ n = l - i
      OBVIOUS
    <3>2. m \in 1 .. Len(s) /\ n \in 1 .. Len(s) /\ n - m + 1 = l - j /\ m =< n
      BY <1>2, <2>2, <3>1
    <3>3. /\ u \in Seq(Clients \X Nat) /\ Len(u) = n - m + 1
          /\ \A k \in 1 .. n - m + 1 : u[k] = s[m + k - 1]
      BY <1>2, <1>7, <3>1, <3>2
    <3>4. \A k \in 1 .. l - j : m + k - 1 = j - i + k
      BY <3>1
    <3>. QED
      BY <3>2, <3>3, <3>4
  <2>. QED
    BY <2>1, <2>2
<1>9. \A k \in 1 .. l - j : u[k] = <<c, j + k>>
  <2>1. ASSUME NEW k \in 1 .. l - j
        PROVE  u[k] = <<c, j + k>>
    <3>1. PICK m \in 1 .. l - i : m = j - i + k
      OBVIOUS
    <3>2. u[k] = s[m] /\ s[m] = <<c, i + m>> /\ i + m = j + k
      BY <1>2, <1>8, <3>1
    <3>. QED
      BY <3>2
  <2>. QED
    BY <2>1
<1>10. u = Bytes(c, j, l)
  BY <1>8, <1>9, BytesAre, Zenon
<1>. QED
  BY <1>1, <1>3, <1>6, <1>7, <1>10, Zenon

(* What a read of some bytes takes and leaves.                             *)
ReadAt(c, i, l, n, j) ==
  /\ i =< j /\ j =< l
  /\ Upto(n, Bytes(c, i, l)) = Bytes(c, i, j)
  /\ SubSeq(Bytes(c, i, l), n + 1, Len(Bytes(c, i, l))) = Bytes(c, j, l)

(* A read of at most n bytes takes the first of them and leaves the rest.  *)
LEMMA BytesRead ==
  ASSUME NEW c \in Clients, NEW i \in Nat, NEW l \in Nat, i =< l, NEW n \in Nat
  PROVE  \E j \in Nat : ReadAt(c, i, l, n, j)
<1>1. PICK s : s = Bytes(c, i, l)
  BY Zenon
<1>2. s \in Seq(Clients \X Nat) /\ Len(s) = l - i
  BY <1>1, BytesKnown, Zenon
<1>3. PICK k \in Nat : k = l - i
  OBVIOUS
<1>4. PICK m : m = Min({n, k})
  BY Zenon
<1>5. m \in {n, k} /\ m =< n /\ m =< k
  BY <1>4, MinIsLeast, Zenon
<1>6. PICK j \in Nat : j = i + m
  BY <1>5
<1>7. i =< j /\ j =< l /\ m = j - i
  BY <1>3, <1>5, <1>6
<1>8. Upto(n, s) = SubSeq(s, 1, j - i)
  BY <1>2, <1>3, <1>4, <1>7, Zenon DEF Upto
<1>9. /\ SubSeq(s, 1, j - i) = Bytes(c, i, j)
      /\ SubSeq(s, j - i + 1, l - i) = Bytes(c, j, l)
  <2>1. /\ SubSeq(Bytes(c, i, l), 1, j - i) = Bytes(c, i, j)
        /\ SubSeq(Bytes(c, i, l), j - i + 1, l - i) = Bytes(c, j, l)
    BY <1>7, BytesCut
  <2>. QED
    BY <1>1, <2>1
<1>10. SubSeq(s, n + 1, Len(s)) = Bytes(c, j, l)
  <2>1. CASE n =< k
    <3>1. n = j - i /\ Len(s) = l - i
      BY <1>2, <1>3, <1>5, <1>7, <2>1
    <3>. QED
      BY <1>9, <3>1, Zenon
  <2>2. CASE ~ (n =< k)
    <3>1. j = l /\ Len(s) < n + 1 /\ Len(s) \in Int /\ n + 1 \in Int
      BY <1>2, <1>3, <1>5, <1>7, <2>2
    <3>2. SubSeq(s, n + 1, Len(s)) = <<>>
      BY <3>1, SubSeqEmpty, Zenon
    <3>. QED
      BY <3>1, <3>2, NoBytes, Zenon
  <2>. QED
    BY <2>1, <2>2, Zenon
<1>. QED
  BY <1>1, <1>7, <1>8, <1>9, <1>10, Zenon DEF ReadAt

(* The same for a number of bytes that are there.                          *)
LEMMA BytesSplit ==
  ASSUME NEW c \in Clients, NEW i \in Nat, NEW l \in Nat, i =< l,
         NEW n \in 0 .. Len(Bytes(c, i, l))
  PROVE  \E j \in Nat :
           /\ i =< j /\ j =< l
           /\ SubSeq(Bytes(c, i, l), 1, n) = Bytes(c, i, j)
           /\ SubSeq(Bytes(c, i, l), n + 1, Len(Bytes(c, i, l))) = Bytes(c, j, l)
<1>1. Len(Bytes(c, i, l)) = l - i
  BY BytesKnown, Zenon
<1>2. PICK j \in Nat : j = i + n
  OBVIOUS
<1>3. i =< j /\ j =< l /\ n = j - i
  BY <1>1, <1>2
<1>4. /\ SubSeq(Bytes(c, i, l), 1, j - i) = Bytes(c, i, j)
      /\ SubSeq(Bytes(c, i, l), j - i + 1, l - i) = Bytes(c, j, l)
  BY <1>3, BytesCut
<1>. QED
  BY <1>1, <1>3, <1>4

-----------------------------------------------------------------------------
(* What the steps do to a connection's bytes.                              *)
LEMMA CarriedSame ==
  ASSUME NEW c, NEW r, NEW s, NEW h, NEW w, NEW v, Carried(c, r, h, w), v => w,
         s.sent = r.sent, s.echoed = r.echoed, s.unread = r.unread
  PROVE  Carried(c, s, h, v)
BY DEF Carried

(* What is known of a connection that loses nothing is known of one that   *)
(* may.                                                                    *)
LEMMA CarriedWhole ==
  ASSUME NEW c, NEW r, NEW h, NEW w, NEW v, Carried(c, r, h, w), v => w
  PROVE  Carried(c, r, h, v)
BY DEF Carried

(* A connection that ends keeps what came back, and may lose the rest.     *)
LEMMA CarriedEnds ==
  ASSUME NEW c, NEW r, NEW s, NEW h, NEW k, NEW w, NEW v, Carried(c, r, h, w), ~ v,
         s.sent = r.sent, s.echoed = r.echoed
  PROVE  Carried(c, s, k, v)
BY DEF Carried

(* Nothing is carried before the first byte.                               *)
LEMMA CarriedNone ==
  ASSUME NEW c \in Clients, NEW r, NEW w, r.sent = 0, r.echoed = <<>>, r.unread = <<>>
  PROVE  Carried(c, r, <<>>, w)
<1>1. Bytes(c, 0, 0) = <<>>
  BY NoBytes
<1>2. PICK i \in Nat : i = 0
  OBVIOUS
<1>3. i =< i /\ i =< r.sent /\ r.sent = i
  BY <1>2
<1>. QED
  BY <1>1, <1>2, <1>3, Zenon DEF Carried

(* A byte that arrives is the next of the client's, behind the unread      *)
(* ones.                                                                   *)
LEMMA CarriedSends ==
  ASSUME NEW c \in Clients, NEW r, NEW s, NEW h, NEW w, Carried(c, r, h, w), r.sent \in Nat,
         s.sent = r.sent + 1, s.echoed = r.echoed, s.unread = Append(r.unread, <<c, r.sent + 1>>)
  PROVE  Carried(c, s, h, w)
<1>1. PICK i \in Nat, j \in Nat :
        /\ i =< j /\ j =< r.sent
        /\ r.echoed = Bytes(c, 0, i)
        /\ w => h = Bytes(c, i, j) /\ r.unread = Bytes(c, j, r.sent)
  BY Zenon DEF Carried
<1>2. Append(Bytes(c, j, r.sent), <<c, r.sent + 1>>) = Bytes(c, j, r.sent + 1)
  BY <1>1, BytesAdd
<1>3. j =< s.sent
  BY <1>1
<1>4. w => s.unread = Bytes(c, j, s.sent)
  BY <1>1, <1>2, Zenon
<1>. QED
  BY <1>1, <1>3, <1>4, Zenon DEF Carried

(* A read moves the first unread bytes behind those in hand.               *)
LEMMA CarriedReads ==
  ASSUME NEW c \in Clients, NEW r, NEW s, NEW h, NEW w, NEW n \in Nat, Carried(c, r, h, w),
         r.sent \in Nat, s.sent = r.sent, s.echoed = r.echoed,
         s.unread = SubSeq(r.unread, n + 1, Len(r.unread))
  PROVE  /\ Carried(c, s, h \o Upto(n, r.unread), w)
         /\ h = <<>> => Carried(c, s, Upto(n, r.unread), w)
<1>1. PICK i \in Nat, j \in Nat :
        /\ i =< j /\ j =< r.sent
        /\ r.echoed = Bytes(c, 0, i)
        /\ w => h = Bytes(c, i, j) /\ r.unread = Bytes(c, j, r.sent)
  BY Zenon DEF Carried
<1>2. CASE ~ w
  BY <1>1, <1>2, Zenon DEF Carried
<1>3. CASE w
  <2>1. PICK k \in Nat :
          /\ j =< k /\ k =< r.sent
          /\ Upto(n, Bytes(c, j, r.sent)) = Bytes(c, j, k)
          /\ SubSeq(Bytes(c, j, r.sent), n + 1, Len(Bytes(c, j, r.sent))) = Bytes(c, k, r.sent)
    <3>1. PICK l \in Nat : l = r.sent
      OBVIOUS
    <3>2. j \in Nat /\ l \in Nat /\ j =< l
      BY <1>1, <3>1, Zenon
    <3>3. \E k \in Nat : ReadAt(c, j, l, n, k)
      BY <3>2, BytesRead, Zenon
    <3>. QED
      BY <3>1, <3>3, Zenon DEF ReadAt
  <2>2. i =< k
    BY <1>1, <2>1
  <2>3. h \o Upto(n, r.unread) = Bytes(c, i, k)
    <3>1. Bytes(c, i, j) \o Bytes(c, j, k) = Bytes(c, i, k)
      BY <1>1, <2>1, BytesJoin
    <3>. QED
      BY <1>1, <1>3, <2>1, <3>1
  <2>4. h = <<>> => Upto(n, r.unread) = Bytes(c, i, k)
    <3>1. h = <<>> => i = j
      <4>1. Bytes(c, i, j) = <<>> <=> i = j
        BY <1>1, BytesOfNone
      <4>. QED
        BY <1>1, <1>3, <4>1
    <3>. QED
      BY <1>1, <1>3, <2>1, <3>1, Zenon
  <2>5. s.unread = Bytes(c, k, s.sent)
    BY <1>1, <1>3, <2>1, Zenon
  <2>. QED
    BY <1>1, <2>1, <2>2, <2>3, <2>4, <2>5, Zenon DEF Carried
<1>. QED
  BY <1>2, <1>3

(* All that is unread is taken.                                            *)
LEMMA CarriedTakes ==
  ASSUME NEW c \in Clients, NEW r, NEW s, NEW w, Carried(c, r, <<>>, w),
         r.sent \in Nat, s.sent = r.sent, s.echoed = r.echoed, s.unread = <<>>
  PROVE  Carried(c, s, r.unread, w)
<1>1. PICK i \in Nat, j \in Nat :
        /\ i =< j /\ j =< r.sent
        /\ r.echoed = Bytes(c, 0, i)
        /\ w => <<>> = Bytes(c, i, j) /\ r.unread = Bytes(c, j, r.sent)
  BY Zenon DEF Carried
<1>2. w => i = j
  <2>1. Bytes(c, i, j) = <<>> <=> i = j
    BY <1>1, BytesOfNone
  <2>. QED
    BY <1>1, <2>1, Zenon
<1>3. Bytes(c, r.sent, r.sent) = <<>> /\ r.sent =< r.sent /\ i =< r.sent
  BY <1>1, NoBytes
<1>4. w => r.unread = Bytes(c, i, r.sent) /\ s.unread = Bytes(c, r.sent, s.sent)
  BY <1>1, <1>2, <1>3
<1>. QED
  BY <1>1, <1>3, <1>4 DEF Carried

(* A write moves the first bytes in hand behind those that came back.      *)
LEMMA CarriedWrites ==
  ASSUME NEW c \in Clients, NEW r, NEW s, NEW h, NEW w, NEW n \in Nat, Carried(c, r, h, TRUE),
         r.sent \in Nat, s.sent = r.sent, s.unread = r.unread,
         \/ s.echoed = r.echoed \o Upto(n, h)
         \/ n \in 0 .. Len(h) /\ s.echoed = r.echoed \o SubSeq(h, 1, n)
  PROVE  Carried(c, s, SubSeq(h, n + 1, Len(h)), w)
<1>1. PICK i \in Nat, j \in Nat :
        /\ i =< j /\ j =< r.sent
        /\ r.echoed = Bytes(c, 0, i)
        /\ h = Bytes(c, i, j) /\ r.unread = Bytes(c, j, r.sent)
  BY Zenon DEF Carried
<1>2. \E k \in Nat : /\ i =< k /\ k =< j
                     /\ s.echoed = r.echoed \o Bytes(c, i, k)
                     /\ SubSeq(h, n + 1, Len(h)) = Bytes(c, k, j)
  <2>1. CASE s.echoed = r.echoed \o Upto(n, h)
    <3>1. PICK k \in Nat :
            /\ i =< k /\ k =< j
            /\ Upto(n, Bytes(c, i, j)) = Bytes(c, i, k)
            /\ SubSeq(Bytes(c, i, j), n + 1, Len(Bytes(c, i, j))) = Bytes(c, k, j)
      <4>1. i \in Nat /\ j \in Nat /\ i =< j
        BY <1>1, Zenon
      <4>2. \E k \in Nat : ReadAt(c, i, j, n, k)
        BY <4>1, BytesRead, Zenon
      <4>. QED
        BY <4>2, Zenon DEF ReadAt
    <3>. QED
      BY <1>1, <2>1, <3>1, Zenon
  <2>2. CASE n \in 0 .. Len(h) /\ s.echoed = r.echoed \o SubSeq(h, 1, n)
    <3>1. n \in 0 .. Len(Bytes(c, i, j))
      BY <1>1, <2>2
    <3>2. PICK k \in Nat :
            /\ i =< k /\ k =< j
            /\ SubSeq(Bytes(c, i, j), 1, n) = Bytes(c, i, k)
            /\ SubSeq(Bytes(c, i, j), n + 1, Len(Bytes(c, i, j))) = Bytes(c, k, j)
      BY <1>1, <3>1, BytesSplit
    <3>. QED
      BY <1>1, <2>2, <3>2, Zenon
  <2>. QED
    BY <2>1, <2>2
<1>3. PICK k \in Nat : /\ i =< k /\ k =< j
                       /\ s.echoed = r.echoed \o Bytes(c, i, k)
                       /\ SubSeq(h, n + 1, Len(h)) = Bytes(c, k, j)
  BY <1>2, Zenon
<1>4. 0 \in Nat /\ 0 =< i
  OBVIOUS
<1>5. Bytes(c, 0, i) \o Bytes(c, i, k) = Bytes(c, 0, k)
  BY <1>3, <1>4, BytesJoin, Zenon
<1>. QED
  BY <1>1, <1>3, <1>5, Zenon DEF Carried

(* All that is in hand is written.                                         *)
LEMMA CarriedGives ==
  ASSUME NEW c \in Clients, NEW r, NEW s, NEW h, NEW w, Carried(c, r, h, TRUE),
         r.sent \in Nat, s.sent = r.sent, s.unread = r.unread, s.echoed = r.echoed \o h
  PROVE  Carried(c, s, <<>>, w)
<1>1. PICK i \in Nat, j \in Nat :
        /\ i =< j /\ j =< r.sent
        /\ r.echoed = Bytes(c, 0, i)
        /\ h = Bytes(c, i, j) /\ r.unread = Bytes(c, j, r.sent)
  BY Zenon DEF Carried
<1>2. 0 \in Nat /\ 0 =< i /\ j =< j
  OBVIOUS
<1>3. Bytes(c, 0, i) \o Bytes(c, i, j) = Bytes(c, 0, j) /\ Bytes(c, j, j) = <<>>
  BY <1>1, <1>2, BytesJoin, NoBytes, Zenon
<1>. QED
  BY <1>1, <1>2, <1>3, Zenon DEF Carried

(* Read and given back, or printed, in one step.                           *)
LEMMA CarriedEchoes ==
  ASSUME NEW c \in Clients, NEW r, NEW s, NEW w, NEW n \in Nat, Carried(c, r, <<>>, TRUE),
         r.sent \in Nat, s.sent = r.sent,
         s.echoed = r.echoed \o Upto(n, r.unread),
         s.unread = SubSeq(r.unread, n + 1, Len(r.unread))
  PROVE  Carried(c, s, <<>>, w)
<1>1. PICK i \in Nat, j \in Nat :
        /\ i =< j /\ j =< r.sent
        /\ r.echoed = Bytes(c, 0, i)
        /\ <<>> = Bytes(c, i, j) /\ r.unread = Bytes(c, j, r.sent)
  BY Zenon DEF Carried
<1>2. i = j
  BY <1>1, BytesOfNone, Zenon
<1>3. PICK k \in Nat :
        /\ j =< k /\ k =< r.sent
        /\ Upto(n, Bytes(c, j, r.sent)) = Bytes(c, j, k)
        /\ SubSeq(Bytes(c, j, r.sent), n + 1, Len(Bytes(c, j, r.sent))) = Bytes(c, k, r.sent)
  <2>1. PICK l \in Nat : l = r.sent
    OBVIOUS
  <2>2. j \in Nat /\ l \in Nat /\ j =< l
    BY <1>1, <2>1, Zenon
  <2>3. \E k \in Nat : ReadAt(c, j, l, n, k)
    BY <2>2, BytesRead, Zenon
  <2>. QED
    BY <2>1, <2>3, Zenon DEF ReadAt
<1>4. 0 \in Nat /\ 0 =< j /\ k =< k
  OBVIOUS
<1>5. Bytes(c, 0, j) \o Bytes(c, j, k) = Bytes(c, 0, k) /\ Bytes(c, k, k) = <<>>
  BY <1>3, <1>4, BytesJoin, NoBytes, Zenon
<1>6. s.echoed = Bytes(c, 0, k) /\ s.unread = Bytes(c, k, s.sent) /\ k =< s.sent
  BY <1>1, <1>2, <1>3, <1>5, Zenon
<1>. QED
  BY <1>4, <1>5, <1>6, Zenon DEF Carried

(* What the property says of a connection.                                 *)
LEMMA CarriedExactly ==
  ASSUME NEW c \in Clients, NEW r, NEW h, NEW w, Carried(c, r, h, w), r.sent \in Nat,
         NEW sent, sent = [i \in 1 .. r.sent |-> <<c, i>>]
  PROVE  /\ IsPrefix(r.echoed, sent)
         /\ w => r.echoed \o h \o r.unread = sent
<1>1. PICK i \in Nat, j \in Nat :
        /\ i =< j /\ j =< r.sent
        /\ r.echoed = Bytes(c, 0, i)
        /\ w => h = Bytes(c, i, j) /\ r.unread = Bytes(c, j, r.sent)
  BY Zenon DEF Carried
<1>2. sent = Bytes(c, 0, r.sent)
  <2>1. sent \in Seq(Clients \X Nat) /\ Len(sent) = r.sent - 0
        /\ \A k \in 1 .. r.sent - 0 : sent[k] = <<c, 0 + k>>
    OBVIOUS
  <2>. QED
    BY <2>1, BytesAre
<1>3. 0 \in Nat /\ 0 =< i /\ 0 =< j /\ i =< r.sent /\ 0 =< r.sent
  BY <1>1
<1>4. IsPrefix(r.echoed, sent)
  <2>1. SubSeq(sent, 1, i - 0) = Bytes(c, 0, i)
    <3>1. SubSeq(Bytes(c, 0, r.sent), 1, i - 0) = Bytes(c, 0, i)
      BY <1>3, BytesCut
    <3>. QED
      BY <1>2, <3>1
  <2>2. SubSeq(Bytes(c, 0, i), 1, i - 0) = Bytes(c, 0, i)
    BY <1>3, BytesCut
  <2>3. Len(Bytes(c, 0, i)) = i - 0 /\ Len(sent) = r.sent - 0
    <3>1. Len(Bytes(c, 0, i)) = i - 0 /\ Len(Bytes(c, 0, r.sent)) = r.sent - 0
      BY <1>3, BytesKnown
    <3>. QED
      BY <1>2, <3>1
  <2>4. i - 0 =< r.sent - 0
    BY <1>3
  <2>. QED
    BY <1>1, <2>1, <2>2, <2>3, <2>4, Zenon DEF IsPrefix
<1>5. ASSUME w
      PROVE  r.echoed \o h \o r.unread = sent
  <2>1. Bytes(c, 0, i) \o Bytes(c, i, j) = Bytes(c, 0, j)
    BY <1>1, <1>3, BytesJoin, Zenon
  <2>2. Bytes(c, 0, j) \o Bytes(c, j, r.sent) = Bytes(c, 0, r.sent)
    BY <1>1, <1>3, BytesJoin, Zenon
  <2>. QED
    BY <1>1, <1>2, <1>5, <2>1, <2>2, Zenon
<1>. QED
  BY <1>4, <1>5, Zenon

-----------------------------------------------------------------------------
(* What the steps do to the connections.                                   *)
Kept(c, hand) == Carried(c, conn[c], hand, conn[c].stage # "closed")

(* Only the stage of a connection changes.                                 *)
LEMMA StageSet ==
  ASSUME conn \in [Clients -> Connection(Clients \X Nat)], NEW c \in Clients,
         NEW stage \in {"none", "pending", "open", "closed"},
         conn' = [conn EXCEPT ![c].stage = stage]
  PROVE  \E r \in Connection(Clients \X Nat) :
           /\ conn' = [conn EXCEPT ![c] = r]
           /\ r.stage = stage /\ r.sent = conn[c].sent /\ r.unread = conn[c].unread
           /\ r.echoed = conn[c].echoed /\ r.fin = conn[c].fin /\ r.reset = conn[c].reset
<1>1. conn[c] \in Connection(Clients \X Nat)
  OBVIOUS
<1>2. PICK r : r = [conn[c] EXCEPT !.stage = stage]
  OBVIOUS
<1>3. /\ r \in Connection(Clients \X Nat)
      /\ r.stage = stage /\ r.sent = conn[c].sent /\ r.unread = conn[c].unread
      /\ r.echoed = conn[c].echoed /\ r.fin = conn[c].fin /\ r.reset = conn[c].reset
  BY <1>1, <1>2, Zenon DEF Connection
<1>. QED
  BY <1>2, <1>3, Zenon

(* A connection that is closed loses what was not read.                    *)
LEMMA StageEnds ==
  ASSUME conn \in [Clients -> Connection(Clients \X Nat)], NEW c \in Clients,
         conn' = [conn EXCEPT ![c].stage = "closed", ![c].unread = <<>>]
  PROVE  \E r \in Connection(Clients \X Nat) :
           /\ conn' = [conn EXCEPT ![c] = r]
           /\ r.stage = "closed" /\ r.sent = conn[c].sent /\ r.echoed = conn[c].echoed
<1>1. conn[c] \in Connection(Clients \X Nat) /\ <<>> \in Seq(Clients \X Nat)
  OBVIOUS
<1>2. PICK r1 : r1 = [conn[c] EXCEPT !.stage = "closed"]
  BY Zenon
<1>3. PICK r : r = [r1 EXCEPT !.unread = <<>>]
  BY Zenon
<1>4. /\ r1 \in Connection(Clients \X Nat) /\ r1.stage = "closed"
      /\ r1.sent = conn[c].sent /\ r1.echoed = conn[c].echoed
  BY <1>1, <1>2, Zenon DEF Connection
<1>5. /\ r \in Connection(Clients \X Nat) /\ r.stage = "closed"
      /\ r.sent = conn[c].sent /\ r.echoed = conn[c].echoed
  BY <1>1, <1>3, <1>4, Zenon DEF Connection
<1>6. conn' = [conn EXCEPT ![c] = r]
  BY <1>1, <1>2, <1>3 DEF Connection
<1>. QED
  BY <1>5, <1>6, Zenon

(* The descriptors of a set are closed.                                    *)
LEMMA CloseEnds ==
  ASSUME conn \in [Clients -> Connection(Clients \X Nat)], NEW C \in SUBSET Fds, CloseFds(C),
         NEW c \in Clients
  PROVE  \/ conn'[c] = conn[c]
         \/ conn'[c].stage = "closed" /\ conn'[c].sent = conn[c].sent /\ conn'[c].echoed = conn[c].echoed
<1>1. PICK r : r = [[conn[c] EXCEPT !.stage = "closed"] EXCEPT !.unread = <<>>]
  OBVIOUS
<1>2. conn'[c] = IF \E f \in C : fds[f] = c THEN r ELSE conn[c]
  BY <1>1 DEF CloseFds
<1>3. conn[c] \in Connection(Clients \X Nat)
  OBVIOUS
<1>4. r.stage = "closed" /\ r.sent = conn[c].sent /\ r.echoed = conn[c].echoed
  BY <1>1, <1>3 DEF Connection
<1>. QED
  BY <1>2, <1>4

(* What arrives is unread.                                                 *)
LEMMA ArrivesUnread ==
  ASSUME conn \in [Clients -> Connection(Clients \X Nat)], NEW c \in Clients,
         Connects(c) \/ Arrives(c)
  PROVE  \E r \in Connection(Clients \X Nat) :
           /\ conn' = [conn EXCEPT ![c] = r]
           /\ r.stage # "closed" /\ conn[c].stage # "closed"
           /\ r.stage = "open" <=> conn[c].stage = "open"
           /\ conn[c].reset => r.reset
           /\ \A h, w : Carried(c, conn[c], h, w) => Carried(c, r, h, w)
<1>0. conn[c] \in Connection(Clients \X Nat) /\ conn[c].sent \in Nat
  BY DEF Connection
<1>1. CASE Connects(c)
  <2>1. conn' = [conn EXCEPT ![c].stage = "pending"] /\ conn[c].stage = "none"
    BY <1>1 DEF Connects
  <2>2. PICK r \in Connection(Clients \X Nat) :
          /\ conn' = [conn EXCEPT ![c] = r]
          /\ r.stage = "pending" /\ r.sent = conn[c].sent /\ r.unread = conn[c].unread
          /\ r.echoed = conn[c].echoed /\ r.fin = conn[c].fin /\ r.reset = conn[c].reset
    BY <2>1, StageSet
  <2>3. \A h, w : Carried(c, conn[c], h, w) => Carried(c, r, h, w)
    BY <2>2, CarriedSame, Zenon
  <2>. QED
    BY <2>1, <2>2, <2>3
<1>2. CASE Sends(c)
  <2>1. Append(conn[c].unread, <<c, conn[c].sent + 1>>) \in Seq(Clients \X Nat) /\ conn[c].sent + 1 \in Nat
    BY <1>0 DEF Connection
  <2>2. PICK r1 : r1 = [conn[c] EXCEPT !.sent = conn[c].sent + 1]
    BY Zenon
  <2>3. PICK r : r = [r1 EXCEPT !.unread = Append(conn[c].unread, <<c, conn[c].sent + 1>>)]
    BY Zenon
  <2>4. /\ r1 \in Connection(Clients \X Nat) /\ r1.sent = conn[c].sent + 1
        /\ r1.stage = conn[c].stage /\ r1.echoed = conn[c].echoed /\ r1.reset = conn[c].reset
    BY <1>0, <2>1, <2>2, Zenon DEF Connection
  <2>5. /\ r \in Connection(Clients \X Nat) /\ r.sent = conn[c].sent + 1
        /\ r.stage = conn[c].stage /\ r.echoed = conn[c].echoed /\ r.reset = conn[c].reset
        /\ r.unread = Append(conn[c].unread, <<c, conn[c].sent + 1>>)
    BY <2>1, <2>3, <2>4, Zenon DEF Connection
  <2>6. conn' = [conn EXCEPT ![c] = r]
    BY <1>2, <1>0, <2>2, <2>3 DEF Sends, Connection
  <2>7. conn[c].stage \in {"pending", "open"}
    BY <1>2 DEF Sends, Alive
  <2>8. \A h, w : Carried(c, conn[c], h, w) => Carried(c, r, h, w)
    BY <1>0, <2>5, CarriedSends, Zenon
  <2>. QED
    BY <2>5, <2>6, <2>7, <2>8
<1>3. CASE ShutsDown(c)
  <2>1. PICK r : r = [conn[c] EXCEPT !.fin = TRUE]
    BY Zenon
  <2>2. /\ r \in Connection(Clients \X Nat) /\ r.stage = conn[c].stage /\ r.sent = conn[c].sent
        /\ r.unread = conn[c].unread /\ r.echoed = conn[c].echoed /\ r.reset = conn[c].reset
    BY <1>0, <2>1, Zenon DEF Connection
  <2>3. conn' = [conn EXCEPT ![c] = r] /\ conn[c].stage \in {"pending", "open"}
    BY <1>3, <2>1 DEF ShutsDown, Alive
  <2>4. \A h, w : Carried(c, conn[c], h, w) => Carried(c, r, h, w)
    BY <2>2, CarriedSame, Zenon
  <2>. QED
    BY <2>2, <2>3, <2>4
<1>4. CASE Resets(c)
  <2>1. PICK r : r = [conn[c] EXCEPT !.reset = TRUE]
    BY Zenon
  <2>2. /\ r \in Connection(Clients \X Nat) /\ r.stage = conn[c].stage /\ r.sent = conn[c].sent
        /\ r.unread = conn[c].unread /\ r.echoed = conn[c].echoed /\ r.reset
    BY <1>0, <2>1, Zenon DEF Connection
  <2>3. conn' = [conn EXCEPT ![c] = r] /\ conn[c].stage \in {"pending", "open"}
    BY <1>4, <2>1 DEF Resets, Alive
  <2>4. \A h, w : Carried(c, conn[c], h, w) => Carried(c, r, h, w)
    BY <2>2, CarriedSame, Zenon
  <2>. QED
    BY <2>2, <2>3, <2>4
<1>. QED
  BY <1>1, <1>2, <1>3, <1>4 DEF Arrives

(* Before the first client.                                                *)
LEMMA NothingSent ==
  ASSUME NEW c \in Clients, NEW r, r = NoConn \/ r = [NoConn EXCEPT !.stage = "open"], NEW w
  PROVE  Carried(c, r, <<>>, w)
<1>1. r.sent = 0 /\ r.echoed = <<>> /\ r.unread = <<>>
  BY DEF NoConn
<1>. QED
  BY <1>1, CarriedNone

-----------------------------------------------------------------------------
(* The servers that have nothing in hand between two steps.                *)
AllKept == \A c \in Clients : Kept(c, <<>>)

(* A connection is accepted; one is closed, with what was not read.        *)
Opened(c) == conn[c].stage = "pending" /\ conn' = [conn EXCEPT ![c].stage = "open"]

Ended(c) ==
  \/ conn' = [conn EXCEPT ![c].stage = "closed", ![c].unread = <<>>]
  \/ conn' = [conn EXCEPT ![c].stage = "closed"]

(* accept and its failure, as changes of the connection.                   *)
LEMMA OpenedEnded ==
  ASSUME NEW c \in Clients
  PROVE  (Accepts(c) => Opened(c)) /\ (Refuses(c) => Ended(c))
BY DEF Accepts, Pending, Opened, Refuses, Ended

(* A step that neither reads nor writes: what was known stays known, and   *)
(* of a connection that ends, whatever was in hand.                        *)
LEMMA KeptThrough ==
  ASSUME conn \in [Clients -> Connection(Clients \X Nat)],
         \/ \E c \in Clients : Opened(c) \/ Ended(c) \/ Connects(c) \/ Arrives(c)
         \/ \E C \in SUBSET Fds : CloseFds(C),
         NEW d \in Clients, NEW h, Kept(d, h)
  PROVE  /\ Carried(d, conn'[d], h, conn'[d].stage # "closed")
         /\ conn'[d] # conn[d] /\ conn'[d].stage = "closed" =>
              \A k : Carried(d, conn'[d], k, conn'[d].stage # "closed")
<1>0. /\ conn[d] \in Connection(Clients \X Nat)
      /\ Carried(d, conn[d], h, conn[d].stage # "closed")
  BY DEF Kept
<1>1. ASSUME conn'[d] = conn[d]
      PROVE  Carried(d, conn'[d], h, conn'[d].stage # "closed")
  BY <1>0, <1>1, Zenon
<1>2. ASSUME conn'[d].stage = "closed", conn'[d].sent = conn[d].sent, conn'[d].echoed = conn[d].echoed,
             NEW k
      PROVE  Carried(d, conn'[d], k, conn'[d].stage # "closed")
  <2>1. ~ (conn'[d].stage # "closed")
    BY <1>2
  <2>. QED
    BY <1>0, <1>2, <2>1, CarriedEnds, Zenon
<1>3. ASSUME NEW c \in Clients, Opened(c)
      PROVE  Carried(d, conn'[d], h, conn'[d].stage # "closed") /\ (conn'[d] = conn[d] \/ conn'[d].stage = "open")
  <2>1. conn' = [conn EXCEPT ![c].stage = "open"] /\ conn[c].stage = "pending"
    BY <1>3 DEF Opened
  <2>2. \E r \in Connection(Clients \X Nat) :
          /\ conn' = [conn EXCEPT ![c] = r]
          /\ r.stage = "open" /\ r.sent = conn[c].sent /\ r.unread = conn[c].unread
          /\ r.echoed = conn[c].echoed /\ r.fin = conn[c].fin /\ r.reset = conn[c].reset
    BY <2>1, StageSet, Zenon
  <2>3. PICK r \in Connection(Clients \X Nat) :
          /\ conn' = [conn EXCEPT ![c] = r]
          /\ r.stage = "open" /\ r.sent = conn[c].sent /\ r.unread = conn[c].unread
          /\ r.echoed = conn[c].echoed
    BY <2>2, Zenon
  <2>4. CASE d # c
    <3>1. conn'[d] = conn[d]
      BY <2>3, <2>4
    <3>. QED
      BY <1>1, <3>1
  <2>5. CASE d = c
    <3>1. conn'[d] = r /\ conn[d].stage # "closed"
      BY <2>1, <2>3, <2>5
    <3>2. /\ conn'[d].sent = conn[d].sent /\ conn'[d].echoed = conn[d].echoed
          /\ conn'[d].unread = conn[d].unread /\ conn'[d].stage = "open"
      BY <2>3, <2>5, <3>1
    <3>3. (conn'[d].stage # "closed") => (conn[d].stage # "closed")
      BY <3>1
    <3>4. Carried(d, conn'[d], h, conn'[d].stage # "closed")
      BY <1>0, <3>2, <3>3, CarriedSame, Zenon
    <3>. QED
      BY <3>2, <3>4
  <2>. QED
    BY <2>4, <2>5
<1>4. ASSUME NEW c \in Clients, Ended(c)
      PROVE  \/ conn'[d] = conn[d]
             \/ conn'[d].stage = "closed" /\ conn'[d].sent = conn[d].sent /\ conn'[d].echoed = conn[d].echoed
  <2>1. CASE conn' = [conn EXCEPT ![c].stage = "closed", ![c].unread = <<>>]
    <3>1. PICK r \in Connection(Clients \X Nat) :
            /\ conn' = [conn EXCEPT ![c] = r]
            /\ r.stage = "closed" /\ r.sent = conn[c].sent /\ r.echoed = conn[c].echoed
      BY <2>1, StageEnds
    <3>. QED
      BY <3>1
  <2>2. CASE conn' = [conn EXCEPT ![c].stage = "closed"]
    <3>1. \E r \in Connection(Clients \X Nat) :
            /\ conn' = [conn EXCEPT ![c] = r]
            /\ r.stage = "closed" /\ r.sent = conn[c].sent /\ r.unread = conn[c].unread
            /\ r.echoed = conn[c].echoed /\ r.fin = conn[c].fin /\ r.reset = conn[c].reset
      BY <2>2, StageSet, Zenon
    <3>2. PICK r \in Connection(Clients \X Nat) :
            /\ conn' = [conn EXCEPT ![c] = r]
            /\ r.stage = "closed" /\ r.sent = conn[c].sent /\ r.echoed = conn[c].echoed
      BY <3>1, Zenon
    <3>. QED
      BY <3>2
  <2>. QED
    BY <1>4, <2>1, <2>2 DEF Ended
<1>5. ASSUME NEW c \in Clients, Connects(c) \/ Arrives(c)
      PROVE  Carried(d, conn'[d], h, conn'[d].stage # "closed") /\ (conn'[d] = conn[d] \/ conn'[d].stage # "closed")
  <2>1. PICK r \in Connection(Clients \X Nat) :
          /\ conn' = [conn EXCEPT ![c] = r]
          /\ r.stage # "closed" /\ conn[c].stage # "closed"
          /\ \A g, w : Carried(c, conn[c], g, w) => Carried(c, r, g, w)
    <3>a. \E r \in Connection(Clients \X Nat) :
           /\ conn' = [conn EXCEPT ![c] = r]
           /\ r.stage # "closed" /\ conn[c].stage # "closed"
           /\ r.stage = "open" <=> conn[c].stage = "open"
           /\ conn[c].reset => r.reset
           /\ \A g, w : Carried(c, conn[c], g, w) => Carried(c, r, g, w)
      BY <1>5, ArrivesUnread, Zenon
    <3>. QED
      BY <3>a, Zenon
  <2>2. CASE d # c
    <3>1. conn'[d] = conn[d]
      BY <2>1, <2>2
    <3>. QED
      BY <1>1, <3>1
  <2>3. CASE d = c
    <3>1. conn'[d] = r /\ r.stage # "closed" /\ conn[d].stage # "closed"
      BY <2>1, <2>3
    <3>2. Carried(d, r, h, conn[d].stage # "closed")
      BY <1>0, <2>1, <2>3, Zenon
    <3>3. (r.stage # "closed") => (conn[d].stage # "closed")
      BY <3>1
    <3>4. Carried(d, r, h, r.stage # "closed")
      BY <3>2, <3>3, CarriedWhole, Zenon
    <3>. QED
      BY <3>1, <3>4, Zenon
  <2>. QED
    BY <2>2, <2>3
<1>6. ASSUME NEW C \in SUBSET Fds, CloseFds(C)
      PROVE  \/ conn'[d] = conn[d]
             \/ conn'[d].stage = "closed" /\ conn'[d].sent = conn[d].sent /\ conn'[d].echoed = conn[d].echoed
  BY <1>6, CloseEnds
<1>7. CASE \E c \in Clients : Opened(c) \/ Connects(c) \/ Arrives(c)
  <2>1. conn'[d] = conn[d] \/ conn'[d].stage # "closed"
    BY <1>3, <1>5, <1>7
  <2>2. Carried(d, conn'[d], h, conn'[d].stage # "closed")
    BY <1>3, <1>5, <1>7
  <2>. QED
    BY <2>1, <2>2, Zenon
<1>8. CASE (\E c \in Clients : Ended(c)) \/ (\E C \in SUBSET Fds : CloseFds(C))
  <2>1. \/ conn'[d] = conn[d]
        \/ conn'[d].stage = "closed" /\ conn'[d].sent = conn[d].sent /\ conn'[d].echoed = conn[d].echoed
    BY <1>4, <1>6, <1>8
  <2>. QED
    BY <1>1, <1>2, <2>1, Zenon
<1>. QED
  BY <1>7, <1>8, Zenon

(* Such a step on one connection leaves a connection, and the others.      *)
LEMMA StepTyped ==
  ASSUME conn \in [Clients -> Connection(Clients \X Nat)], NEW c \in Clients,
         Opened(c) \/ Ended(c) \/ Connects(c) \/ Arrives(c)
  PROVE  /\ conn' \in [Clients -> Connection(Clients \X Nat)]
         /\ \A d \in Clients \ {c} : conn'[d] = conn[d]
<1>1. \E r \in Connection(Clients \X Nat) : conn' = [conn EXCEPT ![c] = r]
  <2>1. CASE Connects(c) \/ Arrives(c)
    <3>1. \E r \in Connection(Clients \X Nat) :
           /\ conn' = [conn EXCEPT ![c] = r]
           /\ r.stage # "closed" /\ conn[c].stage # "closed"
           /\ r.stage = "open" <=> conn[c].stage = "open"
           /\ conn[c].reset => r.reset
           /\ \A h, w : Carried(c, conn[c], h, w) => Carried(c, r, h, w)
      BY <2>1, ArrivesUnread, Zenon
    <3>. QED
      BY <3>1, Zenon
  <2>2. CASE conn' = [conn EXCEPT ![c].stage = "closed", ![c].unread = <<>>]
    <3>1. \E r \in Connection(Clients \X Nat) :
            /\ conn' = [conn EXCEPT ![c] = r]
            /\ r.stage = "closed" /\ r.sent = conn[c].sent /\ r.echoed = conn[c].echoed
      BY <2>2, StageEnds, Zenon
    <3>. QED
      BY <3>1, Zenon
  <2>3. CASE conn' = [conn EXCEPT ![c].stage = "open"]
    <3>1. \E r \in Connection(Clients \X Nat) :
            /\ conn' = [conn EXCEPT ![c] = r]
            /\ r.stage = "open" /\ r.sent = conn[c].sent /\ r.unread = conn[c].unread
            /\ r.echoed = conn[c].echoed /\ r.fin = conn[c].fin /\ r.reset = conn[c].reset
      BY <2>3, StageSet, Zenon
    <3>. QED
      BY <3>1, Zenon
  <2>4. CASE conn' = [conn EXCEPT ![c].stage = "closed"]
    <3>1. \E r \in Connection(Clients \X Nat) :
            /\ conn' = [conn EXCEPT ![c] = r]
            /\ r.stage = "closed" /\ r.sent = conn[c].sent /\ r.unread = conn[c].unread
            /\ r.echoed = conn[c].echoed /\ r.fin = conn[c].fin /\ r.reset = conn[c].reset
      BY <2>4, StageSet, Zenon
    <3>. QED
      BY <3>1, Zenon
  <2>. QED
    BY <2>1, <2>2, <2>3, <2>4 DEF Opened, Ended
<1>. QED
  BY <1>1

(* What a read takes, and what it leaves.                                  *)
LEMMA UptoTyped ==
  ASSUME NEW s \in Seq(Clients \X Nat), NEW n \in Nat
  PROVE  Upto(n, s) \in Seq(Clients \X Nat) /\ SubSeq(s, n + 1, Len(s)) \in Seq(Clients \X Nat)
BY UptoRest

(* Bytes of clients joined are bytes of clients.                           *)
LEMMA JoinTyped ==
  ASSUME NEW s \in Seq(Clients \X Nat), NEW t \in Seq(Clients \X Nat)
  PROVE  s \o t \in Seq(Clients \X Nat)
OBVIOUS

(* A read whose echo is done at once leaves nothing in hand.               *)
LEMMA KeptEchoes ==
  ASSUME conn \in [Clients -> Connection(Clients \X Nat)], NEW c \in Clients, NEW n \in Nat,
         Echoes(c, n), conn[c].stage # "closed", Kept(c, <<>>)
  PROVE  \E r \in Connection(Clients \X Nat) :
           /\ conn' = [conn EXCEPT ![c] = r]
           /\ r.stage = conn[c].stage /\ r.reset = conn[c].reset
           /\ Carried(c, r, <<>>, r.stage # "closed")
<1>1. \E r \in Connection(Clients \X Nat) :
        /\ conn' = [conn EXCEPT ![c] = r]
        /\ r.stage = conn[c].stage /\ r.sent = conn[c].sent
        /\ r.fin = conn[c].fin /\ r.reset = conn[c].reset
        /\ r.echoed = conn[c].echoed \o Upto(n, conn[c].unread)
        /\ r.unread = SubSeq(conn[c].unread, n + 1, Len(conn[c].unread))
  BY EchoesTyped, Zenon
<1>2. PICK r \in Connection(Clients \X Nat) :
        /\ conn' = [conn EXCEPT ![c] = r]
        /\ r.stage = conn[c].stage /\ r.reset = conn[c].reset /\ r.sent = conn[c].sent
        /\ r.echoed = conn[c].echoed \o Upto(n, conn[c].unread)
        /\ r.unread = SubSeq(conn[c].unread, n + 1, Len(conn[c].unread))
  BY <1>1, Zenon
<1>3. Carried(c, conn[c], <<>>, TRUE)
  BY DEF Kept, Carried
<1>4. conn[c].sent \in Nat
  <2>1. conn[c] \in Connection(Clients \X Nat)
    OBVIOUS
  <2>. QED
    BY <2>1 DEF Connection
<1>5. Carried(c, r, <<>>, r.stage # "closed")
  BY <1>2, <1>3, <1>4, CarriedEchoes, Zenon
<1>. QED
  BY <1>2, <1>5, Zenon

(* A server that writes all it reads in one step keeps nothing in hand and *)
(* loses nothing.                                                          *)
LEMMA AllKeptNext ==
  ASSUME conn \in [Clients -> Connection(Clients \X Nat)], AllKept,
         \/ UNCHANGED conn
         \/ \E c \in Clients : Opened(c) \/ Ended(c) \/ Connects(c) \/ Arrives(c)
         \/ \E C \in SUBSET Fds : CloseFds(C)
         \/ \E c \in Clients, n \in Nat : Echoes(c, n) /\ conn[c].stage # "closed"
  PROVE  AllKept'
<1>1. CASE UNCHANGED conn
  BY <1>1 DEF AllKept, Kept
<1>2. CASE \/ \E c \in Clients : Opened(c) \/ Ended(c) \/ Connects(c) \/ Arrives(c)
           \/ \E C \in SUBSET Fds : CloseFds(C)
  <2>1. \A d \in Clients : Carried(d, conn'[d], <<>>, conn'[d].stage # "closed")
    BY <1>2, KeptThrough, Zenon DEF AllKept
  <2>. QED
    BY <2>1 DEF AllKept, Kept
<1>3. ASSUME NEW c \in Clients, NEW n \in Nat, Echoes(c, n), conn[c].stage # "closed"
      PROVE  AllKept'
  <2>0. Kept(c, <<>>)
    BY DEF AllKept
  <2>1. \E r \in Connection(Clients \X Nat) :
           /\ conn' = [conn EXCEPT ![c] = r]
           /\ r.stage = conn[c].stage /\ r.reset = conn[c].reset
           /\ Carried(c, r, <<>>, r.stage # "closed")
    BY <1>3, <2>0, KeptEchoes, Zenon
  <2>2. PICK r \in Connection(Clients \X Nat) :
           /\ conn' = [conn EXCEPT ![c] = r]
           /\ Carried(c, r, <<>>, r.stage # "closed")
    BY <2>1, Zenon
  <2>3. ASSUME NEW d \in Clients
        PROVE  Carried(d, conn'[d], <<>>, conn'[d].stage # "closed")
    <3>1. CASE d = c
      <4>1. conn'[d] = r
        BY <2>2, <3>1
      <4>. QED
        BY <2>2, <3>1, <4>1, Zenon
    <3>2. CASE d # c
      <4>1. conn'[d] = conn[d]
        BY <2>2, <3>2
      <4>2. Carried(d, conn[d], <<>>, conn[d].stage # "closed")
        BY DEF AllKept, Kept
      <4>. QED
        BY <4>1, <4>2, Zenon
    <3>. QED
      BY <3>1, <3>2
  <2>. QED
    BY <2>3 DEF AllKept, Kept
<1>. QED
  BY <1>1, <1>2, <1>3

(* Before the first client.                                                *)
LEMMA AllKeptInit ==
  ASSUME conn = [c \in Clients |-> NoConn]
  PROVE  AllKept
BY NothingSent DEF AllKept, Kept

(* What is known of a connection is what the property asks.                *)
LEMMA KeptExactly ==
  ASSUME conn \in [Clients -> Connection(Clients \X Nat)], NEW c \in Clients, NEW h, Kept(c, h)
  PROVE  /\ IsPrefix(conn[c].echoed, Sent(c))
         /\ Open(c) => conn[c].echoed \o h \o conn[c].unread = Sent(c)
<1>1. conn[c].sent \in Nat
  <2>1. conn[c] \in Connection(Clients \X Nat)
    OBVIOUS
  <2>. QED
    BY <2>1 DEF Connection
<1>2. PICK sent : sent = Sent(c) /\ sent = [i \in 1 .. conn[c].sent |-> <<c, i>>]
  BY DEF Sent
<1>3. Carried(c, conn[c], h, conn[c].stage # "closed")
  BY DEF Kept
<1>4. /\ IsPrefix(conn[c].echoed, sent)
      /\ conn[c].stage # "closed" => conn[c].echoed \o h \o conn[c].unread = sent
  BY <1>1, <1>2, <1>3, CarriedExactly, Zenon
<1>. QED
  BY <1>2, <1>4 DEF Open

-----------------------------------------------------------------------------
(* Reactor: a node has in hand what is left to write, and nothing while it *)
(* is there to be read.                                                    *)
ReactHand(n) ==
  NodeList[n].status =>
    /\ NodeList[n].pfunc # "DoWrite" => NodeList[n].buf = <<>>
    /\ \A c \in Clients : fds[NodeList[n].fd] = c => Kept(c, NodeList[n].buf)

ReactHeld ==
  /\ \A n \in R!Nodes : ReactHand(n)
  /\ \A c \in Clients : conn[c].stage # "open" => Kept(c, <<>>)

(* The nodes are empty before the first event.                             *)
LEMMA ReactHeldInit ==
  ASSUME R!Init
  PROVE  ReactHeld
<1>1. conn = [c \in Clients |-> NoConn]
  BY DEF R!Init, R!InitPeers, R!NoConn, NoConn
<1>2. \A n \in R!Nodes : NodeList[n].status = FALSE
  BY DEF R!Init, R!FreeNode
<1>3. \A c \in Clients : Kept(c, <<>>)
  BY <1>1, NothingSent DEF Kept
<1>. QED
  BY <1>2, <1>3 DEF ReactHeld, ReactHand

(* The connections T may change; the others, and their nodes, do not.      *)
LEMMA ReactHolds ==
  ASSUME ReactHeld, NEW T \in SUBSET Clients,
         \A c \in Clients \ T : conn'[c] = conn[c],
         \A n \in R!Nodes : NodeList'[n].status =>
           \/ fds'[NodeList'[n].fd] \in T
           \/ /\ NodeList[n].status /\ NodeList'[n].buf = NodeList[n].buf
              /\ NodeList'[n].pfunc = NodeList[n].pfunc
              /\ fds'[NodeList'[n].fd] = fds[NodeList[n].fd],
         \A n \in R!Nodes : NodeList'[n].status /\ fds'[NodeList'[n].fd] \in T => ReactHand(n)',
         \A c \in T : conn'[c].stage # "open" => Kept(c, <<>>)'
  PROVE  ReactHeld'
<1>1. ASSUME NEW n \in R!Nodes
      PROVE  ReactHand(n)'
  <2>1. CASE ~ NodeList'[n].status \/ fds'[NodeList'[n].fd] \in T
    BY <2>1 DEF ReactHand
  <2>2. CASE NodeList'[n].status /\ fds'[NodeList'[n].fd] \notin T
    <3>1. /\ NodeList[n].status /\ NodeList'[n].buf = NodeList[n].buf
          /\ NodeList'[n].pfunc = NodeList[n].pfunc
          /\ fds'[NodeList'[n].fd] = fds[NodeList[n].fd]
      BY <2>2
    <3>2. ReactHand(n)
      BY DEF ReactHeld
    <3>4. ASSUME NEW c \in Clients, fds'[NodeList'[n].fd] = c
          PROVE  Carried(c, conn'[c], NodeList'[n].buf, conn'[c].stage # "closed")
      <4>1. conn'[c] = conn[c]
        BY <2>2, <3>4
      <4>2. Kept(c, NodeList[n].buf)
        BY <3>1, <3>2, <3>4 DEF ReactHand
      <4>. QED
        BY <3>1, <4>1, <4>2 DEF Kept
    <3>. QED
      BY <3>1, <3>2, <3>4 DEF ReactHand, Kept
  <2>. QED
    BY <2>1, <2>2
<1>2. ASSUME NEW c \in Clients, conn'[c].stage # "open"
      PROVE  Carried(c, conn'[c], <<>>, conn'[c].stage # "closed")
  <2>1. CASE c \in T
    BY <1>2, <2>1 DEF Kept
  <2>2. CASE c \notin T
    <3>1. conn'[c] = conn[c]
      BY <2>2
    <3>. QED
      BY <1>2, <3>1 DEF ReactHeld, Kept
  <2>. QED
    BY <2>1, <2>2
<1>3. R!Nodes' = R!Nodes
  BY DEF R!Nodes
<1>. QED
  BY <1>1, <1>2, <1>3 DEF ReactHeld, Kept

(* Two nodes in use are for two clients.                                   *)
LEMMA ReactOneNode ==
  ASSUME ReactInv, NEW m \in R!Nodes, NEW n \in R!Nodes, NodeList[m].status, NodeList[n].status,
         fds[NodeList[m].fd] = fds[NodeList[n].fd]
  PROVE  m = n
<1>1. ReactTables /\ FdTable
  BY DEF ReactInv, ReactTypes
<1>2. UsedOk(m) /\ UsedOk(n)
  BY <1>1 DEF ReactTables
<1>3. NodeList[m].fd = NodeList[n].fd
  BY <1>1, <1>2 DEF UsedOk, FdTable
<1>. QED
  BY <1>2, <1>3 DEF UsedOk

(* The node that is closed takes its bytes with it, and its connection is  *)
(* closed with it.                                                         *)
LEMMA ReactHeldCloses ==
  ASSUME ReactInv, ReactHeld, NEW T \in SUBSET {n \in R!Nodes : NodeList[n].status},
         R!EventDel(T), R!Close(T)
  PROVE  ReactHeld'
<1>1. ReactTypes /\ ReactTables
  BY DEF ReactInv
<1>2. /\ \A m \in R!Nodes \ T : NodeList'[m] = NodeList[m]
      /\ \A m \in R!Nodes \ T : NodeList[m].status => fds'[NodeList[m].fd] = fds[NodeList[m].fd]
      /\ \A m \in T : ~ NodeList'[m].status
  BY <1>1, ReactCloses, Zenon
<1>3. PICK C : C = {NodeList[n].fd : n \in T}
  BY Zenon
<1>4. C \in SUBSET Fds
  BY <1>1, <1>3 DEF ReactTables, UsedOk
<1>5. CloseFds(C)
  BY <1>3, ReactPeers DEF R!Close
<1>6. \A c \in Clients :
        \/ conn'[c] = conn[c]
        \/ conn'[c].stage = "closed" /\ conn'[c].sent = conn[c].sent /\ conn'[c].echoed = conn[c].echoed
  BY <1>1, <1>4, <1>5, CloseEnds DEF ReactTypes
<1>7. PICK D : D = {c \in Clients : \E f \in C : fds[f] = c}
  BY Zenon
<1>8. \A c \in Clients \ D : conn'[c] = conn[c]
  <2>1. conn \in [Clients -> Connection(Clients \X Nat)] /\ FdTable
    BY <1>1 DEF ReactTypes
  <2>2. \A c \in Clients : (\A f \in C : fds[f] # c) => conn'[c] = conn[c]
    BY <1>4, <1>5, <2>1, ClosesTyped
  <2>. QED
    BY <1>7, <2>2
<1>9. \A c \in D : conn'[c].stage = "closed"
  <2>1. conn \in [Clients -> Connection(Clients \X Nat)] /\ FdTable
    BY <1>1 DEF ReactTypes
  <2>2. \A c \in Clients : (\E f \in C : fds[f] = c) => conn'[c].stage = "closed"
    BY <1>4, <1>5, <2>1, ClosesTyped
  <2>. QED
    BY <1>7, <2>2
<1>10. ASSUME NEW n \in R!Nodes, NodeList'[n].status
       PROVE  /\ NodeList[n].status /\ NodeList'[n] = NodeList[n]
              /\ fds'[NodeList'[n].fd] = fds[NodeList[n].fd]
              /\ fds'[NodeList'[n].fd] \notin D
  <2>1. n \notin T /\ NodeList'[n] = NodeList[n]
    BY <1>2, <1>10
  <2>2. ASSUME NEW m \in T, fds[NodeList[n].fd] = fds[NodeList[m].fd]
        PROVE  FALSE
    <3>1. m \in R!Nodes /\ NodeList[m].status /\ NodeList[n].status
      BY <1>10, <2>1
    <3>2. m = n
      BY <2>2, <3>1, ReactOneNode
    <3>. QED
      BY <2>1, <3>2
  <2>. QED
    BY <1>2, <1>3, <1>7, <1>10, <2>1, <2>2
<1>11. ASSUME NEW c \in D
       PROVE  Kept(c, <<>>)'
  <2>1. \E h : Carried(c, conn[c], h, conn[c].stage # "closed")
    <3>1. PICK n \in T : fds[NodeList[n].fd] = c
      BY <1>3, <1>7
    <3>2. Kept(c, NodeList[n].buf)
      BY <1>7, <3>1 DEF ReactHeld, ReactHand
    <3>. QED
      BY <3>2 DEF Kept
  <2>2. /\ c \in Clients
        /\ conn'[c].stage = "closed" /\ conn'[c].sent = conn[c].sent /\ conn'[c].echoed = conn[c].echoed
    <3>1. c \in Clients /\ conn'[c].stage = "closed"
      BY <1>7, <1>9
    <3>2. conn'[c] = conn[c] => conn'[c].sent = conn[c].sent /\ conn'[c].echoed = conn[c].echoed
      OBVIOUS
    <3>. QED
      BY <1>6, <3>1, <3>2
  <2>3. ~ (conn'[c].stage # "closed")
    BY <2>2
  <2>4. Carried(c, conn'[c], <<>>, conn'[c].stage # "closed")
    BY <2>1, <2>2, <2>3, CarriedEnds, Zenon
  <2>. QED
    BY <2>4 DEF Kept
<1>12. D \in SUBSET Clients
  BY <1>7
<1>. QED
  BY <1>8, <1>10, <1>11, <1>12, ReactHolds

(* A node taken for a new connection has nothing in hand.                  *)
LEMMA ReactHeldAccepts ==
  ASSUME ReactInv, ReactHeld, NEW c \in Clients, R!DoAccept(c)
  PROVE  ReactHeld'
<1>1. PICK n, f : n = Min(R!Unused) /\ f = FreeFd
  OBVIOUS
<1>2. PICK r : r = [fd |-> f, buf |-> <<>>, pfunc |-> "DoReadLoop", regArgs |-> TRUE,
                    status |-> TRUE, age |-> 0]
  BY Zenon
<1>3. R!Unused # {} /\ Accepts(c) /\ NodeList' = [NodeList EXCEPT ![n] = r]
  BY <1>1, <1>2, ReactPeers, Zenon DEF R!DoAccept
<1>4. n \in R!Nodes /\ ~ NodeList[n].status
  <2>1. R!Unused \in SUBSET Nat
    BY DEF R!Unused, R!Nodes
  <2>. QED
    BY <1>1, <1>3, <2>1, MinIsLeast DEF R!Unused
<1>5. /\ NodeList \in [R!Nodes -> ReactNode] /\ conn \in [Clients -> Connection(Clients \X Nat)]
      /\ FdTable /\ ReactTables
  BY Zenon DEF ReactInv, ReactTypes
<1>6. /\ f \in Fds /\ fds[f] = None /\ fds' = [fds EXCEPT ![f] = c]
      /\ conn[c].stage = "pending"
  BY <1>1, <1>3, <1>5, AcceptsTyped, Zenon
<1>7. fds'[f] = c /\ c # None /\ \A h \in Fds : h # f => fds'[h] = fds[h]
  BY <1>5, <1>6, PeersAssumption DEF FdTable
<1>8. NodeList'[n] = r /\ \A m \in R!Nodes : m # n => NodeList'[m] = NodeList[m]
  BY <1>3, <1>4, <1>5
<1>9. conn' = [conn EXCEPT ![c].stage = "open"]
  BY <1>3 DEF Accepts
<1>10. PICK k \in Connection(Clients \X Nat) :
         /\ conn' = [conn EXCEPT ![c] = k]
         /\ k.stage = "open" /\ k.sent = conn[c].sent /\ k.unread = conn[c].unread
         /\ k.echoed = conn[c].echoed
  <2>1. "open" \in {"none", "pending", "open", "closed"}
    OBVIOUS
  <2>2. \E k \in Connection(Clients \X Nat) :
          /\ conn' = [conn EXCEPT ![c] = k]
          /\ k.stage = "open" /\ k.sent = conn[c].sent /\ k.unread = conn[c].unread
          /\ k.echoed = conn[c].echoed /\ k.fin = conn[c].fin /\ k.reset = conn[c].reset
    BY <1>5, <1>9, <2>1, StageSet, Zenon
  <2>. QED
    BY <2>2, Zenon
<1>11. conn'[c] = k /\ \A d \in Clients \ {c} : conn'[d] = conn[d]
  BY <1>5, <1>10
<1>12. Carried(c, k, <<>>, k.stage # "closed")
  <2>1. Carried(c, conn[c], <<>>, conn[c].stage # "closed")
    BY <1>6 DEF ReactHeld, Kept
  <2>. QED
    BY <1>6, <1>10, <2>1, CarriedSame, Zenon
<1>13. ASSUME NEW m \in R!Nodes, m # n, NodeList[m].status
       PROVE  fds'[NodeList[m].fd] = fds[NodeList[m].fd] /\ fds[NodeList[m].fd] # c
  <2>1. NodeList[m].fd \in Fds /\ fds[NodeList[m].fd] # None
    BY <1>5, <1>13 DEF ReactTables, UsedOk
  <2>2. \A h \in Fds : fds[h] # c
    BY <1>5, <1>6 DEF FdTable
  <2>. QED
    BY <1>6, <1>7, <2>1, <2>2
<1>14. ReactHand(n)'
  <2>1. r.status /\ r.buf = <<>> /\ r.fd = f
    BY <1>2
  <2>2. \A d \in Clients : fds'[r.fd] = d => Carried(d, conn'[d], <<>>, conn'[d].stage # "closed")
    BY <1>7, <1>11, <1>12, <2>1
  <2>. QED
    BY <1>8, <2>1, <2>2 DEF ReactHand, Kept
<1>15. \A d \in Clients \ {c} : conn'[d] = conn[d]
  BY <1>11
<1>16. ASSUME NEW m \in R!Nodes, NodeList'[m].status
       PROVE  /\ m = n => fds'[NodeList'[m].fd] \in {c}
              /\ m # n => /\ NodeList[m].status /\ NodeList'[m] = NodeList[m]
                          /\ fds'[NodeList'[m].fd] = fds[NodeList[m].fd]
                          /\ fds'[NodeList'[m].fd] \notin {c}
  <2>1. CASE m = n
    BY <1>2, <1>7, <1>8, <2>1
  <2>2. CASE m # n
    BY <1>8, <1>13, <1>16, <2>2
  <2>. QED
    BY <2>1, <2>2
<1>17. conn'[c].stage = "open" /\ {c} \in SUBSET Clients
  BY <1>10, <1>11
<1>. QED
  BY <1>14, <1>15, <1>16, <1>17, ReactHolds

(* DoReadLoop moves what is unread into the empty buffer of its node.      *)
LEMMA ReactHeldReads ==
  ASSUME ReactInv, ReactHeld, NEW n \in R!Nodes, R!ReadsAll(n)
  PROVE  ReactHeld'
<1>1. PICK f, c : f = NodeList[n].fd /\ c = fds[f]
  OBVIOUS
<1>2. /\ R!Handles(n) /\ fds' = fds
      /\ NodeList' = [NodeList EXCEPT ![n].buf = conn[c].unread,
                                      ![n].pfunc = "DoWrite", ![n].age = 0]
      /\ conn' = [conn EXCEPT ![c].unread = <<>>]
      /\ NodeList[n].pfunc = "DoReadLoop"
  BY <1>1 DEF R!ReadsAll
<1>3. NodeList[n].status /\ f \in Fds /\ c \in Clients
  BY <1>1, <1>2, ReactBehind, Zenon
<1>4. /\ NodeList \in [R!Nodes -> ReactNode] /\ NodeList[n] \in ReactNode
      /\ conn \in [Clients -> Connection(Clients \X Nat)] /\ conn[c] \in Connection(Clients \X Nat)
      /\ FdTable
  BY <1>3, Zenon DEF ReactInv, ReactTypes
<1>5. conn[c].unread \in Seq(Clients \X Nat) /\ <<>> \in Seq(Clients \X Nat) /\ conn[c].sent \in Nat
  BY <1>4 DEF Connection
<1>6. /\ NodeList'[n].buf = conn[c].unread /\ NodeList'[n].fd = f /\ NodeList'[n].pfunc = "DoWrite"
      /\ \A m \in R!Nodes : m # n => NodeList'[m] = NodeList[m]
  BY <1>1, <1>2, <1>4 DEF ReactNode
<1>7. PICK k \in Connection(Clients \X Nat) :
        /\ conn' = [conn EXCEPT ![c] = k]
        /\ k.unread = <<>> /\ k.echoed = conn[c].echoed /\ k.stage = conn[c].stage
        /\ k.sent = conn[c].sent
  <2>1. \E k \in Connection(Clients \X Nat) :
           /\ conn' = [conn EXCEPT ![c] = k]
           /\ k.unread = <<>> /\ k.echoed = conn[c].echoed /\ k.stage = conn[c].stage
           /\ k.sent = conn[c].sent /\ k.fin = conn[c].fin /\ k.reset = conn[c].reset
    BY <1>2, <1>3, <1>4, <1>5, TakenTyped, Zenon
  <2>. QED
    BY <2>1, Zenon
<1>8. conn'[c] = k /\ \A d \in Clients \ {c} : conn'[d] = conn[d]
  BY <1>3, <1>4, <1>7
<1>9. Carried(c, conn[c], <<>>, conn[c].stage # "closed") /\ conn[c].stage = "open"
  <2>1. ReactHand(n)
    BY DEF ReactHeld
  <2>2. conn[c].stage = "open"
    BY <1>1, <1>3, <1>4 DEF FdTable
  <2>. QED
    BY <1>1, <1>2, <1>3, <2>1, <2>2 DEF ReactHand, Kept
<1>10. Carried(c, k, conn[c].unread, k.stage # "closed")
  <2>1. Carried(c, conn[c], <<>>, TRUE)
    BY <1>9, CarriedWhole
  <2>2. Carried(c, k, conn[c].unread, TRUE)
    BY <1>3, <1>5, <1>7, <2>1, CarriedTakes, Zenon
  <2>. QED
    BY <2>2 DEF Carried
<1>11. ReactHand(n)'
  <2>1. Carried(c, conn'[c], NodeList'[n].buf, conn'[c].stage # "closed")
    BY <1>6, <1>8, <1>10, Zenon
  <2>2. fds'[NodeList'[n].fd] = c
    BY <1>1, <1>2, <1>6
  <2>. QED
    BY <1>6, <2>1, <2>2 DEF ReactHand, Kept
<1>12. ASSUME NEW m \in R!Nodes, NodeList'[m].status
       PROVE  /\ m = n => fds'[NodeList'[m].fd] \in {c}
              /\ m # n => /\ NodeList[m].status /\ NodeList'[m] = NodeList[m]
                          /\ fds'[NodeList'[m].fd] = fds[NodeList[m].fd]
                          /\ fds'[NodeList'[m].fd] \notin {c}
  <2>1. CASE m = n
    BY <1>1, <1>2, <1>6, <2>1
  <2>2. CASE m # n
    <3>1. NodeList'[m] = NodeList[m]
      BY <1>6, <2>2
    <3>. QED
      BY <1>1, <1>2, <1>3, <1>12, <2>2, <3>1, ReactOneNode
  <2>. QED
    BY <2>1, <2>2
<1>13. conn'[c].stage = "open" /\ {c} \in SUBSET Clients
  BY <1>3, <1>7, <1>8, <1>9
<1>14. \A d \in Clients \ {c} : conn'[d] = conn[d]
  BY <1>8
<1>. QED
  BY <1>11, <1>12, <1>13, <1>14, ReactHolds

(* DoWrite moves the first bytes of the buffer to the client, and reads    *)
(* again only when none is left.                                           *)
LEMMA ReactHeldWrites ==
  ASSUME ReactInv, ReactHeld, NEW n \in R!Nodes, R!DoWrite(n)
  PROVE  ReactHeld'
<1>1. PICK f, c, buf0 : f = NodeList[n].fd /\ c = fds[f] /\ buf0 = NodeList[n].buf
  OBVIOUS
<1>2. PICK cnt \in 1 .. Len(buf0) :
        /\ R!Handles(n) /\ fds' = fds /\ pc' = pc /\ NodeList[n].pfunc = "DoWrite"
        /\ conn' = [conn EXCEPT ![c].echoed = @ \o SubSeq(buf0, 1, cnt)]
        /\ NodeList' = [NodeList EXCEPT ![n].buf = R!Left(buf0, cnt), ![n].age = 0,
                          ![n].pfunc = IF cnt = Len(buf0) THEN "DoReadLoop" ELSE @]
  BY <1>1, Zenon DEF R!DoWrite
<1>3. NodeList[n].status /\ f \in Fds /\ c \in Clients
  BY <1>1, <1>2, ReactBehind, Zenon
<1>4. /\ NodeList \in [R!Nodes -> ReactNode] /\ NodeList[n] \in ReactNode
      /\ conn \in [Clients -> Connection(Clients \X Nat)] /\ conn[c] \in Connection(Clients \X Nat)
      /\ FdTable
  BY <1>3, Zenon DEF ReactInv, ReactTypes
<1>5. conn[c].echoed \in Seq(Clients \X Nat) /\ buf0 \in Seq(Clients \X Nat) /\ conn[c].sent \in Nat
  BY <1>1, <1>4 DEF Connection, ReactNode
<1>6. PICK l \in Nat : l = Len(buf0)
  BY <1>5
<1>7. cnt \in Nat /\ cnt \in 0 .. Len(buf0) /\ cnt =< l /\ 1 =< cnt
  BY <1>6
<1>8. PICK rest : rest = SubSeq(buf0, cnt + 1, Len(buf0))
  BY Zenon
<1>9. /\ NodeList'[n].buf = rest /\ NodeList'[n].fd = f
      /\ NodeList'[n].pfunc = IF cnt = Len(buf0) THEN "DoReadLoop" ELSE NodeList[n].pfunc
      /\ \A m \in R!Nodes : m # n => NodeList'[m] = NodeList[m]
  <2>1. R!Left(buf0, cnt) = rest
    BY <1>8 DEF R!Left
  <2>. QED
    BY <1>1, <1>2, <1>4, <2>1 DEF ReactNode
<1>10. cnt = Len(buf0) => rest = <<>>
  <2>1. CASE cnt = l
    <3>1. l < l + 1 /\ l \in Int /\ l + 1 \in Int
      OBVIOUS
    <3>. QED
      BY <1>6, <1>8, <2>1, <3>1, SubSeqEmpty, Zenon
  <2>. QED
    BY <1>6, <2>1
<1>11. PICK e : e = conn[c].echoed \o SubSeq(buf0, 1, cnt)
  BY Zenon
<1>12. e \in Seq(Clients \X Nat) /\ conn' = [conn EXCEPT ![c].echoed = e]
  <2>1. SubSeq(buf0, 1, cnt) \in Seq(Clients \X Nat)
    <3>1. \A i \in 1 .. cnt : buf0[i] \in Clients \X Nat
      BY <1>5, <1>6, <1>7, ElementOfSeq
    <3>. QED
      BY <1>7, <3>1, SubSeqProperties
  <2>2. e \in Seq(Clients \X Nat)
    BY <1>5, <1>11, <2>1, ConcatProperties
  <2>. QED
    BY <1>2, <1>11, <2>2
<1>13. PICK k \in Connection(Clients \X Nat) :
         /\ conn' = [conn EXCEPT ![c] = k]
         /\ k.unread = conn[c].unread /\ k.echoed = e /\ k.stage = conn[c].stage
         /\ k.sent = conn[c].sent
  <2>1. \E k \in Connection(Clients \X Nat) :
           /\ conn' = [conn EXCEPT ![c] = k]
           /\ k.unread = conn[c].unread /\ k.echoed = e /\ k.stage = conn[c].stage
           /\ k.sent = conn[c].sent /\ k.fin = conn[c].fin /\ k.reset = conn[c].reset
    BY <1>3, <1>4, <1>12, GivenTyped
  <2>. QED
    BY <2>1, Zenon
<1>14. conn'[c] = k /\ \A d \in Clients \ {c} : conn'[d] = conn[d]
  BY <1>3, <1>4, <1>13
<1>15. Carried(c, conn[c], buf0, TRUE) /\ conn[c].stage = "open"
  <2>1. ReactHand(n)
    BY DEF ReactHeld
  <2>2. conn[c].stage = "open"
    BY <1>1, <1>3, <1>4 DEF FdTable
  <2>3. Carried(c, conn[c], buf0, conn[c].stage # "closed")
    BY <1>1, <1>3, <2>1 DEF ReactHand, Kept
  <2>. QED
    BY <2>2, <2>3 DEF Carried
<1>16. Carried(c, k, rest, k.stage # "closed")
  BY <1>3, <1>5, <1>7, <1>8, <1>11, <1>13, <1>15, CarriedWrites, Zenon
<1>17. ReactHand(n)'
  BY <1>1, <1>2, <1>9, <1>10, <1>14, <1>16 DEF ReactHand, Kept
<1>18. ASSUME NEW m \in R!Nodes, NodeList'[m].status
       PROVE  /\ m = n => fds'[NodeList'[m].fd] \in {c}
              /\ m # n => /\ NodeList[m].status /\ NodeList'[m] = NodeList[m]
                          /\ fds'[NodeList'[m].fd] = fds[NodeList[m].fd]
                          /\ fds'[NodeList'[m].fd] \notin {c}
  <2>1. CASE m = n
    BY <1>1, <1>2, <1>9, <2>1
  <2>2. CASE m # n
    <3>1. NodeList'[m] = NodeList[m]
      BY <1>9, <2>2
    <3>. QED
      BY <1>1, <1>2, <1>3, <1>18, <2>2, <3>1, ReactOneNode
  <2>. QED
    BY <2>1, <2>2
<1>19. conn'[c].stage = "open" /\ {c} \in SUBSET Clients
  BY <1>3, <1>13, <1>14, <1>15
<1>20. \A d \in Clients \ {c} : conn'[d] = conn[d]
  BY <1>14
<1>. QED
  BY <1>17, <1>18, <1>19, <1>20, ReactHolds

(* What arrives is in nobody's hands yet.                                  *)
LEMMA ReactHeldArrives ==
  ASSUME ReactInv, ReactHeld, NEW c \in Clients, Connects(c) \/ Arrives(c), UNCHANGED <<NodeList, fds>>
  PROVE  ReactHeld'
<1>1. conn \in [Clients -> Connection(Clients \X Nat)] /\ FdTable
  BY DEF ReactInv, ReactTypes
<1>2. PICK r \in Connection(Clients \X Nat) :
           /\ conn' = [conn EXCEPT ![c] = r]
           /\ r.stage # "closed" /\ conn[c].stage # "closed"
           /\ r.stage = "open" <=> conn[c].stage = "open"
           /\ \A h, w : Carried(c, conn[c], h, w) => Carried(c, r, h, w)
  BY <1>1, ArrivesUnread
<1>3. conn'[c] = r /\ \A d \in Clients : d # c => conn'[d] = conn[d]
  BY <1>1, <1>2
<1>4. ASSUME NEW d \in Clients, NEW h, Kept(d, h)
      PROVE  Carried(d, conn'[d], h, conn'[d].stage # "closed")
  <2>1. CASE d = c
    <3>1. conn[d].stage # "closed" <=> conn'[d].stage # "closed"
      BY <1>2, <1>3, <2>1
    <3>2. Carried(d, conn[d], h, conn'[d].stage # "closed")
      BY <1>4, <3>1 DEF Kept
    <3>. QED
      BY <1>2, <1>3, <2>1, <3>2
  <2>2. CASE d # c
    BY <1>3, <1>4, <2>2 DEF Kept
  <2>. QED
    BY <2>1, <2>2
<1>5. \A d \in Clients : conn'[d].stage # "open" => conn[d].stage # "open"
  BY <1>2, <1>3
<1>. QED
  BY <1>4, <1>5 DEF ReactHeld, ReactHand, Kept, R!Nodes

(* Nothing moves.                                                          *)
LEMMA ReactHeldStays ==
  ASSUME ReactHeld, UNCHANGED <<NodeList, fds, conn>>
  PROVE  ReactHeld'
BY DEF ReactHeld, ReactHand, Kept, R!Nodes

(* Every step of the reactor keeps what its nodes hold.                    *)
LEMMA ReactHeldNext ==
  ASSUME ReactInv, ReactHeld, R!Next
  PROVE  ReactHeld'
<1>1. CASE R!Sweep
  BY <1>1, ReactHeldCloses DEF R!Sweep, R!Expired
<1>2. ASSUME NEW n \in R!Nodes, R!ReadsEnd(n)
      PROVE  ReactHeld'
  <2>1. R!Handles(n) /\ R!EventDel({n}) /\ R!Close({n})
    BY <1>2 DEF R!ReadsEnd
  <2>2. {n} \in SUBSET {m \in R!Nodes : NodeList[m].status}
    BY <2>1, ReactBehind, Zenon
  <2>. QED
    BY <2>1, <2>2, ReactHeldCloses
<1>3. CASE R!EpollWait \/ R!WaitEnds \/ R!BatchEnds \/ R!AcceptFindsNoNode
           \/ \E n \in R!Nodes : R!Exits(n)
  BY <1>3, ReactHeldStays DEF R!EpollWait, R!WaitEnds, R!BatchEnds, R!AcceptFindsNoNode, R!Exits
<1>4. CASE R!MinutePasses
  <2>1. PICK T \in SUBSET Clients : T = {}
    OBVIOUS
  <2>2. /\ UNCHANGED <<fds, conn>>
        /\ \A n \in R!Nodes : /\ NodeList'[n].status = NodeList[n].status
                              /\ NodeList'[n].buf = NodeList[n].buf
                              /\ NodeList'[n].pfunc = NodeList[n].pfunc
                              /\ NodeList'[n].fd = NodeList[n].fd
    <3>1. UNCHANGED <<fds, conn>> /\ NodeList \in [R!Nodes -> ReactNode]
      BY <1>4 DEF R!MinutePasses, ReactInv, ReactTypes
    <3>2. ASSUME NEW n \in R!Nodes
          PROVE  /\ NodeList'[n].status = NodeList[n].status
                 /\ NodeList'[n].buf = NodeList[n].buf
                 /\ NodeList'[n].pfunc = NodeList[n].pfunc
                 /\ NodeList'[n].fd = NodeList[n].fd
      <4>1. PICK k : k = [NodeList[n] EXCEPT !.age = NodeList[n].age + 1]
        BY Zenon
      <4>2. NodeList[n] \in ReactNode
        BY <3>1
      <4>3. k.status = NodeList[n].status /\ k.buf = NodeList[n].buf
            /\ k.pfunc = NodeList[n].pfunc /\ k.fd = NodeList[n].fd
        BY <4>1, <4>2 DEF ReactNode
      <4>4. NodeList'[n] = k \/ NodeList'[n] = NodeList[n]
        BY <1>4, <4>1 DEF R!MinutePasses
      <4>. QED
        BY <4>3, <4>4
    <3>. QED
      BY <3>1, <3>2
  <2>. QED
    BY <2>1, <2>2, ReactHolds
<1>5. CASE R!Environment /\ ~ R!MinutePasses
  <2>1. PICK c \in Clients : (Connects(c) \/ Arrives(c)) /\ UNCHANGED <<NodeList, fds>>
    BY <1>5, ReactPeers DEF R!Environment
  <2>. QED
    BY <2>1, ReactHeldArrives
<1>. QED
  BY <1>1, <1>2, <1>3, <1>4, <1>5, ReactHeldAccepts, ReactHeldReads, ReactHeldWrites
     DEF R!Next, R!Server, R!Environment

(* What the nodes hold is known throughout the runs of epoll_reactor.      *)
LEMMA ReactHeldAlways == Spec => [](Runs({"epoll_reactor"}) => ReactInv /\ ReactHeld)
<1>1. Init => (Runs({"epoll_reactor"}) => ReactHeld)
  BY OnlyOneStarts, ReactHeldInit
<1>2. ASSUME Runs({"epoll_reactor"}) => ReactInv, Runs({"epoll_reactor"}) => ReactHeld, [Next]_mcVars
      PROVE  (Runs({"epoll_reactor"}) => ReactHeld)'
  <2>1. program' = program
    BY <1>2, ProgramStays
  <2>2. CASE UNCHANGED mcVars
    <3>1. UNCHANGED <<NodeList, fds, conn>>
      BY <2>2 DEF mcVars
    <3>. QED
      BY <1>2, <2>1, <3>1, ReactHeldStays DEF Runs
  <2>3. CASE Next
    <3>1. CASE Runs({"epoll_reactor"})
      BY <1>2, <2>3, <3>1, OnlyOneRuns, ReactHeldNext
    <3>2. CASE ~ Runs({"epoll_reactor"})
      BY <2>1, <3>2 DEF Runs
    <3>. QED
      BY <3>1, <3>2
  <2>. QED
    BY <1>2, <2>2, <2>3
<1>. QED
  BY <1>1, <1>2, ReactAlways, PTL DEF Spec

(* What the invariant says of the node of a connection is that no byte is  *)
(* lost.                                                                   *)
LEMMA ReactExact ==
  ASSUME ReactInv, ReactHeld
  PROVE  R!EchoExact
<1>1. conn \in [Clients -> Connection(Clients \X Nat)] /\ FdTable /\ ReactTables
  BY DEF ReactInv, ReactTypes
<1>2. ASSUME NEW c \in Clients
      PROVE  /\ R!IsPrefix(conn[c].echoed, R!Sent(c))
             /\ R!Open(c) => conn[c].echoed \o R!InNode(c) \o conn[c].unread = R!Sent(c)
  <2>1. conn[c].sent \in Nat
    <3>1. conn[c] \in Connection(Clients \X Nat)
      BY <1>1
    <3>. QED
      BY <3>1 DEF Connection
  <2>2. PICK sent : sent = R!Sent(c) /\ sent = [i \in 1 .. conn[c].sent |-> <<c, i>>]
    BY DEF R!Sent
  <2>3. CASE conn[c].stage = "open"
    <3>1. PICK f \in Fds : fds[f] = c
      BY <1>1, <2>3 DEF FdTable
    <3>2. RegisteredOk(f) /\ c # None
      BY <1>1, PeersAssumption DEF ReactTables
    <3>3. \E m \in R!Nodes : NodeList[m].status /\ fds[NodeList[m].fd] = c
      BY <3>1, <3>2 DEF RegisteredOk
    <3>4. PICK n : n = CHOOSE m \in R!Nodes : NodeList[m].status /\ fds[NodeList[m].fd] = c
      OBVIOUS
    <3>5. n \in R!Nodes /\ NodeList[n].status /\ fds[NodeList[n].fd] = c
      BY <3>3, <3>4
    <3>6. R!InNode(c) = NodeList[n].buf
      BY <3>4 DEF R!InNode
    <3>7. Carried(c, conn[c], NodeList[n].buf, TRUE)
      <4>1. ReactHand(n)
        BY <3>5 DEF ReactHeld
      <4>2. Carried(c, conn[c], NodeList[n].buf, conn[c].stage # "closed")
        BY <3>5, <4>1 DEF ReactHand, Kept
      <4>. QED
        BY <2>3, <4>2 DEF Carried
    <3>8. IsPrefix(conn[c].echoed, sent) /\ conn[c].echoed \o NodeList[n].buf \o conn[c].unread = sent
      BY <2>1, <2>2, <3>7, CarriedExactly, Zenon
    <3>. QED
      BY <2>2, <3>6, <3>8 DEF R!IsPrefix, IsPrefix
  <2>4. CASE conn[c].stage # "open"
    <3>1. Carried(c, conn[c], <<>>, conn[c].stage # "closed")
      BY <2>4 DEF ReactHeld, Kept
    <3>2. IsPrefix(conn[c].echoed, sent)
      BY <2>1, <2>2, <3>1, CarriedExactly, Zenon
    <3>. QED
      BY <2>2, <2>4, <3>2 DEF R!IsPrefix, IsPrefix, R!Open
  <2>. QED
    BY <2>3, <2>4
<1>. QED
  BY <1>2 DEF R!EchoExact, R!EchoedExactly
=============================================================================
