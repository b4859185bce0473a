---------------------------- MODULE PollingProofs ----------------------------
(***************************************************************************)
(* Proofs about the servers that wait in epoll, select, poll or the loop   *)
(* of libevent, for any number of clients and any length of their tables:  *)
(* the tables agree with the open descriptors, and no read is made with    *)
(* nothing to read.                                                        *)
(***************************************************************************)
EXTENDS ReactorProofs

-----------------------------------------------------------------------------
(* EventServers: test4.c, whose events are its own.                        *)
EventInv ==
  /\ conn \in [Clients -> Connection(Clients \X Nat)]
  /\ FdTable
  /\ evs = {f \in Fds : fds[f] # None}

(* What the names of Peers mean in the program of EventServers.            *)
LEMMA EventPeers ==
  /\ L!Fds = Fds /\ L!FreeFd = FreeFd
  /\ \A T : L!CloseFds(T) => CloseFds(T)
  /\ \A c, n : L!Echoes(c, n) => Echoes(c, n)
  /\ \A c \in Clients : /\ L!Accepts(c) => Accepts(c)
                        /\ L!Connects(c) => Connects(c)
                        /\ L!Arrives(c) => Arrives(c)
<1>1. \A T : L!Min(T) = Min(T)
  BY DEF L!Min, Min
<1>2. L!Fds = Fds
  BY DEF L!Fds, Fds, L!Cardinality, Cardinality
<1>3. L!FreeFd = FreeFd
  BY <1>1, <1>2 DEF L!FreeFd, FreeFd
<1>4. ASSUME NEW T
      PROVE  L!CloseFds(T) => CloseFds(T)
  BY <1>2 DEF L!CloseFds, CloseFds
<1>5. ASSUME NEW c, NEW n
      PROVE  L!Echoes(c, n) => Echoes(c, n)
  BY <1>1, Zenon DEF L!Echoes, Echoes, L!Upto, Upto
<1>6. ASSUME NEW c \in Clients
      PROVE  /\ L!Accepts(c) => Accepts(c)
             /\ L!Connects(c) => Connects(c)
             /\ L!Arrives(c) => Arrives(c)
  BY <1>3 DEF L!Accepts, Accepts, L!Pending, Pending,
         L!Connects, L!Arrives, L!Sends, L!ShutsDown, L!Resets, L!Alive, L!Open,
         Connects, Arrives, Sends, ShutsDown, Resets, Alive, Open
<1>. QED
  BY <1>2, <1>3, <1>4, <1>5, <1>6

(* test4.c starts with no client and no event.                             *)
LEMMA EventInit ==
  ASSUME L!Init
  PROVE  EventInv
<1>1. conn = [c \in Clients |-> NoConn] /\ fds = [f \in Fds |-> None] /\ evs = {}
  BY EventPeers DEF L!Init, L!InitPeers, L!NoConn, NoConn
<1>2. conn \in [Clients -> Connection(Clients \X Nat)]
  BY <1>1, NoConnTyped
<1>3. FdTable
  BY <1>1, PeersAssumption DEF FdTable, NoConn
<1>. QED
  BY <1>1, <1>2, <1>3 DEF EventInv

(* Nothing is opened or closed, and no event made or deleted.              *)
LEMMA EventKeeps ==
  ASSUME EventInv, fds' = fds, evs' = evs, conn' \in [Clients -> Connection(Clients \X Nat)],
         \A c \in Clients : conn'[c].stage = "open" <=> conn[c].stage = "open"
  PROVE  EventInv'
<1>1. FdTable'
  BY SameTable DEF EventInv
<1>2. Connection(Clients \X Nat)' = Connection(Clients \X Nat) /\ Fds' = Fds
  BY DEF Connection, Fds
<1>. QED
  BY <1>1, <1>2, Zenon DEF EventInv

(* Every step of test4.c keeps the events of the open descriptors.         *)
LEMMA EventNext ==
  ASSUME EventInv, L!Next, ~ L!Buffers
  PROVE  EventInv'
<1>1. /\ conn \in [Clients -> Connection(Clients \X Nat)] /\ FdTable
      /\ evs = {f \in Fds : fds[f] # None}
  BY DEF EventInv
<1>2. Connection(Clients \X Nat)' = Connection(Clients \X Nat) /\ Fds' = Fds
  BY DEF Connection, Fds
<1>3. ASSUME NEW c \in Clients, L!acceptcb(c)
      PROVE  EventInv'
  <2>1. Accepts(c) /\ evs' = evs \union {FreeFd}
    BY <1>3, EventPeers DEF L!acceptcb
  <2>2. /\ conn' \in [Clients -> Connection(Clients \X Nat)] /\ FdTable'
        /\ FreeFd \in Fds /\ fds' = [fds EXCEPT ![FreeFd] = c]
    BY <1>1, <2>1, AcceptsTyped, Zenon
  <2>3. PICK f \in Fds : f = FreeFd
    BY <2>2
  <2>4. fds'[f] = c /\ c # None /\ \A g \in Fds : g # f => fds'[g] = fds[g]
    BY <1>1, <2>2, <2>3, PeersAssumption DEF FdTable
  <2>5. evs' = {g \in Fds : fds'[g] # None}
    BY <1>1, <2>1, <2>3, <2>4
  <2>. QED
    BY <1>2, <2>2, <2>5, Zenon DEF EventInv
<1>4. ASSUME NEW f \in Fds, L!readcb(f)
      PROVE  EventInv'
  <2>1. CASE L!ReadsData(f)
    <3>1. /\ f \in evs /\ Echoes(fds[f], READ_MAX) /\ fds' = fds /\ evs' = evs
      BY <2>1, EventPeers DEF L!ReadsData
    <3>2. fds[f] \in Clients /\ READ_MAX \in Nat
      BY <1>1, <3>1, ServersAssumption DEF FdTable
    <3>3. PICK c \in Clients : c = fds[f]
      BY <3>2
    <3>4. PICK r \in Connection(Clients \X Nat) :
            conn' = [conn EXCEPT ![c] = r] /\ r.stage = conn[c].stage
      <4>1. \E r \in Connection(Clients \X Nat) :
              /\ conn' = [conn EXCEPT ![c] = r]
              /\ r.stage = conn[c].stage /\ r.sent = conn[c].sent
              /\ r.fin = conn[c].fin /\ r.reset = conn[c].reset
              /\ r.echoed = conn[c].echoed \o Upto(READ_MAX, conn[c].unread)
              /\ r.unread = SubSeq(conn[c].unread, READ_MAX + 1, Len(conn[c].unread))
        BY <1>1, <3>1, <3>2, <3>3, EchoesTyped, Zenon
      <4>. QED
        BY <4>1, Zenon
    <3>. QED
      BY <1>1, <3>1, <3>4, EventKeeps
  <2>2. CASE L!ReadsEnd(f)
    <3>1. CloseFds({f}) /\ evs' = evs \ {f}
      BY <2>2, EventPeers DEF L!ReadsEnd, L!AtEnd
    <3>2. /\ conn' \in [Clients -> Connection(Clients \X Nat)] /\ FdTable'
          /\ \A g \in Fds : fds'[g] = IF g \in {f} THEN None ELSE fds[g]
      BY <1>1, <3>1, ClosesTyped, Zenon
    <3>3. evs' = {g \in Fds : fds'[g] # None}
      BY <1>1, <3>1, <3>2
    <3>. QED
      BY <1>2, <3>2, <3>3, Zenon DEF EventInv
  <2>3. CASE L!ReadFails(f)
    BY <1>1, <2>3, EventKeeps, Zenon DEF L!ReadFails
  <2>. QED
    BY <1>4, <2>1, <2>2, <2>3 DEF L!readcb
<1>5. CASE L!LoopExits \/ L!sigint
  BY <1>1, <1>5, EventKeeps, Zenon DEF L!LoopExits, L!sigint
<1>6. CASE L!Environment
  <2>1. PICK c \in Clients : (Connects(c) \/ Arrives(c)) /\ fds' = fds /\ evs' = evs
    BY <1>6, EventPeers DEF L!Environment
  <2>2. PICK r \in Connection(Clients \X Nat) :
          /\ conn' = [conn EXCEPT ![c] = r]
          /\ r.stage = "open" <=> conn[c].stage = "open"
    <3>1. \E r \in Connection(Clients \X Nat) :
            /\ conn' = [conn EXCEPT ![c] = r]
            /\ r.echoed = conn[c].echoed
            /\ \/ Arrives(c) /\ r.stage = conn[c].stage /\ r.stage \in {"pending", "open"}
               \/ conn[c].stage = "none" /\ r.stage = "pending"
      BY <1>1, <2>1, ArrivesTyped, Zenon
    <3>. QED
      BY <3>1, Zenon
  <2>3. /\ conn' \in [Clients -> Connection(Clients \X Nat)]
        /\ \A d \in Clients : conn'[d].stage = "open" <=> conn[d].stage = "open"
    BY <1>1, <2>2
  <2>. QED
    BY <2>1, <2>3, EventKeeps, Zenon
<1>7. \A c \in Clients : /\ ~ L!connect_call_back(c) /\ ~ L!read_cb(c)
                         /\ ~ L!Writes(c) /\ ~ L!event_cb(c)
  BY Zenon DEF L!connect_call_back, L!read_cb, L!Writes, L!event_cb
<1>8. CASE L!Server
  BY <1>3, <1>4, <1>5, <1>7, <1>8, EventPeers DEF L!Server
<1>. QED
  BY <1>5, <1>6, <1>8 DEF L!Next

(* The invariant holds throughout the runs of the servers that keep their  *)
(* own events.                                                             *)
LEMMA EventAlways == Spec => [](Runs(L!Programs) => (~ L!Buffers => EventInv))
<1>1. Init => (Runs(L!Programs) => (~ L!Buffers => EventInv))
  BY OnlyOneStarts, EventInit
<1>2. ASSUME Runs(L!Programs) => (~ L!Buffers => EventInv), [Next]_mcVars
      PROVE  (Runs(L!Programs) => (~ L!Buffers => EventInv))'
  <2>1. program' = program /\ L!Buffers' = L!Buffers
    BY <1>2, ProgramStays DEF L!Buffers
  <2>2. CASE UNCHANGED mcVars
    <3>1. UNCHANGED <<conn, fds, evs>>
      BY <2>2 DEF mcVars
    <3>2. EventInv => EventInv'
      BY <3>1, EventKeeps, Zenon DEF EventInv
    <3>. QED
      BY <1>2, <2>1, <3>2 DEF Runs
  <2>3. CASE Next
    BY <1>2, <2>1, <2>3, OnlyOneRuns, EventNext DEF Runs
  <2>. QED
    BY <1>2, <2>2, <2>3
<1>. QED
  BY <1>1, <1>2, PTL DEF Spec

(* The events are those of the open descriptors, in the program's own      *)
(* terms.                                                                  *)
LEMMA EventAgrees ==
  ASSUME EventInv
  PROVE  evs = {f \in L!Fds : fds[f] # None}
BY EventPeers DEF EventInv

-----------------------------------------------------------------------------
(* SelectServers.                                                          *)
Datagrams == [sent : Nat, queued : Nat, echoed : Nat]

SelectTypes ==
  /\ conn \in [Clients -> Connection(Clients \X Nat)]
  /\ FdTable
  /\ table \in [S!Entries -> Fds \union {None}]
  /\ datagrams \in Datagrams

(* One entry for each open descriptor.                                     *)
EntriesOk ==
  /\ \A i, j \in S!Entries : table[i] = table[j] /\ table[i] # None => i = j
  /\ \A f \in Fds : fds[f] # None <=> \E i \in S!Entries : table[i] = f
  /\ S!is.byDescriptor => \A i \in S!Entries : table[i] \in {None, i}

(* What a pass still has to handle is open, and has something to read if   *)
(* the memory of fds held no POLLIN.                                       *)
ReadyOk ==
  /\ \A f \in ready : f # 0 => f \in Fds /\ fds[f] # None
  /\ 0 \in ready => datagrams.queued > 0
  /\ Stacks \subseteq {{}} => stale = {} /\ \A f \in ready : f # 0 => Readable(fds[f])

SelectInv == SelectTypes /\ EntriesOk /\ ReadyOk

(* What the names of Peers mean in the servers of SelectServers.           *)
LEMMA SelectPeers ==
  /\ S!Fds = Fds /\ S!FreeFd = FreeFd /\ S!udp = 0
  /\ \A T : S!Min(T) = Min(T)
  /\ \A c : S!Readable(c) <=> Readable(c)
  /\ \A T : S!CloseFds(T) => CloseFds(T)
  /\ \A c, n : S!Echoes(c, n) => Echoes(c, n)
  /\ \A c \in Clients : /\ S!Accepts(c) => Accepts(c)
                        /\ S!Refuses(c) => Refuses(c)
                        /\ S!Connects(c) => Connects(c)
                        /\ S!Arrives(c) => Arrives(c)
<1>1. \A T : S!Min(T) = Min(T)
  BY DEF S!Min, Min
<1>2. S!Fds = Fds
  BY DEF S!Fds, Fds, S!Cardinality, Cardinality
<1>3. S!FreeFd = FreeFd
  BY <1>1, <1>2 DEF S!FreeFd, FreeFd
<1>4. ASSUME NEW T
      PROVE  S!CloseFds(T) => CloseFds(T)
  BY <1>2 DEF S!CloseFds, CloseFds
<1>5. ASSUME NEW c, NEW n
      PROVE  S!Echoes(c, n) => Echoes(c, n)
  BY <1>1, Zenon DEF S!Echoes, Echoes, S!Upto, Upto
<1>6. ASSUME NEW c \in Clients
      PROVE  /\ S!Accepts(c) => Accepts(c)
             /\ S!Refuses(c) => Refuses(c)
             /\ S!Connects(c) => Connects(c)
             /\ S!Arrives(c) => Arrives(c)
  BY <1>3 DEF S!Accepts, Accepts, S!Refuses, Refuses, S!Pending, Pending,
         S!Connects, S!Arrives, S!Sends, S!ShutsDown, S!Resets, S!Alive, S!Open,
         Connects, Arrives, Sends, ShutsDown, Resets, Alive, Open
<1>7. ASSUME NEW c
      PROVE  S!Readable(c) <=> Readable(c)
  BY DEF S!Readable, Readable
<1>. QED
  BY <1>1, <1>2, <1>3, <1>4, <1>5, <1>6, <1>7 DEF S!udp

(* The types after a step, from those of the variables it changed.         *)
LEMMA SelectTypesNext ==
  ASSUME conn' \in [Clients -> Connection(Clients \X Nat)], FdTable',
         table' \in [S!Entries -> Fds \union {None}], datagrams' \in Datagrams
  PROVE  SelectTypes'
<1>1. S!Entries' = S!Entries /\ Fds' = Fds /\ Datagrams' = Datagrams
  BY DEF S!Entries, Fds, Datagrams
<1>2. Connection(Clients \X Nat)' = Connection(Clients \X Nat)
  BY DEF Connection
<1>. QED
  BY <1>1, <1>2, Zenon DEF SelectTypes

(* The table is empty before the first client.                             *)
LEMMA SelectInit ==
  ASSUME S!Init
  PROVE  SelectInv
<1>1. /\ conn = [c \in Clients |-> NoConn] /\ fds = [f \in Fds |-> None]
      /\ table = [i \in S!Entries |-> None] /\ ready = {}
      /\ datagrams = [sent |-> 0, queued |-> 0, echoed |-> 0]
      /\ Stacks \subseteq {{}} => stale = {}
  <2>1. stale \in Stacks \/ stale \in {{}}
    BY DEF S!Init
  <2>. QED
    BY <2>1, SelectPeers DEF S!Init, S!InitPeers, S!NoConn, NoConn
<1>2. conn \in [Clients -> Connection(Clients \X Nat)]
  BY <1>1, NoConnTyped
<1>3. FdTable
  BY <1>1, PeersAssumption DEF FdTable, NoConn
<1>4. table \in [S!Entries -> Fds \union {None}] /\ datagrams \in Datagrams
  BY <1>1 DEF Datagrams
<1>5. SelectTypes
  BY <1>2, <1>3, <1>4, Zenon DEF SelectTypes
<1>6. EntriesOk
  <2>1. \A f \in Fds : f # None
    BY PeersAssumption DEF Fds
  <2>. QED
    BY <1>1, <2>1 DEF EntriesOk
<1>7. ReadyOk
  BY <1>1 DEF ReadyOk
<1>. QED
  BY <1>5, <1>6, <1>7 DEF SelectInv

(* The descriptor whose turn it is is one the pass has to handle.          *)
LEMMA TurnIsReady ==
  ASSUME SelectInv, ready # {}
  PROVE  /\ S!Turn \in ready
         /\ S!Turn # 0 => S!Turn \in Fds /\ fds[S!Turn] \in Clients
<1>1. CASE ready = {0}
  <2>1. S!udp = 0
    BY DEF S!udp
  <2>2. S!Turn = 0
    BY <1>1, <2>1 DEF S!Turn
  <2>3. 0 \in ready
    BY <1>1
  <2>. QED
    BY <2>2, <2>3, Zenon
<1>2. CASE ready # {0}
  <2>1. PICK T : T = {i \in S!Entries : table[i] \in ready}
    BY Zenon
  <2>2. PICK f \in ready : f # 0
    BY <1>2
  <2>3. f \in Fds /\ fds[f] # None
    BY <2>2 DEF SelectInv, ReadyOk
  <2>4. T # {} /\ T \in SUBSET Nat
    BY <2>1, <2>2, <2>3 DEF SelectInv, EntriesOk, S!Entries
  <2>5. PICK m \in T : m = Min(T)
    BY <2>4, MinIsLeast, Zenon
  <2>6. S!Turn = table[m]
    BY <1>2, <2>1, <2>5, SelectPeers DEF S!Turn, S!udp
  <2>7. table[m] \in ready /\ table[m] \in Fds \union {None}
    BY <2>1 DEF SelectInv, SelectTypes
  <2>8. None \notin ready /\ 0 \notin Fds
    BY PeersAssumption DEF SelectInv, ReadyOk, Fds
  <2>9. table[m] \in Fds /\ fds[table[m]] # None
    BY <2>7, <2>8 DEF SelectInv, ReadyOk
  <2>10. fds[table[m]] \in Clients
    BY <2>9 DEF SelectInv, SelectTypes, FdTable
  <2>. QED
    BY <2>6, <2>7, <2>9, <2>10
<1>. QED
  BY <1>1, <1>2

(* No connection opens or closes, and the pass gets no more to do.         *)
LEMMA SelectKeeps ==
  ASSUME SelectInv, S!is' = S!is, table' = table, fds' = fds, ready' \in SUBSET ready,
         stale' = stale, conn' \in [Clients -> Connection(Clients \X Nat)],
         \A c \in Clients : conn'[c].stage = "open" <=> conn[c].stage = "open",
         \A f \in ready' : f # 0 /\ Readable(fds[f]) => Readable(fds[f])',
         datagrams' \in Datagrams, 0 \in ready' => datagrams'.queued > 0
  PROVE  SelectInv'
<1>1. FdTable'
  BY SameTable DEF SelectInv, SelectTypes
<1>2. SelectTypes'
  BY <1>1, SelectTypesNext, Zenon DEF SelectInv, SelectTypes
<1>3. EntriesOk'
  BY DEF SelectInv, EntriesOk, S!Entries, Fds
<1>4. ReadyOk'
  <2>1. \A f \in ready' : f # 0 => f \in Fds' /\ fds'[f] # None
    BY DEF SelectInv, ReadyOk, Fds
  <2>2. Stacks \subseteq {{}} => stale' = {} /\ \A f \in ready' : f # 0 => Readable(fds[f])'
    BY DEF SelectInv, ReadyOk
  <2>. QED
    BY <2>1, <2>2 DEF ReadyOk
<1>. QED
  BY <1>2, <1>3, <1>4 DEF SelectInv

(* select and poll return what is readable now; poll adds what the memory  *)
(* of fds held.                                                            *)
LEMMA SelectSelects ==
  ASSUME SelectInv, S!is' = S!is, S!Select
  PROVE  SelectInv'
<1>1. /\ UNCHANGED <<conn, fds, table, datagrams>>
      /\ ready' = S!Reported \union (IF datagrams.queued > 0 THEN {0} ELSE {})
      /\ stale' = stale \/ stale' = stale \ {i \in S!Entries : table[i] # None}
  BY SelectPeers DEF S!Select
<1>2. FdTable'
  BY <1>1, SameTable DEF SelectInv, SelectTypes
<1>3. SelectTypes'
  BY <1>1, <1>2, SelectTypesNext DEF SelectInv, SelectTypes
<1>4. EntriesOk'
  BY <1>1 DEF SelectInv, EntriesOk, S!Entries, Fds
<1>5. ASSUME NEW f \in S!Reported
      PROVE  f \in Fds /\ fds[f] # None /\ Readable(fds[f])
  <2>1. PICK i \in S!Entries : f = table[i] /\ f # None
    BY DEF S!Reported, S!Watched
  <2>2. f \in Fds
    BY <2>1 DEF SelectInv, SelectTypes
  <2>3. fds[f] # None
    BY <2>1, <2>2 DEF SelectInv, EntriesOk
  <2>. QED
    BY <2>2, <2>3, SelectPeers DEF S!Reported
<1>6. 0 \notin Fds
  BY DEF Fds
<1>7. ReadyOk'
  <2>1. \A f \in ready' : f # 0 => f \in Fds' /\ fds'[f] # None
    <3>1. ASSUME NEW f \in ready', f # 0
          PROVE  f \in Fds /\ fds'[f] # None
      BY <1>1, <1>5, <3>1
    <3>. QED
      BY <3>1 DEF Fds
  <2>2. 0 \in ready' => datagrams'.queued > 0
    BY <1>1, <1>5, <1>6
  <2>3. ASSUME Stacks \subseteq {{}}
        PROVE  stale' = {} /\ \A f \in ready' : f # 0 => Readable(fds[f])'
    <3>1. stale' = {}
      BY <1>1, <2>3 DEF SelectInv, ReadyOk
    <3>2. \A f \in ready' : f # 0 => Readable(fds[f])'
      BY <1>1, <1>5 DEF Readable
    <3>. QED
      BY <3>1, <3>2
  <2>. QED
    BY <2>1, <2>2, <2>3 DEF ReadyOk
<1>. QED
  BY <1>3, <1>4, <1>7 DEF SelectInv

(* A new connection is entered in a free entry.                            *)
LEMMA SelectTakes ==
  ASSUME SelectInv, S!is' = S!is, NEW c \in Clients, S!NewConnection(c)
  PROVE  SelectInv'
<1>1. PICK f, i : f = FreeFd /\ i = IF S!is.byDescriptor THEN FreeFd ELSE S!FirstFree
  OBVIOUS
<1>2. /\ ~ S!Full /\ Accepts(c) /\ datagrams' = datagrams
      /\ table' = [table EXCEPT ![i] = f]
      /\ ready' = IF i \in stale /\ ready # {} THEN ready \union {f} ELSE ready
      /\ stale' = stale \ {i}
  BY <1>1, SelectPeers DEF S!NewConnection, S!Enters
<1>3. /\ conn \in [Clients -> Connection(Clients \X Nat)] /\ FdTable
      /\ table \in [S!Entries -> Fds \union {None}] /\ datagrams \in Datagrams
      /\ EntriesOk /\ ReadyOk
  BY Zenon DEF SelectInv, SelectTypes
<1>4. /\ conn' \in [Clients -> Connection(Clients \X Nat)] /\ FdTable'
      /\ conn[c].stage = "pending" /\ f \in Fds /\ fds[f] = None
      /\ fds' = [fds EXCEPT ![f] = c]
      /\ \A d \in Clients \ {c} : conn'[d] = conn[d]
  BY <1>1, <1>2, <1>3, AcceptsTyped, Zenon
<1>5. c # None /\ fds'[f] = c /\ \A g \in Fds : g # f => fds'[g] = fds[g]
  BY <1>3, <1>4, PeersAssumption DEF FdTable
<1>6. i \in S!Entries /\ table[i] = None /\ (S!is.byDescriptor => i = f)
  <2>1. CASE S!is.byDescriptor
    <3>1. i = f /\ ~ (f > TABLE_MAX)
      BY <1>1, <1>2, <2>1, SelectPeers DEF S!Full
    <3>2. i \in S!Entries
      BY <1>4, <3>1, FdsFinite, ServersAssumption DEF Fds, S!Entries
    <3>3. table[i] \in {None, i}
      BY <1>3, <2>1, <3>2 DEF EntriesOk
    <3>4. table[i] # i
      BY <1>3, <1>4, <3>1, <3>2 DEF EntriesOk
    <3>. QED
      BY <3>1, <3>2, <3>3, <3>4
  <2>2. CASE ~ S!is.byDescriptor
    <3>1. PICK T : T = {j \in S!Entries : table[j] = None}
      BY Zenon
    <3>2. T # {} /\ T \in SUBSET Nat
      BY <1>2, <2>2, <3>1 DEF S!Full, S!Entries
    <3>3. i = Min(T)
      BY <1>1, <2>2, <3>1, SelectPeers DEF S!FirstFree
    <3>. QED
      BY <2>2, <3>1, <3>2, <3>3, MinIsLeast
  <2>. QED
    BY <2>1, <2>2
<1>7. /\ table' \in [S!Entries -> Fds \union {None}] /\ table'[i] = f
      /\ \A j \in S!Entries : j # i => table'[j] = table[j]
  BY <1>2, <1>3, <1>4, <1>6
<1>8. SelectTypes'
  BY <1>2, <1>3, <1>4, <1>7, SelectTypesNext, Zenon
<1>9. \A j \in S!Entries : table[j] # f
  BY <1>3, <1>4 DEF EntriesOk
<1>10. EntriesOk'
  <2>1. \A j, k \in S!Entries : table'[j] = table'[k] /\ table'[j] # None => j = k
    BY <1>3, <1>7, <1>9 DEF EntriesOk
  <2>2. ASSUME NEW g \in Fds
        PROVE  fds'[g] # None <=> \E j \in S!Entries : table'[j] = g
    <3>1. CASE g = f
      BY <1>5, <1>6, <1>7, <3>1
    <3>2. CASE g # f
      <4>1. g # None
        BY PeersAssumption DEF Fds
      <4>2. (\E j \in S!Entries : table'[j] = g) <=> \E j \in S!Entries : table[j] = g
        BY <1>6, <1>7, <3>2, <4>1
      <4>. QED
        BY <1>3, <1>5, <3>2, <4>2 DEF EntriesOk
    <3>. QED
      BY <3>1, <3>2
  <2>3. S!is.byDescriptor => \A j \in S!Entries : table'[j] \in {None, j}
    BY <1>3, <1>6, <1>7 DEF EntriesOk
  <2>. QED
    BY <2>1, <2>2, <2>3 DEF EntriesOk, S!Entries, Fds
<1>11. ReadyOk'
  <2>1. \A g \in ready' : g # 0 => g \in Fds /\ fds'[g] # None
    BY <1>2, <1>3, <1>4, <1>5 DEF ReadyOk
  <2>2. 0 \in ready' => datagrams'.queued > 0
    <3>1. 0 # f
      BY <1>4 DEF Fds
    <3>. QED
      BY <1>2, <1>3, <3>1 DEF ReadyOk
  <2>3. ASSUME Stacks \subseteq {{}}
        PROVE  stale' = {} /\ \A g \in ready' : g # 0 => Readable(fds[g])'
    <3>1. stale = {} /\ stale' = {} /\ ready' = ready
      BY <1>2, <1>3, <2>3 DEF ReadyOk
    <3>2. ASSUME NEW g \in ready, g # 0
          PROVE  Readable(fds[g])'
      <4>1. g \in Fds /\ fds[g] # None /\ Readable(fds[g])
        BY <1>3, <2>3, <3>2 DEF ReadyOk
      <4>2. PICK d \in Clients : d = fds[g] /\ d = fds'[g]
        BY <1>3, <1>4, <1>5, <4>1 DEF FdTable
      <4>3. d # c
        BY <1>3, <1>4, <4>1, <4>2, Zenon DEF FdTable
      <4>4. conn'[d] = conn[d]
        BY <1>4, <4>3
      <4>. QED
        BY <4>1, <4>2, <4>4 DEF Readable
    <3>. QED
      BY <3>1, <3>2
  <2>. QED
    BY <2>1, <2>2, <2>3 DEF ReadyOk, Fds
<1>. QED
  BY <1>8, <1>10, <1>11 DEF SelectInv

(* A connection for which there is no entry is closed at once.             *)
LEMMA SelectTurnsAway ==
  ASSUME SelectInv, S!is' = S!is, NEW c \in Clients, S!TurnsAway(c)
  PROVE  SelectInv'
<1>1. Refuses(c) /\ UNCHANGED <<table, stale, ready, datagrams>>
  BY SelectPeers DEF S!TurnsAway
<1>2. /\ conn \in [Clients -> Connection(Clients \X Nat)] /\ FdTable
      /\ datagrams \in Datagrams /\ ReadyOk
  BY Zenon DEF SelectInv, SelectTypes
<1>3. /\ conn' \in [Clients -> Connection(Clients \X Nat)] /\ fds' = fds
      /\ conn[c].stage = "pending" /\ conn'[c].stage = "closed"
      /\ \A d \in Clients \ {c} : conn'[d] = conn[d]
  BY <1>1, <1>2, RefusesTyped, Zenon
<1>4. \A d \in Clients : conn'[d].stage = "open" <=> conn[d].stage = "open"
  BY <1>3
<1>5. ASSUME NEW f \in ready, f # 0, Readable(fds[f])
      PROVE  Readable(fds[f])'
  <2>1. f \in Fds /\ fds[f] # None
    BY <1>2, <1>5 DEF ReadyOk
  <2>2. fds[f] \in Clients /\ fds[f] # c
    BY <1>2, <1>3, <2>1 DEF FdTable
  <2>. QED
    BY <1>3, <1>5, <2>2 DEF Readable
<1>. QED
  BY <1>1, <1>2, <1>3, <1>4, <1>5, SelectKeeps, Zenon DEF ReadyOk

(* A read of data, the end of a connection, and the exit of the server.    *)
LEMMA SelectReads ==
  ASSUME SelectInv, S!is' = S!is, NEW f \in Fds, S!ReadsData(f)
  PROVE  SelectInv'
<1>1. /\ ready # {} /\ f = S!Turn /\ ready' = ready \ {f} /\ Echoes(fds[f], READ_MAX)
      /\ UNCHANGED <<fds, table, stale, datagrams>>
  BY SelectPeers DEF S!ReadsData, S!Handles
<1>2. /\ conn \in [Clients -> Connection(Clients \X Nat)] /\ FdTable
      /\ datagrams \in Datagrams /\ ReadyOk
  BY DEF SelectInv, SelectTypes
<1>3. f # 0
  BY DEF Fds
<1>4. PICK c \in Clients : c = fds[f]
  BY <1>1, <1>3, TurnIsReady
<1>5. READ_MAX \in Nat
  BY ServersAssumption
<1>6. PICK r \in Connection(Clients \X Nat) :
        conn' = [conn EXCEPT ![c] = r] /\ r.stage = conn[c].stage
  <2>1. \E r \in Connection(Clients \X Nat) :
          /\ conn' = [conn EXCEPT ![c] = r]
          /\ r.stage = conn[c].stage /\ r.sent = conn[c].sent
          /\ r.fin = conn[c].fin /\ r.reset = conn[c].reset
          /\ r.echoed = conn[c].echoed \o Upto(READ_MAX, conn[c].unread)
          /\ r.unread = SubSeq(conn[c].unread, READ_MAX + 1, Len(conn[c].unread))
    BY <1>1, <1>2, <1>4, <1>5, EchoesTyped, Zenon
  <2>. QED
    BY <2>1, Zenon
<1>7. /\ conn' \in [Clients -> Connection(Clients \X Nat)]
      /\ \A d \in Clients : conn'[d].stage = "open" <=> conn[d].stage = "open"
      /\ \A d \in Clients \ {c} : conn'[d] = conn[d]
  BY <1>2, <1>6
<1>8. ASSUME NEW g \in ready', g # 0, Readable(fds[g])
      PROVE  Readable(fds[g])'
  <2>1. g \in Fds /\ fds[g] # None /\ g # f
    BY <1>1, <1>2, <1>8 DEF ReadyOk
  <2>2. fds[g] \in Clients \ {c}
    BY <1>2, <1>4, <2>1 DEF FdTable
  <2>. QED
    BY <1>1, <1>7, <1>8, <2>2 DEF Readable
<1>9. 0 \in ready' => datagrams'.queued > 0
  BY <1>1, <1>2 DEF ReadyOk
<1>. QED
  BY <1>1, <1>2, <1>7, <1>8, <1>9, SelectKeeps, Zenon

(* An end of file frees the descriptor and its entry together.             *)
LEMMA SelectReadsEnd ==
  ASSUME SelectInv, S!is' = S!is, NEW f \in Fds, S!ReadsEnd(f)
  PROVE  SelectInv'
<1>1. /\ ready' = ready \ {f} /\ stale' = stale /\ datagrams' = datagrams /\ CloseFds({f})
      /\ table' = [i \in S!Entries |-> IF table[i] = f THEN None ELSE table[i]]
  BY SelectPeers DEF S!ReadsEnd, S!Handles, S!Closes
<1>2. /\ conn \in [Clients -> Connection(Clients \X Nat)] /\ FdTable
      /\ table \in [S!Entries -> Fds \union {None}]
      /\ datagrams \in Datagrams /\ ReadyOk /\ EntriesOk
  BY Zenon DEF SelectInv, SelectTypes
<1>3. /\ conn' \in [Clients -> Connection(Clients \X Nat)] /\ FdTable'
      /\ \A g \in Fds : fds'[g] = IF g \in {f} THEN None ELSE fds[g]
      /\ \A c \in Clients : fds[f] # c => conn'[c] = conn[c]
  <2>1. PICK T \in SUBSET Fds : T = {f}
    BY Zenon
  <2>2. /\ conn' \in [Clients -> Connection(Clients \X Nat)] /\ FdTable'
        /\ \A g \in Fds : fds'[g] = IF g \in T THEN None ELSE fds[g]
        /\ \A c \in Clients : (\A g \in T : fds[g] # c) => conn'[c] = conn[c]
    BY <1>1, <1>2, <2>1, ClosesTyped, Zenon
  <2>. QED
    BY <2>1, <2>2, Zenon
<1>4. /\ table' \in [S!Entries -> Fds \union {None}]
      /\ \A i \in S!Entries : table'[i] = IF table[i] = f THEN None ELSE table[i]
  <2>1. ASSUME NEW i \in S!Entries
        PROVE  /\ table'[i] = IF table[i] = f THEN None ELSE table[i]
               /\ table'[i] \in Fds \union {None}
    BY <1>1, <1>2
  <2>2. PICK g : g = [i \in S!Entries |-> table'[i]]
    BY Zenon
  <2>3. table' = g
    BY <1>1, <2>2
  <2>. QED
    BY <2>1, <2>2, <2>3
<1>5. SelectTypes'
  BY <1>1, <1>2, <1>3, <1>4, SelectTypesNext
<1>6. EntriesOk'
  <2>1. \A i, j \in S!Entries : table'[i] = table'[j] /\ table'[i] # None => i = j
    BY <1>2, <1>4 DEF EntriesOk
  <2>2. ASSUME NEW g \in Fds
        PROVE  fds'[g] # None <=> \E i \in S!Entries : table'[i] = g
    <3>1. g # None
      BY PeersAssumption DEF Fds
    <3>. QED
      BY <1>2, <1>3, <1>4, <3>1 DEF EntriesOk
  <2>3. S!is.byDescriptor => \A i \in S!Entries : table'[i] \in {None, i}
    BY <1>2, <1>4 DEF EntriesOk
  <2>. QED
    BY <2>1, <2>2, <2>3 DEF EntriesOk, S!Entries, Fds
<1>7. ASSUME NEW g \in ready', g # 0
      PROVE  /\ g \in Fds /\ fds'[g] # None
             /\ Readable(fds[g]) => Readable(fds[g])'
  <2>1. g \in Fds /\ fds[g] # None /\ g # f /\ fds'[g] = fds[g]
    BY <1>1, <1>2, <1>3, <1>7 DEF ReadyOk
  <2>2. PICK c \in Clients : c = fds[g]
    BY <1>2, <2>1 DEF FdTable
  <2>3. fds[f] # c
    BY <1>2, <2>1, <2>2 DEF FdTable
  <2>4. conn'[c] = conn[c]
    BY <1>3, <2>3
  <2>. QED
    BY <2>1, <2>2, <2>4 DEF Readable
<1>8. ReadyOk'
  BY <1>1, <1>2, <1>7 DEF ReadyOk, Fds
<1>. QED
  BY <1>5, <1>6, <1>8 DEF SelectInv

(* A step that reads, opens and closes nothing.                            *)
LEMMA SelectPasses ==
  ASSUME SelectInv, S!is' = S!is,
         \/ S!PassEnds \/ S!sig_int
         \/ \E f \in Fds : S!PassesBy(f) \/ S!Exits(f)
  PROVE  SelectInv'
<1>1. UNCHANGED <<conn, fds, table, stale, datagrams>> /\ ready' \in SUBSET ready
  BY DEF S!PassEnds, S!sig_int, S!PassesBy, S!Exits, S!Handles
<1>2. \A f \in ready' : f # 0 /\ Readable(fds[f]) => Readable(fds[f])'
  BY <1>1 DEF Readable
<1>. QED
  BY <1>1, <1>2, SelectKeeps DEF SelectInv, SelectTypes, ReadyOk

(* The datagrams of the server with a UDP socket do not touch the table.   *)
LEMMA SelectDatagrams ==
  ASSUME SelectInv, S!is' = S!is, S!handler_udp_read \/ S!SendsDatagram
  PROVE  SelectInv'
<1>1. UNCHANGED <<conn, fds, table, stale>>
  BY DEF S!handler_udp_read, S!SendsDatagram, S!Handles
<1>2. datagrams \in Datagrams /\ ReadyOk /\ conn \in [Clients -> Connection(Clients \X Nat)]
  BY Zenon DEF SelectInv, SelectTypes
<1>3. datagrams.sent \in Nat /\ datagrams.queued \in Nat /\ datagrams.echoed \in Nat
  BY <1>2 DEF Datagrams
<1>4. CASE S!handler_udp_read
  <2>1. /\ ready # {} /\ S!Turn = 0 /\ ready' = ready \ {0}
        /\ datagrams' = [datagrams EXCEPT !.queued = datagrams.queued - 1,
                                          !.echoed = datagrams.echoed + 1]
    BY <1>4 DEF S!handler_udp_read, S!Handles, S!udp
  <2>2. datagrams.queued > 0
    BY <1>2, <2>1, TurnIsReady DEF ReadyOk
  <2>3. datagrams.queued - 1 \in Nat /\ datagrams.echoed + 1 \in Nat
    BY <1>3, <2>2
  <2>4. datagrams' \in Datagrams
    <3>1. PICK d1 : d1 = [datagrams EXCEPT !.queued = datagrams.queued - 1]
      BY Zenon
    <3>2. d1 \in Datagrams
      BY <1>2, <2>3, <3>1 DEF Datagrams
    <3>3. PICK d2 : d2 = [d1 EXCEPT !.echoed = datagrams.echoed + 1]
      BY Zenon
    <3>4. d2 \in Datagrams
      BY <2>3, <3>2, <3>3 DEF Datagrams
    <3>. QED
      BY <2>1, <3>1, <3>3, <3>4, Zenon
  <2>5. \A f \in ready' : f # 0 /\ Readable(fds[f]) => Readable(fds[f])'
    BY <1>1 DEF Readable
  <2>6. ready' \in SUBSET ready /\ 0 \notin ready'
    BY <2>1
  <2>. QED
    BY <1>1, <1>2, <2>4, <2>5, <2>6, SelectKeeps
<1>5. CASE S!SendsDatagram
  <2>1. /\ ready' = ready
        /\ datagrams' = [datagrams EXCEPT !.sent = datagrams.sent + 1,
                                          !.queued = datagrams.queued + 1]
    BY <1>5 DEF S!SendsDatagram
  <2>2. datagrams.sent + 1 \in Nat /\ datagrams.queued + 1 \in Nat /\ datagrams.queued + 1 > 0
    BY <1>3
  <2>3. datagrams' \in Datagrams /\ datagrams'.queued > 0
    <3>1. PICK d1 : d1 = [datagrams EXCEPT !.sent = datagrams.sent + 1]
      BY Zenon
    <3>2. d1 \in Datagrams
      BY <1>2, <2>2, <3>1 DEF Datagrams
    <3>3. PICK d2 : d2 = [d1 EXCEPT !.queued = datagrams.queued + 1]
      BY Zenon
    <3>4. d2 \in Datagrams /\ d2.queued = datagrams.queued + 1
      BY <2>2, <3>2, <3>3 DEF Datagrams
    <3>5. datagrams' = d2
      BY <2>1, <3>1, <3>3, Zenon
    <3>. QED
      BY <2>2, <3>4, <3>5
  <2>4. \A f \in ready' : f # 0 /\ Readable(fds[f]) => Readable(fds[f])'
    BY <1>1 DEF Readable
  <2>. QED
    BY <1>1, <1>2, <2>1, <2>3, <2>4, SelectKeeps, Zenon
<1>. QED
  BY <1>4, <1>5

(* What arrives from the clients makes more descriptors readable, never    *)
(* fewer.                                                                  *)
LEMMA SelectArrives ==
  ASSUME SelectInv, S!is' = S!is, NEW c \in Clients, Connects(c) \/ Arrives(c),
         UNCHANGED <<fds, table, stale, ready, datagrams>>
  PROVE  SelectInv'
<1>1. /\ conn \in [Clients -> Connection(Clients \X Nat)] /\ FdTable
      /\ datagrams \in Datagrams /\ ReadyOk
  BY Zenon DEF SelectInv, SelectTypes
<1>2. PICK r \in Connection(Clients \X Nat) :
        /\ conn' = [conn EXCEPT ![c] = r]
        /\ r.stage = "open" <=> conn[c].stage = "open"
  <2>1. \E r \in Connection(Clients \X Nat) :
          /\ conn' = [conn EXCEPT ![c] = r]
          /\ r.echoed = conn[c].echoed
          /\ \/ Arrives(c) /\ r.stage = conn[c].stage /\ r.stage \in {"pending", "open"}
             \/ conn[c].stage = "none" /\ r.stage = "pending"
    BY <1>1, ArrivesTyped, Zenon
  <2>. QED
    BY <2>1, Zenon
<1>3. /\ conn' \in [Clients -> Connection(Clients \X Nat)]
      /\ \A d \in Clients : conn'[d].stage = "open" <=> conn[d].stage = "open"
  BY <1>1, <1>2
<1>4. ASSUME NEW f \in ready, f # 0, Readable(fds[f])
      PROVE  Readable(fds[f])'
  <2>1. PICK d \in Clients : d = fds[f]
    BY <1>1, <1>4 DEF ReadyOk, FdTable
  <2>2. Readable(d)'
    BY <1>1, <1>4, <2>1, StaysReadable, Zenon
  <2>. QED
    BY <2>1, <2>2 DEF Readable
<1>. QED
  BY <1>1, <1>3, <1>4, SelectKeeps, Zenon DEF ReadyOk

(* Every step of a select or poll server keeps the invariant.              *)
LEMMA SelectNext ==
  ASSUME SelectInv, S!is' = S!is, S!Next
  PROVE  SelectInv'
<1>1. CASE S!Server
  BY <1>1, SelectPeers, SelectSelects, SelectTakes, SelectTurnsAway, SelectReads, SelectReadsEnd,
     SelectPasses, SelectDatagrams DEF S!Server
<1>2. CASE S!Environment
  BY <1>2, SelectPeers, SelectPasses, SelectDatagrams, SelectArrives DEF S!Environment
<1>. QED
  BY <1>1, <1>2 DEF S!Next

(* The invariant holds throughout the runs of the select and poll servers. *)
LEMMA SelectAlways == Spec => [](Runs(S!Programs) => SelectInv)
<1>1. Init => (Runs(S!Programs) => SelectInv)
  BY OnlyOneStarts, SelectInit
<1>2. ASSUME Runs(S!Programs) => SelectInv, [Next]_mcVars
      PROVE  (Runs(S!Programs) => SelectInv)'
  <2>1. program' = program /\ S!is' = S!is
    BY <1>2, ProgramStays DEF S!is
  <2>2. CASE UNCHANGED mcVars
    <3>1. UNCHANGED <<conn, fds, table, stale, ready, datagrams>>
      BY <2>2 DEF mcVars, selectVars
    <3>2. ASSUME SelectInv
          PROVE  SelectInv'
      <4>1. \A f \in ready' : f # 0 /\ Readable(fds[f]) => Readable(fds[f])'
        BY <3>1 DEF Readable
      <4>. QED
        BY <2>1, <3>1, <3>2, <4>1, SelectKeeps, Zenon DEF SelectInv, SelectTypes, ReadyOk
    <3>. QED
      BY <1>2, <2>1, <3>2 DEF Runs
  <2>3. CASE Next
    BY <1>2, <2>1, <2>3, OnlyOneRuns, SelectNext DEF Runs
  <2>. QED
    BY <1>2, <2>2, <2>3
<1>. QED
  BY <1>1, <1>2, PTL DEF Spec

(* The table holds exactly the open descriptors, in the program's own      *)
(* terms.                                                                  *)
LEMMA SelectAgrees ==
  ASSUME SelectInv
  PROVE  S!TableAgrees
<1>1. EntriesOk /\ ReadyOk /\ table \in [S!Entries -> Fds \union {None}]
  BY DEF SelectInv, SelectTypes
<1>2. \A f \in Fds : f # None
  BY PeersAssumption DEF Fds
<1>3. S!Watched = {f \in Fds : fds[f] # None}
  <2>1. ASSUME NEW f
        PROVE  f \in S!Watched <=> f \in Fds /\ fds[f] # None
    BY <1>1, <1>2 DEF S!Watched, EntriesOk
  <2>. QED
    BY <2>1
<1>4. ready \subseteq S!Watched \union {0}
  BY <1>1, <1>3 DEF ReadyOk
<1>. QED
  BY <1>1, <1>3, <1>4, SelectPeers DEF S!TableAgrees, EntriesOk

(***************************************************************************)
(* The tables by which the servers know their connections agree with the   *)
(* descriptors that are open, for any number of clients and entries: the   *)
(* nodes of epoll_reactor.c and what epoll has registered, the sets and    *)
(* arrays of those that use select and poll, the events of test4.c.        *)
(***************************************************************************)
THEOREM TablesAgree == Spec => []TableAgrees
<1>1. /\ Runs({"epoll_reactor"}) => ReactInv
      /\ Runs(S!Programs) => SelectInv
      /\ Runs(L!Programs) => (~ L!Buffers => EventInv)
      => TableAgrees
  BY ReactAgrees, SelectAgrees, EventAgrees DEF TableAgrees, L!EventsAgree
<1>. QED
  BY <1>1, ReactAlways, SelectAlways, EventAlways, PTL

-----------------------------------------------------------------------------
(* EpollServers.                                                           *)
EpollTypes ==
  /\ conn \in [Clients -> Connection(Clients \X Nat)]
  /\ FdTable
  /\ interest \in [Fds -> Registration \union {None}]
  /\ events \in Seq(Reported)
  /\ buf \in [Fds -> Seq(Clients \X Nat)]
  /\ pc \in {"wait", "handle", "exited"}

(* epoll knows the open descriptors by their own number.                   *)
PollsOk(f) ==
  /\ interest[f] = None <=> fds[f] = None
  /\ interest[f] # None => interest[f].ptr = f

(* An event of the batch is for the connection it was reported for; if it  *)
(* calls for a read, there is something to read.                           *)
ReportOk(e) ==
  IF e.of = None THEN e.ptr = 0
  ELSE /\ e.ptr \in Fds
       /\ fds[e.ptr] = e.of
       /\ interest[e.ptr].events # "OUT" => Readable(e.of)

BatchOk ==
  /\ \A i \in 1 .. Len(events) : ReportOk(events[i])
  /\ \A i, j \in 1 .. Len(events) : i # j => events[i].ptr # events[j].ptr
  /\ pc = "wait" => events = <<>>

EpollInv == EpollTypes /\ (\A f \in Fds : PollsOk(f)) /\ BatchOk

(* What the names of Peers and Epoll mean in the servers of EpollServers.  *)
LEMMA EpollPeers ==
  /\ E!Fds = Fds /\ E!FreeFd = FreeFd /\ E!lfd = 0
  /\ \A T : E!Min(T) = Min(T)
  /\ \A c : E!Readable(c) <=> Readable(c)
  /\ \A l : E!epoll_wait(l) => epoll_wait(l)
  /\ \A n, c, ev : E!Registered(n, c, ev) = Registered(n, c, ev)
  /\ \A T : E!CloseFds(T) => CloseFds(T)
  /\ \A T : E!Unregister(T) => Unregister(T)
  /\ \A c, n : E!Echoes(c, n) => Echoes(c, n)
  /\ \A n, s : E!Upto(n, s) = Upto(n, s)
  /\ \A c \in Clients : /\ E!Accepts(c) => Accepts(c)
                        /\ E!Connects(c) => Connects(c)
                        /\ E!Arrives(c) => Arrives(c)
                        /\ E!Sends(c) => Sends(c)
                        /\ E!ShutsDown(c) => ShutsDown(c)
                        /\ E!Signals(c) => Signals(c)
<1>1. \A T : E!Min(T) = Min(T)
  BY DEF E!Min, Min
<1>2. E!Fds = Fds
  BY DEF E!Fds, Fds, E!Cardinality, Cardinality
<1>3. E!FreeFd = FreeFd
  BY <1>1, <1>2 DEF E!FreeFd, FreeFd
<1>4. \A c : E!Readable(c) <=> Readable(c)
  BY DEF E!Readable, Readable
<1>5. E!Pending = Pending /\ E!ReadyFds = ReadyFds
  BY <1>2, <1>4 DEF E!Pending, Pending, E!ReadyFds, ReadyFds
<1>6. \A l : E!Reports(l) = Reports(l)
  BY <1>5 DEF E!Reports, Reports
<1>7. \A T : E!Cardinality(T) = Cardinality(T)
  BY DEF E!Cardinality, Cardinality
<1>8. \A k, T : E!kSubset(k, T) = kSubset(k, T)
  BY <1>7 DEF E!kSubset, kSubset
<1>9. \A T : E!SetToSeqs(T) = SetToSeqs(T)
  BY <1>7 DEF E!SetToSeqs, SetToSeqs
<1>10. ASSUME NEW l, E!epoll_wait(l)
       PROVE  epoll_wait(l)
  <2>1. PICK most : most = Min({Cardinality(Reports(l)), EVENTS_MAX})
    OBVIOUS
  <2>2. most = E!Min({E!Cardinality(E!Reports(l)), EVENTS_MAX})
    BY <1>1, <1>6, <1>7, <2>1
  <2>3. \E batch \in kSubset(most, Reports(l)) :
          /\ batch # {}
          /\ events' \in SetToSeqs(batch)
          /\ interest' = [f \in Fds |->
               IF f \in ReadyFds /\ \E e \in batch : e.of = fds[f]
               THEN [interest[f] EXCEPT !.edge = FALSE] ELSE interest[f]]
    BY <1>2, <1>5, <1>6, <1>8, <1>9, <1>10, <2>2 DEF E!epoll_wait
  <2>. QED
    BY <2>1, <2>3 DEF epoll_wait
<1>11. \A n, c, ev : E!Registered(n, c, ev) = Registered(n, c, ev)
  BY <1>4, Zenon DEF E!Registered, Registered
<1>12. ASSUME NEW T
       PROVE  /\ E!CloseFds(T) => CloseFds(T)
              /\ E!Unregister(T) => Unregister(T)
  BY <1>2 DEF E!CloseFds, CloseFds, E!Unregister, Unregister
<1>13. \A n, s : E!Upto(n, s) = Upto(n, s)
  BY <1>1, Zenon DEF E!Upto, Upto
<1>14. ASSUME NEW c, NEW n
       PROVE  E!Echoes(c, n) => Echoes(c, n)
  BY <1>13, Zenon DEF E!Echoes, Echoes
<1>15. ASSUME NEW c \in Clients
       PROVE  /\ E!Accepts(c) => Accepts(c)
              /\ E!Connects(c) => Connects(c)
              /\ E!Arrives(c) => Arrives(c)
              /\ E!Sends(c) => Sends(c)
              /\ E!ShutsDown(c) => ShutsDown(c)
              /\ E!Signals(c) => Signals(c)
  BY <1>2, <1>3, <1>5 DEF E!Accepts, Accepts, E!Connects, E!Arrives, E!Sends, E!ShutsDown,
     E!Resets, E!Alive, E!Open, E!Signals, Connects, Arrives, Sends, ShutsDown, Resets, Alive,
     Open, Signals
<1>. QED
  BY <1>1, <1>2, <1>3, <1>4, <1>10, <1>11, <1>12, <1>13, <1>14, <1>15 DEF E!lfd

(* The types after a step, from those of the variables it changed.         *)
LEMMA EpollTypesNext ==
  ASSUME conn' \in [Clients -> Connection(Clients \X Nat)], FdTable',
         interest' \in [Fds -> Registration \union {None}], events' \in Seq(Reported),
         buf' \in [Fds -> Seq(Clients \X Nat)], pc' \in {"wait", "handle", "exited"}
  PROVE  EpollTypes'
<1>1. Fds' = Fds /\ Connection(Clients \X Nat)' = Connection(Clients \X Nat)
  BY DEF Fds, Connection
<1>2. Registration' = Registration /\ Reported' = Reported
  BY DEF Registration, Reported
<1>. QED
  BY <1>1, <1>2, Zenon DEF EpollTypes

(* The record of epoll_ctl keeps the descriptor and the events it was      *)
(* given.                                                                  *)
LEMMA RegisteredTyped ==
  ASSUME NEW f \in Fds, NEW c, NEW ev \in {"IN", "IN|ET", "OUT"}
  PROVE  /\ Registered(f, c, ev) \in Registration \ {None}
         /\ Registered(f, c, ev).ptr = f /\ Registered(f, c, ev).events = ev
<1>1. PICK b : b = Readable(c)
  OBVIOUS
<1>2. b \in BOOLEAN
  BY <1>1 DEF Readable
<1>3. Registered(f, c, ev) = [ptr |-> f, events |-> ev, edge |-> b]
  BY <1>1 DEF Registered
<1>4. f \in Nat
  BY DEF Fds
<1>6. Registered(f, c, ev) \in Registration
  BY <1>2, <1>3, <1>4 DEF Registration
<1>. QED
  BY <1>3, <1>6, EpollAssumption DEF Registration

(* No client is registered before the first accept.                        *)
LEMMA EpollInit ==
  ASSUME E!Init
  PROVE  EpollInv
<1>1. events = <<>> /\ pc = "wait"
  BY DEF E!Init, E!InitPipe, E!InitEpoll
<1>2. events \in Seq(Reported) /\ Len(events) = 0
  BY <1>1, EmptySeq
<1>3. BatchOk
  BY <1>1, <1>2 DEF BatchOk
<1>4. buf \in [Fds -> Seq(Clients \X Nat)]
  <2>1. buf = [f \in Fds |-> <<>>] /\ <<>> \in Seq(Clients \X Nat)
    BY EpollPeers DEF E!Init
  <2>. QED
    BY <2>1
<1>5. CASE ~ E!Piped
  <2>1. /\ conn = [c \in Clients |-> NoConn] /\ fds = [f \in Fds |-> None]
        /\ interest = [f \in Fds |-> None]
    BY <1>5, EpollPeers DEF E!Init, E!InitPeers, E!InitEpoll, E!NoConn, NoConn
  <2>2. conn \in [Clients -> Connection(Clients \X Nat)]
    BY <2>1, NoConnTyped
  <2>3. FdTable
    BY <2>1, PeersAssumption DEF FdTable, NoConn
  <2>4. interest \in [Fds -> Registration \union {None}]
    BY <2>1
  <2>5. EpollTypes
    BY <1>1, <1>2, <1>4, <2>2, <2>3, <2>4, Zenon DEF EpollTypes
  <2>6. \A f \in Fds : PollsOk(f)
    BY <2>1 DEF PollsOk
  <2>. QED
    BY <1>3, <2>5, <2>6 DEF EpollInv
<1>6. CASE E!Piped
  <2>0. PICK o, r : /\ o = [NoConn EXCEPT !.stage = "open"]
                    /\ r = [ptr |-> 1, events |-> E!IN_, edge |-> FALSE]
    BY Zenon
  <2>1. PICK c \in Clients :
          /\ conn = [d \in Clients |-> IF d = c THEN o ELSE NoConn]
          /\ fds = [f \in Fds |-> IF f = 1 THEN c ELSE None]
          /\ interest = [f \in Fds |-> IF f = 1 THEN r ELSE None]
    <3>1. PICK c \in Clients :
            /\ conn = [d \in Clients |-> IF d = c THEN [E!NoConn EXCEPT !.stage = "open"] ELSE E!NoConn]
            /\ fds = [f \in E!Fds |-> IF f = 1 THEN c ELSE None]
            /\ interest = [f \in E!Fds |-> IF f = 1 THEN [ptr |-> 1, events |-> E!IN_, edge |-> FALSE]
                                                   ELSE None]
      BY <1>6 DEF E!Init, E!InitPipe
    <3>2. E!NoConn = NoConn /\ E!Fds = Fds
      BY EpollPeers DEF E!NoConn, NoConn
    <3>. QED
      BY <2>0, <3>1, <3>2
  <2>2. o \in Connection(Clients \X Nat) /\ o.stage = "open" /\ NoConn.stage = "none"
    <3>1. NoConn \in Connection(Clients \X Nat)
      BY NoConnTyped
    <3>. QED
      BY <2>0, <3>1, Zenon DEF Connection, NoConn
  <2>3. conn \in [Clients -> Connection(Clients \X Nat)]
    <3>1. PICK n \in Connection(Clients \X Nat) : n = NoConn
      BY NoConnTyped
    <3>. QED
      BY <2>1, <2>2, <3>1
  <2>4. 1 \in Fds
    <3>1. Cardinality(Clients) # 0
      BY PeersAssumption, FS_EmptySet
    <3>. QED
      BY <3>1, FdsFinite DEF Fds
  <2>5. c # None
    BY PeersAssumption
  <2>6. FdTable
    <3>1. fds \in [Fds -> Clients \union {None}]
      BY <2>1
    <3>2. \A f, g \in Fds : fds[f] = fds[g] /\ fds[f] # None => f = g
      BY <2>1
    <3>3. \A d \in Clients : conn[d].stage = "open" <=> \E f \in Fds : fds[f] = d
      BY <2>1, <2>2, <2>4, PeersAssumption
    <3>. QED
      BY <3>1, <3>2, <3>3 DEF FdTable
  <2>7. r \in Registration /\ r.ptr = 1
    BY <2>0 DEF Registration, E!IN_
  <2>8. r # None
    BY <2>7, EpollAssumption DEF Registration
  <2>9. interest \in [Fds -> Registration \union {None}]
    BY <2>1, <2>7
  <2>10. EpollTypes
    BY <1>1, <1>2, <1>4, <2>3, <2>6, <2>9, Zenon DEF EpollTypes
  <2>11. \A f \in Fds : PollsOk(f)
    BY <2>1, <2>5, <2>7, <2>8 DEF PollsOk
  <2>. QED
    BY <1>3, <2>10, <2>11 DEF EpollInv
<1>. QED
  BY <1>5, <1>6

(* The event a callback is called for, and the rest of the batch.          *)
LEMMA EpollHandles ==
  ASSUME EpollInv, NEW p, E!Handles(p)
  PROVE  /\ pc = "handle" /\ events' \in Seq(Reported)
         /\ \A i \in 1 .. Len(events') : ReportOk(events'[i]) /\ events'[i].ptr # p
         /\ \A i, j \in 1 .. Len(events') : i # j => events'[i].ptr # events'[j].ptr
         /\ p # 0 => /\ p \in Fds /\ fds[p] \in Clients /\ Head(events).of = fds[p]
                     /\ interest[p].events # "OUT" => Readable(fds[p])
<1>1. pc = "handle" /\ events # <<>> /\ Head(events).ptr = p /\ events' = Tail(events)
  BY DEF E!Handles
<1>2. events \in Seq(Reported)
  BY DEF EpollInv, EpollTypes
<1>3. PICK n \in Nat : n = Len(events')
  BY <1>1, <1>2, HeadTailProperties, LenProperties
<1>4. events' \in Seq(Reported) /\ Len(events) = n + 1 /\ Head(events) = events[1]
      /\ \A i \in 1 .. n : events'[i] = events[i + 1]
  BY <1>1, <1>2, <1>3
<1>5. ASSUME NEW i \in 1 .. n
      PROVE  ReportOk(events'[i]) /\ events'[i].ptr # p
  <2>1. 1 \in 1 .. Len(events) /\ i + 1 \in 1 .. Len(events) /\ i + 1 # 1
    BY <1>4
  <2>. QED
    BY <1>1, <1>4, <2>1 DEF EpollInv, BatchOk
<1>6. ASSUME NEW i \in 1 .. n, NEW j \in 1 .. n, i # j
      PROVE  events'[i].ptr # events'[j].ptr
  <2>1. i + 1 \in 1 .. Len(events) /\ j + 1 \in 1 .. Len(events) /\ i + 1 # j + 1
    BY <1>4, <1>6
  <2>. QED
    BY <1>4, <2>1 DEF EpollInv, BatchOk
<1>7. ASSUME p # 0
      PROVE  /\ p \in Fds /\ fds[p] \in Clients /\ Head(events).of = fds[p]
             /\ interest[p].events # "OUT" => Readable(fds[p])
  <2>1. PICK e \in Reported : e = Head(events)
    BY <1>1, <1>2, HeadTailProperties
  <2>2. ReportOk(e) /\ e.ptr = p /\ e.of \in Clients \union {None}
    BY <1>1, <1>4, <2>1 DEF EpollInv, BatchOk, Reported
  <2>. QED
    BY <1>7, <2>1, <2>2 DEF ReportOk
<1>. QED
  BY <1>1, <1>3, <1>4, <1>5, <1>6, <1>7

(* A callback leaves the rest of the batch as it was.                      *)
LEMMA EpollRest ==
  ASSUME EpollInv, NEW p, E!Handles(p), pc' \in {"handle", "exited"},
         conn' \in [Clients -> Connection(Clients \X Nat)], FdTable',
         interest' \in [Fds -> Registration \union {None}], buf' \in [Fds -> Seq(Clients \X Nat)],
         \A f \in Fds : /\ interest'[f] = None <=> fds'[f] = None
                        /\ interest'[f] # None => interest'[f].ptr = f,
         \A g \in Fds : g # p /\ fds[g] # None =>
           /\ fds'[g] = fds[g] /\ interest'[g].events = interest[g].events
           /\ Readable(fds[g]) => Readable(fds[g])'
  PROVE  EpollInv'
<1>1. pc' \in {"wait", "handle", "exited"} /\ events' \in Seq(Reported)
  BY EpollHandles
<1>2. EpollTypes'
  BY <1>1, EpollTypesNext, Zenon
<1>3. \A f \in Fds : PollsOk(f)'
  BY DEF PollsOk
<1>4. ASSUME NEW i \in 1 .. Len(events')
      PROVE  ReportOk(events[i])'
  <2>1. PICK e : e = events'[i]
    OBVIOUS
  <2>2. ReportOk(e) /\ e.ptr # p
    BY <2>1, EpollHandles
  <2>3. e \in Reported
    BY <2>1, <1>1, ElementOfSeq
  <2>4. CASE e.of = None
    BY <2>1, <2>2, <2>4 DEF ReportOk
  <2>5. CASE e.of # None
    <3>1. PICK g \in Fds : g = e.ptr
      BY <2>2, <2>5 DEF ReportOk
    <3>2. /\ g # p /\ fds[g] = e.of /\ fds[g] # None
          /\ interest[g].events # "OUT" => Readable(fds[g])
      BY <2>2, <2>5, <3>1 DEF ReportOk
    <3>3. /\ fds'[g] = fds[g] /\ interest'[g].events = interest[g].events
          /\ Readable(fds[g]) => Readable(fds[g])'
      BY <3>2
    <3>4. interest'[g].events # "OUT" => Readable(e.of)'
      BY <3>2, <3>3 DEF Readable
    <3>. QED
      BY <2>1, <2>5, <3>1, <3>2, <3>3, <3>4 DEF ReportOk, Readable, Fds
  <2>. QED
    BY <2>4, <2>5
<1>5. BatchOk'
  BY <1>4, EpollHandles DEF BatchOk
<1>. QED
  BY <1>2, <1>3, <1>5 DEF EpollInv, Fds

(* A connection whose bytes move, and what its descriptor is registered    *)
(* for then.                                                               *)
LEMMA EpollMoves ==
  ASSUME EpollInv, NEW f \in Fds, E!Handles(f), pc' = pc, fds' = fds,
         buf' \in [Fds -> Seq(Clients \X Nat)],
         NEW r \in Connection(Clients \X Nat), r.stage = conn[fds[f]].stage,
         conn' = [conn EXCEPT ![fds[f]] = r],
         interest' = interest
           \/ \E ev \in {"IN", "IN|ET", "OUT"} :
                interest' = [interest EXCEPT ![f] = E!Registered(f, fds[f], ev)]
  PROVE  EpollInv'
<1>1. f # 0
  BY DEF Fds
<1>2. PICK c \in Clients : c = fds[f]
  BY <1>1, EpollHandles
<1>3. /\ conn \in [Clients -> Connection(Clients \X Nat)] /\ FdTable
      /\ interest \in [Fds -> Registration \union {None}]
      /\ \A g \in Fds : PollsOk(g)
  BY DEF EpollInv, EpollTypes
<1>4. /\ conn' \in [Clients -> Connection(Clients \X Nat)]
      /\ \A d \in Clients : conn'[d].stage = "open" <=> conn[d].stage = "open"
      /\ \A d \in Clients \ {c} : conn'[d] = conn[d]
  BY <1>2, <1>3, Zenon
<1>5. FdTable'
  BY <1>3, <1>4, SameTable
<1>6. /\ interest' \in [Fds -> Registration \union {None}]
      /\ interest'[f] = None <=> interest[f] = None
      /\ interest'[f] # None => interest'[f].ptr = f
      /\ \A g \in Fds : g # f => interest'[g] = interest[g]
  <2>1. CASE interest' = interest
    BY <1>3, <2>1 DEF PollsOk
  <2>2. ASSUME NEW ev \in {"IN", "IN|ET", "OUT"},
               interest' = [interest EXCEPT ![f] = E!Registered(f, fds[f], ev)]
        PROVE  /\ interest' \in [Fds -> Registration \union {None}]
               /\ interest'[f] # None /\ interest'[f].ptr = f
               /\ \A g \in Fds : g # f => interest'[g] = interest[g]
    <3>1. PICK g : g = E!Registered(f, fds[f], ev)
      OBVIOUS
    <3>2. g = Registered(f, fds[f], ev)
      BY <3>1, EpollPeers
    <3>3. g \in Registration /\ g # None /\ g.ptr = f
      BY <3>2, RegisteredTyped
    <3>. QED
      BY <1>3, <2>2, <3>1, <3>3
  <2>3. interest[f] # None
    BY <1>2, <1>3, PeersAssumption DEF PollsOk
  <2>. QED
    BY <2>1, <2>2, <2>3
<1>7. \A g \in Fds : /\ interest'[g] = None <=> fds'[g] = None
                     /\ interest'[g] # None => interest'[g].ptr = g
  BY <1>3, <1>6 DEF PollsOk
<1>8. ASSUME NEW g \in Fds, g # f, fds[g] # None
      PROVE  Readable(fds[g]) => Readable(fds[g])'
  <2>1. fds[g] \in Clients \ {c}
    BY <1>2, <1>3, <1>8 DEF FdTable
  <2>. QED
    BY <1>4, <2>1 DEF Readable
<1>9. pc' \in {"handle", "exited"}
  BY EpollHandles
<1>. QED
  BY <1>4, <1>5, <1>6, <1>7, <1>8, <1>9, EpollRest, Zenon

(* An accept registers its own descriptor, which no report of the batch    *)
(* names.                                                                  *)
LEMMA EpollAccepts ==
  ASSUME EpollInv, NEW c \in Clients, E!DoAccept(c)
  PROVE  EpollInv'
<1>1. PICK f : f = FreeFd
  OBVIOUS
<1>2. /\ E!Handles(0) /\ Accepts(c) /\ buf' = buf /\ pc' = pc
      /\ interest' = [interest EXCEPT ![f] = Registered(f, c, E!IN_)]
  BY <1>1, EpollPeers, Zenon DEF E!DoAccept
<1>3. /\ conn \in [Clients -> Connection(Clients \X Nat)] /\ FdTable
      /\ interest \in [Fds -> Registration \union {None}]
      /\ buf \in [Fds -> Seq(Clients \X Nat)]
      /\ \A g \in Fds : PollsOk(g)
  BY Zenon DEF EpollInv, EpollTypes
<1>4. /\ conn' \in [Clients -> Connection(Clients \X Nat)] /\ FdTable'
      /\ conn[c].stage = "pending" /\ f \in Fds /\ fds[f] = None
      /\ fds' = [fds EXCEPT ![f] = c]
      /\ \A d \in Clients \ {c} : conn'[d] = conn[d]
  BY <1>1, <1>2, <1>3, AcceptsTyped, Zenon
<1>5. c # None /\ fds'[f] = c /\ \A g \in Fds : g # f => fds'[g] = fds[g]
  BY <1>3, <1>4, PeersAssumption DEF FdTable
<1>6. PICK r : r = Registered(f, c, E!IN_)
  OBVIOUS
<1>7. r \in Registration /\ r # None /\ r.ptr = f
  <2>1. E!IN_ \in {"IN", "IN|ET", "OUT"}
    BY DEF E!IN_
  <2>. QED
    BY <1>4, <1>6, <2>1, RegisteredTyped
<1>8. /\ interest' \in [Fds -> Registration \union {None}] /\ interest'[f] = r
      /\ \A g \in Fds : g # f => interest'[g] = interest[g]
  BY <1>2, <1>3, <1>4, <1>6, <1>7
<1>9. \A g \in Fds : /\ interest'[g] = None <=> fds'[g] = None
                     /\ interest'[g] # None => interest'[g].ptr = g
  BY <1>3, <1>5, <1>7, <1>8, Zenon DEF PollsOk
<1>10. ASSUME NEW g \in Fds, fds[g] # None
       PROVE  /\ fds'[g] = fds[g] /\ interest'[g].events = interest[g].events
              /\ Readable(fds[g]) => Readable(fds[g])'
  <2>1. g # f /\ fds'[g] = fds[g] /\ interest'[g] = interest[g]
    BY <1>4, <1>5, <1>8, <1>10
  <2>2. fds[g] \in Clients \ {c}
    BY <1>3, <1>4, <1>10 DEF FdTable
  <2>3. conn'[fds[g]] = conn[fds[g]]
    BY <1>4, <2>2
  <2>. QED
    BY <2>1, <2>3 DEF Readable
<1>11. pc' \in {"handle", "exited"}
  BY <1>2, EpollHandles
<1>. QED
  BY <1>2, <1>3, <1>4, <1>8, <1>9, <1>10, <1>11, EpollRest, Zenon

(* An end of file closes the descriptor of the event and no other.         *)
LEMMA EpollReadsEnd ==
  ASSUME EpollInv, NEW f \in Fds, E!ReadsEnd(f)
  PROVE  EpollInv'
<1>1. PICK T \in SUBSET Fds : T = {f}
  BY Zenon
<1>2. /\ E!Handles(f) /\ pc' = pc /\ CloseFds(T) /\ Unregister(T)
      /\ buf' = [buf EXCEPT ![f] = <<>>]
  BY <1>1, EpollPeers DEF E!ReadsEnd
<1>3. /\ conn \in [Clients -> Connection(Clients \X Nat)] /\ FdTable
      /\ interest \in [Fds -> Registration \union {None}]
      /\ buf \in [Fds -> Seq(Clients \X Nat)]
      /\ \A g \in Fds : PollsOk(g)
  BY Zenon DEF EpollInv, EpollTypes
<1>4. /\ conn' \in [Clients -> Connection(Clients \X Nat)] /\ FdTable'
      /\ \A g \in Fds : fds'[g] = IF g \in T THEN None ELSE fds[g]
      /\ \A c \in Clients : (\A g \in T : fds[g] # c) => conn'[c] = conn[c]
  BY <1>2, <1>3, ClosesTyped, Zenon
<1>5. /\ interest' \in [Fds -> Registration \union {None}]
      /\ \A g \in Fds : interest'[g] = IF g \in T THEN None ELSE interest[g]
  <2>1. PICK g : g = [h \in Fds |-> IF h \in T THEN None ELSE interest[h]]
    BY Zenon
  <2>2. interest' = g
    BY <1>2, <2>1 DEF Unregister
  <2>. QED
    BY <1>3, <2>1, <2>2
<1>6. buf' \in [Fds -> Seq(Clients \X Nat)]
  <2>1. <<>> \in Seq(Clients \X Nat)
    OBVIOUS
  <2>. QED
    BY <1>2, <1>3, <2>1
<1>7. \A g \in Fds : /\ interest'[g] = None <=> fds'[g] = None
                     /\ interest'[g] # None => interest'[g].ptr = g
  BY <1>3, <1>4, <1>5, Zenon DEF PollsOk
<1>8. ASSUME NEW g \in Fds, g # f, fds[g] # None
      PROVE  /\ fds'[g] = fds[g] /\ interest'[g].events = interest[g].events
             /\ Readable(fds[g]) => Readable(fds[g])'
  <2>1. fds'[g] = fds[g] /\ interest'[g] = interest[g]
    BY <1>1, <1>4, <1>5, <1>8
  <2>2. PICK c \in Clients : c = fds[g]
    BY <1>3, <1>8 DEF FdTable
  <2>3. \A h \in T : fds[h] # c
    BY <1>1, <1>3, <1>8, <2>2 DEF FdTable
  <2>4. conn'[c] = conn[c]
    BY <1>4, <2>3
  <2>. QED
    BY <2>1, <2>2, <2>4 DEF Readable
<1>9. pc' \in {"handle", "exited"}
  BY <1>2, EpollHandles
<1>. QED
  BY <1>2, <1>4, <1>5, <1>6, <1>7, <1>8, <1>9, EpollRest

(* The end of an empty pipe, and the exit of the program.                  *)
LEMMA EpollPasses ==
  ASSUME EpollInv, NEW f \in Fds, E!Exits(f) \/ E!IgnoresHangup(f)
  PROVE  EpollInv'
<1>1. /\ E!Handles(f) /\ UNCHANGED <<conn, fds, interest, buf>>
      /\ pc' = pc \/ pc' = "exited"
  BY DEF E!Exits, E!IgnoresHangup
<1>2. FdTable'
  BY <1>1, SameTable DEF EpollInv, EpollTypes
<1>3. pc' \in {"handle", "exited"}
  BY <1>1, EpollHandles
<1>4. \A g \in Fds : Readable(fds[g]) => Readable(fds[g])'
  BY <1>1 DEF Readable
<1>. QED
  BY <1>1, <1>2, <1>3, <1>4, EpollRest, Zenon DEF EpollInv, EpollTypes, PollsOk

(* A read takes what has arrived, and the report it answers with it.       *)
LEMMA EpollReads ==
  ASSUME EpollInv, NEW f \in Fds, E!Reads(f)
  PROVE  EpollInv'
<1>1. E!Handles(f) /\ f # 0
  BY DEF E!Reads, Fds
<1>2. PICK c \in Clients : c = fds[f]
  BY <1>1, EpollHandles
<1>3. PICK cnt : cnt = IF E!is.loop THEN Len(conn[c].unread) ELSE READ_MAX
  BY Zenon
<1>4. /\ conn \in [Clients -> Connection(Clients \X Nat)] /\ conn[c] \in Connection(Clients \X Nat)
      /\ buf \in [Fds -> Seq(Clients \X Nat)]
  BY Zenon DEF EpollInv, EpollTypes
<1>5. conn[c].unread \in Seq(Clients \X Nat) /\ conn[c].echoed \in Seq(Clients \X Nat) /\ cnt \in Nat
  BY <1>3, <1>4, ServersAssumption DEF Connection
<1>6. PICK t, l : t = Upto(cnt, conn[c].unread) /\ l = SubSeq(conn[c].unread, cnt + 1, Len(conn[c].unread))
  BY Zenon
<1>7. t \in Seq(Clients \X Nat) /\ l \in Seq(Clients \X Nat)
  BY <1>5, <1>6, UptoRest, Zenon
<1>8. pc' = pc /\ fds' = fds
  BY DEF E!Reads
<1>9. CASE E!is.echo
  <2>1. /\ buf' = [buf EXCEPT ![f] = t]
        /\ conn' = [conn EXCEPT ![c].unread = l]
        /\ interest' = [interest EXCEPT ![f] = E!Registered(f, c, "OUT")]
    <3>1. /\ buf' = [buf EXCEPT ![f] = Upto(cnt, conn[c].unread)]
          /\ conn' = [conn EXCEPT ![c].unread = SubSeq(@, cnt + 1, Len(@))]
          /\ interest' = [interest EXCEPT ![f] = E!Registered(f, c, "OUT")]
      BY <1>2, <1>3, <1>9, EpollPeers, Zenon DEF E!Reads
    <3>. QED
      BY <1>6, <3>1
  <2>2. buf' \in [Fds -> Seq(Clients \X Nat)]
    BY <1>4, <1>7, <2>1
  <2>3. PICK r \in Connection(Clients \X Nat) :
          conn' = [conn EXCEPT ![c] = r] /\ r.stage = conn[c].stage
    <3>1. \E r \in Connection(Clients \X Nat) :
            /\ conn' = [conn EXCEPT ![c] = r]
            /\ r.unread = l /\ r.echoed = conn[c].echoed /\ r.stage = conn[c].stage
            /\ r.sent = conn[c].sent /\ r.fin = conn[c].fin /\ r.reset = conn[c].reset
      BY <1>4, <1>7, <2>1, TakenTyped
    <3>. QED
      BY <3>1, Zenon
  <2>. QED
    BY <1>1, <1>2, <1>8, <2>1, <2>2, <2>3, EpollMoves, Zenon
<1>10. CASE ~ E!is.echo
  <2>1. Echoes(c, cnt) /\ buf' = buf /\ E!RearmsRead(f)
    BY <1>2, <1>3, <1>10, EpollPeers DEF E!Reads
  <2>2. PICK r \in Connection(Clients \X Nat) :
          conn' = [conn EXCEPT ![c] = r] /\ r.stage = conn[c].stage
    <3>1. \E r \in Connection(Clients \X Nat) :
            /\ conn' = [conn EXCEPT ![c] = r]
            /\ r.stage = conn[c].stage /\ r.sent = conn[c].sent
            /\ r.fin = conn[c].fin /\ r.reset = conn[c].reset
            /\ r.echoed = conn[c].echoed \o Upto(cnt, conn[c].unread)
            /\ r.unread = SubSeq(conn[c].unread, cnt + 1, Len(conn[c].unread))
      BY <1>4, <1>5, <2>1, EchoesTyped, Zenon
    <3>. QED
      BY <3>1, Zenon
  <2>3. \/ interest' = interest
        \/ \E ev \in {"IN", "IN|ET", "OUT"} :
             interest' = [interest EXCEPT ![f] = E!Registered(f, fds[f], ev)]
    BY <2>1, Zenon DEF E!RearmsRead, E!IN_
  <2>. QED
    BY <1>1, <1>2, <1>4, <1>8, <2>1, <2>2, <2>3, EpollMoves, Zenon
<1>. QED
  BY <1>9, <1>10

(* A write answers with what the buffer of the descriptor held.            *)
LEMMA EpollWrites ==
  ASSUME EpollInv, NEW f \in Fds, E!DoWrite(f)
  PROVE  EpollInv'
<1>1. E!Handles(f) /\ f # 0 /\ fds' = fds /\ pc' = pc
  BY DEF E!DoWrite, Fds
<1>2. PICK c \in Clients : c = fds[f]
  BY <1>1, EpollHandles
<1>3. /\ conn \in [Clients -> Connection(Clients \X Nat)] /\ conn[c] \in Connection(Clients \X Nat)
      /\ buf \in [Fds -> Seq(Clients \X Nat)]
  BY Zenon DEF EpollInv, EpollTypes
<1>4. PICK b \in Seq(Clients \X Nat) : b = buf[f]
  BY <1>3
<1>5. PICK cnt \in 1 .. Min({Len(b), MAX_WRITE_BYTE}) :
        /\ conn' = [conn EXCEPT ![c].echoed = @ \o Upto(cnt, b)]
        /\ buf' = [buf EXCEPT ![f] = SubSeq(@, cnt + 1, Len(@))]
        /\ interest' = IF cnt = Len(b) THEN [interest EXCEPT ![f] = E!Registered(f, c, E!IN_)]
                                       ELSE interest
  BY <1>2, <1>4, EpollPeers, Zenon DEF E!DoWrite
<1>6. cnt \in Nat
  OBVIOUS
<1>7. PICK t, l : t = Upto(cnt, b) /\ l = SubSeq(b, cnt + 1, Len(b))
  BY Zenon
<1>8. t \in Seq(Clients \X Nat) /\ l \in Seq(Clients \X Nat)
  BY <1>6, <1>7, UptoRest, Zenon
<1>9. PICK e : e = conn[c].echoed \o t
  BY Zenon
<1>10. e \in Seq(Clients \X Nat)
  <2>1. conn[c].echoed \in Seq(Clients \X Nat)
    BY <1>3 DEF Connection
  <2>. QED
    BY <1>8, <1>9, <2>1
<1>11. conn' = [conn EXCEPT ![c].echoed = e] /\ buf' = [buf EXCEPT ![f] = l]
  BY <1>4, <1>5, <1>7, <1>9
<1>12. buf' \in [Fds -> Seq(Clients \X Nat)]
  BY <1>3, <1>8, <1>11
<1>13. PICK r \in Connection(Clients \X Nat) :
         conn' = [conn EXCEPT ![c] = r] /\ r.stage = conn[c].stage
  <2>1. \E r \in Connection(Clients \X Nat) :
          /\ conn' = [conn EXCEPT ![c] = r]
          /\ r.unread = conn[c].unread /\ r.echoed = e /\ r.stage = conn[c].stage
          /\ r.sent = conn[c].sent /\ r.fin = conn[c].fin /\ r.reset = conn[c].reset
    BY <1>3, <1>10, <1>11, GivenTyped
  <2>. QED
    BY <2>1, Zenon
<1>14. \/ interest' = interest
       \/ \E ev \in {"IN", "IN|ET", "OUT"} :
            interest' = [interest EXCEPT ![f] = E!Registered(f, fds[f], ev)]
  BY <1>2, <1>5, Zenon DEF E!IN_
<1>. QED
  BY <1>1, <1>2, <1>12, <1>13, <1>14, EpollMoves, Zenon

(* A batch reports what is readable, or what can be written, when it is    *)
(* collected.                                                              *)
LEMMA EpollBatch ==
  ASSUME EpollInv, E!EventLoop
  PROVE  EpollInv'
<1>1. /\ conn \in [Clients -> Connection(Clients \X Nat)] /\ FdTable
      /\ fds \in [Fds -> Clients \union {None}]
      /\ interest \in [Fds -> Registration \union {None}]
      /\ buf \in [Fds -> Seq(Clients \X Nat)] /\ events \in Seq(Reported)
      /\ \A f \in Fds : PollsOk(f)
  BY Zenon DEF EpollInv, EpollTypes, FdTable
<1>2. conn' = conn /\ fds' = fds /\ buf' = buf
  BY DEF E!EventLoop
<1>3. FdTable'
  BY <1>1, <1>2, SameTable
<1>4. CASE pc = "wait" /\ epoll_wait(0) /\ pc' = "handle"
  <2>1. /\ events' \in Seq(Reported)
        /\ \A i \in 1 .. Len(events') : events'[i] \in Reports(0)
        /\ \A i, j \in 1 .. Len(events') : i # j => events'[i] # events'[j]
        /\ interest' \in [Fds -> Registration \union {None}]
        /\ \A f \in Fds : /\ interest'[f] = None <=> interest[f] = None
                          /\ interest[f] # None => /\ interest'[f].ptr = interest[f].ptr
                                                   /\ interest'[f].events = interest[f].events
    BY <1>1, <1>4, EpollWaits
  <2>2. EpollTypes'
    BY <1>1, <1>2, <1>3, <1>4, <2>1, EpollTypesNext, Zenon
  <2>3. \A f \in Fds : PollsOk(f)'
    BY <1>1, <1>2, <2>1, Zenon DEF PollsOk
  <2>4. ASSUME NEW e \in Reports(0)
        PROVE  \/ e.of = None /\ e.ptr = 0
               \/ /\ e.of # None /\ e.ptr \in Fds /\ fds[e.ptr] = e.of
                  /\ interest[e.ptr] # None
                  /\ interest[e.ptr].events # "OUT" => Readable(e.of)
    <3>1. CASE e.ptr = 0 /\ e.of = None
      BY <3>1
    <3>2. ASSUME NEW f \in ReadyFds, e.ptr = interest[f].ptr, e.of = fds[f]
          PROVE  /\ e.of # None /\ e.ptr \in Fds /\ fds[e.ptr] = e.of
                 /\ interest[e.ptr] # None
                 /\ interest[e.ptr].events # "OUT" => Readable(e.of)
      <4>1. f \in Fds /\ interest[f] # None
            /\ (interest[f].events # "OUT" => Readable(fds[f]))
        BY DEF ReadyFds
      <4>2. interest[f].ptr = f /\ fds[f] # None
        BY <1>1, <4>1 DEF PollsOk
      <4>. QED
        BY <3>2, <4>1, <4>2
    <3>. QED
      BY <1>1, <3>1, <3>2, ReportsKnown
  <2>5. ASSUME NEW i \in 1 .. Len(events')
        PROVE  ReportOk(events[i])'
    <3>1. PICK e : e = events'[i]
      OBVIOUS
    <3>2. e \in Reports(0)
      BY <2>1, <3>1
    <3>3. CASE e.of = None /\ e.ptr = 0
      BY <3>1, <3>3 DEF ReportOk
    <3>4. CASE /\ e.of # None /\ e.ptr \in Fds /\ fds[e.ptr] = e.of
               /\ interest[e.ptr] # None
               /\ interest[e.ptr].events # "OUT" => Readable(e.of)
      <4>1. interest'[e.ptr].events = interest[e.ptr].events
        BY <2>1, <3>4
      <4>2. interest'[e.ptr].events # "OUT" => Readable(e.of)'
        BY <1>2, <3>4, <4>1 DEF Readable
      <4>. QED
        BY <1>2, <3>1, <3>4, <4>2 DEF ReportOk, Readable, Fds
    <3>. QED
      BY <2>4, <3>2, <3>3, <3>4
  <2>6. ASSUME NEW i \in 1 .. Len(events'), NEW j \in 1 .. Len(events'), events'[i].ptr = events'[j].ptr
        PROVE  i = j
    <3>1. PICK d, e : d = events'[i] /\ e = events'[j]
      OBVIOUS
    <3>2. d \in Reports(0) /\ e \in Reports(0) /\ d.ptr = e.ptr
      BY <2>1, <2>6, <3>1
    <3>3. 0 \notin Fds
      BY DEF Fds
    <3>4. d.of = e.of
      BY <2>4, <3>2, <3>3
    <3>5. d \in Reported /\ e \in Reported
      BY <1>1, <3>2, ReportsKnown
    <3>6. d = e
      BY <3>2, <3>4, <3>5 DEF Reported
    <3>. QED
      BY <2>1, <3>1, <3>6, Zenon
  <2>7. BatchOk'
    BY <1>4, <2>5, <2>6 DEF BatchOk
  <2>. QED
    BY <2>2, <2>3, <2>7 DEF EpollInv, Fds
<1>5. CASE pc = "handle" /\ events = <<>> /\ pc' = "wait" /\ UNCHANGED <<interest, events>>
  <2>1. EpollTypes'
    BY <1>1, <1>2, <1>3, <1>5, EpollTypesNext, Zenon
  <2>2. \A f \in Fds : PollsOk(f)'
    BY <1>1, <1>2, <1>5 DEF PollsOk
  <2>3. Len(events) = 0
    BY <1>5
  <2>4. BatchOk'
    BY <1>5, <2>3 DEF BatchOk
  <2>. QED
    BY <2>1, <2>2, <2>4 DEF EpollInv, Fds
<1>. QED
  BY <1>4, <1>5, EpollPeers DEF E!EventLoop

(* Nothing is handled: at most bytes arrive and edges are made.            *)
LEMMA EpollKeeps ==
  ASSUME EpollInv, UNCHANGED <<fds, events, buf, pc>>,
         conn' \in [Clients -> Connection(Clients \X Nat)],
         \A c \in Clients : conn'[c].stage = "open" <=> conn[c].stage = "open",
         \A c \in Clients : Readable(c) => Readable(c)',
         interest' \in [Fds -> Registration \union {None}],
         \A f \in Fds : /\ interest'[f] = None <=> interest[f] = None
                        /\ interest[f] # None => /\ interest'[f].ptr = interest[f].ptr
                                                 /\ interest'[f].events = interest[f].events
  PROVE  EpollInv'
<1>1. FdTable'
  BY SameTable DEF EpollInv, EpollTypes
<1>2. EpollTypes'
  BY <1>1, EpollTypesNext, Zenon DEF EpollInv, EpollTypes
<1>3. \A f \in Fds : PollsOk(f)'
  BY DEF EpollInv, PollsOk
<1>4. ASSUME NEW i \in 1 .. Len(events)
      PROVE  ReportOk(events[i])'
  <2>1. PICK e : e = events[i]
    OBVIOUS
  <2>2. ReportOk(e) /\ e \in Reported
    BY <2>1, ElementOfSeq DEF EpollInv, EpollTypes, BatchOk
  <2>3. CASE e.of = None
    BY <2>1, <2>2, <2>3 DEF ReportOk
  <2>4. CASE e.of # None
    <3>1. /\ e.ptr \in Fds /\ fds[e.ptr] = e.of /\ e.of \in Clients
          /\ interest[e.ptr].events # "OUT" => Readable(e.of)
      BY <2>2, <2>4 DEF ReportOk, Reported
    <3>2. interest[e.ptr] # None
      BY <2>4, <3>1 DEF EpollInv, PollsOk
    <3>3. interest'[e.ptr].events # "OUT" => Readable(e.of)'
      BY <3>1, <3>2
    <3>. QED
      BY <2>1, <2>4, <3>1, <3>3 DEF ReportOk, Readable, Fds
  <2>. QED
    BY <2>3, <2>4
<1>5. BatchOk'
  BY <1>4 DEF EpollInv, BatchOk
<1>. QED
  BY <1>2, <1>3, <1>5 DEF EpollInv, Fds

(* What arrives from the clients leaves each report of the batch as true   *)
(* as it was.                                                              *)
LEMMA EpollEnvironment ==
  ASSUME EpollInv, E!Environment
  PROVE  EpollInv'
<1>1. PICK c \in Clients :
        /\ Connects(c) \/ Arrives(c)
        /\ interest' = interest \/ Signals(c)
        /\ UNCHANGED <<fds, events, buf, pc>>
  BY EpollPeers DEF E!Environment, Arrives
<1>2. /\ conn \in [Clients -> Connection(Clients \X Nat)]
      /\ interest \in [Fds -> Registration \union {None}]
  BY Zenon DEF EpollInv, EpollTypes
<1>3. PICK r \in Connection(Clients \X Nat) :
        /\ conn' = [conn EXCEPT ![c] = r]
        /\ r.stage = "open" <=> conn[c].stage = "open"
  <2>1. \E r \in Connection(Clients \X Nat) :
          /\ conn' = [conn EXCEPT ![c] = r]
          /\ r.echoed = conn[c].echoed
          /\ \/ Arrives(c) /\ r.stage = conn[c].stage /\ r.stage \in {"pending", "open"}
             \/ conn[c].stage = "none" /\ r.stage = "pending"
    BY <1>1, <1>2, ArrivesTyped
  <2>. QED
    BY <2>1, Zenon
<1>4. /\ conn' \in [Clients -> Connection(Clients \X Nat)]
      /\ \A d \in Clients : conn'[d].stage = "open" <=> conn[d].stage = "open"
  BY <1>2, <1>3
<1>5. \A d \in Clients : Readable(d) => Readable(d)'
  BY <1>1, <1>2, StaysReadable, Zenon
<1>6. /\ interest' \in [Fds -> Registration \union {None}]
      /\ \A f \in Fds : /\ interest'[f] = None <=> interest[f] = None
                        /\ interest[f] # None => /\ interest'[f].ptr = interest[f].ptr
                                                 /\ interest'[f].events = interest[f].events
  BY <1>1, <1>2, SignalsTyped
<1>. QED
  BY <1>1, <1>4, <1>5, <1>6, EpollKeeps

(* Every step of an epoll server keeps the invariant.                      *)
LEMMA EpollNext ==
  ASSUME EpollInv, E!Next
  PROVE  EpollInv'
<1>1. CASE E!Server
  BY <1>1, EpollPeers, EpollBatch, EpollAccepts, EpollPasses, EpollReadsEnd, EpollReads,
     EpollWrites DEF E!Server
<1>. QED
  BY <1>1, EpollEnvironment DEF E!Next

(* The invariant holds throughout the runs of the servers of EpollServers. *)
LEMMA EpollAlways == Spec => [](Runs(E!Programs) => EpollInv)
<1>1. Init => (Runs(E!Programs) => EpollInv)
  BY OnlyOneStarts, EpollInit
<1>2. ASSUME Runs(E!Programs) => EpollInv, [Next]_mcVars
      PROVE  (Runs(E!Programs) => EpollInv)'
  <2>1. program' = program
    BY <1>2, ProgramStays
  <2>2. CASE UNCHANGED mcVars
    <3>1. UNCHANGED <<conn, fds, interest, events, buf, pc>>
      BY <2>2 DEF mcVars, epollVars
    <3>2. \A c \in Clients : Readable(c) => Readable(c)'
      BY <3>1 DEF Readable
    <3>3. EpollInv => EpollInv'
      BY <3>1, <3>2, EpollKeeps, Zenon DEF EpollInv, EpollTypes
    <3>. QED
      BY <1>2, <2>1, <3>3 DEF Runs
  <2>3. CASE Next
    BY <1>2, <2>1, <2>3, OnlyOneRuns, EpollNext DEF Runs
  <2>. QED
    BY <1>2, <2>2, <2>3
<1>. QED
  BY <1>1, <1>2, PTL DEF Spec

(* The event being handled has something to read.                          *)
LEMMA EpollNeverDry ==
  ASSUME EpollInv
  PROVE  E!NeverReadsDry
<1>1. SUFFICES ASSUME pc = "handle", events # <<>>, Head(events).ptr # 0
               PROVE  LET f == Head(events).ptr
                      IN  fds[f] = Head(events).of
                          /\ (interest[f].events # "OUT" => Readable(fds[f]))
  BY EpollPeers DEF E!NeverReadsDry, E!Reading
<1>2. PICK e : e = Head(events)
  OBVIOUS
<1>3. e = events[1] /\ 1 \in 1 .. Len(events)
  BY <1>1, <1>2 DEF EpollInv, EpollTypes
<1>4. ReportOk(e)
  BY <1>3 DEF EpollInv, BatchOk
<1>. QED
  BY <1>1, <1>2, <1>4 DEF ReportOk

(* The descriptor being handled has something to read, if fds held no      *)
(* POLLIN before.                                                          *)
LEMMA SelectNeverDry ==
  ASSUME SelectInv, Stacks \subseteq {{}}
  PROVE  S!NeverReadsDry
<1>1. SUFFICES ASSUME ready # {}
               PROVE  IF S!Turn = 0 THEN datagrams.queued > 0 ELSE Readable(fds[S!Turn])
  BY SelectPeers DEF S!NeverReadsDry
<1>. QED
  BY <1>1, TurnIsReady DEF SelectInv, ReadyOk

(***************************************************************************)
(* What epoll, select or poll reported to be ready still is when its turn  *)
(* comes, for any number of clients and any length of a batch: nothing     *)
(* that is handled before it takes its bytes or its descriptor. Of poll.c  *)
(* it is said for a memory of fds that held no POLLIN, the only case in    *)
(* which it is true.                                                       *)
(***************************************************************************)
THEOREM NoReadWaits ==
  ASSUME Stacks \subseteq {{}}
  PROVE  Spec => []NeverReadsDry
<1>1. (Runs(E!Programs) => EpollInv) /\ (Runs(S!Programs) => SelectInv) => NeverReadsDry
  BY EpollNeverDry, SelectNeverDry DEF NeverReadsDry
<1>. QED
  BY <1>1, EpollAlways, SelectAlways, PTL
=============================================================================
