------------------------------ MODULE MCSync ---------------------------------
(***************************************************************************)
(* The programs of threads and of processes for TLC. The initial state     *)
(* picks one, and the variables of the others keep their initial values.   *)
(***************************************************************************)
EXTENDS Integers, FiniteSets, SemMutex

CONSTANTS
  NULL, Garbage, main, other,
  ListProducers, ListConsumers, ListNodes,                     \* CondList
  RingProducers, RingConsumers, RingSize, RingElems, RingKills,  \* SharedRing
  DaemonStarts,                                                \* DaemonStart
  SlotProducers, SlotConsumers, SlotSegments, SlotItems,       \* SharedSlot
  NamedSize, NamedElems, NamedKills,                           \* NamedRing
  Takers,                                                      \* FdPassing
  ClientChunk, ServerRead, SocketCap, TypedMax,                \* EchoClients
  HeaderUnits, AnswerCap, RequestMax, SizeMax, PrintMax,       \* StructExchange
  PipeCap, PipeUnits,                                          \* Pipeline
  Askers, LongNames, LineMax, PortMax                          \* Datagrams

(* Nobody is two things, NULL is nothing, and the sets the counting needs  *)
(* finite are so. A client's buffers hold more than it and its server move *)
(* at once, as client_normal_select.c and the echo servers have them.      *)
ASSUME SyncAssumption ==
  /\ ListProducers \cap ListConsumers = {} /\ IsFiniteSet(ListConsumers)
  /\ NULL \notin ListNodes
  /\ RingProducers \cap RingConsumers = {}
  /\ IsFiniteSet(RingProducers) /\ IsFiniteSet(RingConsumers)
  /\ RingSize \in Nat \ {0} /\ RingElems \in Nat
  /\ NULL \notin DaemonStarts \X (0 .. 2)
  /\ SlotProducers \cap SlotConsumers = {} /\ NULL \notin SlotProducers
  /\ SlotSegments \subseteq Nat /\ NULL \notin SlotSegments /\ SlotItems \in Nat
  /\ NamedSize \in Nat \ {0} /\ NULL \notin Askers
  /\ NULL \notin Askers \X Nat \X Nat
  /\ ClientChunk \in Nat \ {0} /\ ServerRead \in Nat \ {0} /\ TypedMax \in Nat
  /\ SocketCap \in Nat /\ SocketCap >= 2 * ClientChunk + ServerRead - 1
  /\ HeaderUnits \in Nat \ {0}
  /\ PipeCap \in Nat \ {0} /\ PipeUnits \in Nat

VARIABLES
  program,
  head, hand, listPc,                           \* CondList
  nums, snums, indexArr, sortPc, arrived, input,  \* BarrierSort
  holder, var1, var2, lockPc,                   \* LockOrder
  build, exists, space, product, front, rear, size, arr,
  ringPc, elem, reg, made, got, refused, kills, \* SharedRing
  url, call, text, own,                         \* UrlCode
  kind, dPc, forks, leader, tty, cwd, lock, pidfile,  \* DaemonStart
  keyed, seg, slotPc, ptr, id, shown, quiet,     \* SharedSlot
  ringKey, named, ring, value, ringMade, namedPc, shmid, semId,
  quitting, elems, ringKills, ringRefused,       \* NamedRing
  eof, typed, left, up, echoing, down, printed, server, ready, shut,
  clientPc,                                      \* EchoClients
  requests, askerPc, toServer, toAsker, pto, tmp, out, acted,
  actorPc,                                       \* StructExchange
  backlog, serving, refs, takerPc, passerPc,     \* FdPassing
  oobPc, sendFlag, sent, came, news, oobServer, hpc, copied, buf, written,
  discarded, oobCnt,                             \* OobExchange
  stage, holds, pipe, amount,                    \* Pipeline
  inbox, received, cliLen, echoer, box, asked, heard, status, port, icmp,
  err, speaker                                   \* Datagrams

listVars == <<head, hand, listPc>>
sortVars == <<nums, snums, indexArr, sortPc, arrived, input>>
lockVars == <<holder, var1, var2, lockPc>>
ringVars == <<build, exists, space, product, front, rear, size, arr,
              ringPc, elem, reg, made, got, refused, kills>>
urlVars == <<url, call, text, own>>
daemonVars == <<kind, dPc, forks, leader, tty, cwd, lock, pidfile>>
slotVars == <<keyed, seg, slotPc, ptr, id, shown, quiet>>
namedVars == <<ringKey, named, ring, value, ringMade, namedPc, shmid, semId,
               quitting, elems, ringKills, ringRefused>>
clientVars == <<eof, typed, left, up, echoing, down, printed, server, ready, shut, clientPc>>
structVars == <<requests, askerPc, toServer, toAsker, pto, tmp, out, acted, actorPc>>
passVars == <<backlog, serving, refs, takerPc, passerPc>>
oobVars == <<oobPc, sendFlag, sent, came, news, oobServer, hpc, copied, buf,
             written, discarded, oobCnt>>
pipeVars == <<stage, holds, pipe, amount>>
gramVars == <<inbox, received, cliLen, echoer, box, asked, heard, status, port,
              icmp, err, speaker>>
mcVars == <<program, vars, listVars, sortVars, lockVars, ringVars, urlVars,
            daemonVars, slotVars, namedVars, clientVars, structVars, passVars, oobVars,
            pipeVars, gramVars>>

CondList == INSTANCE CondList WITH
  Producers <- ListProducers, Consumers <- ListConsumers, Nodes <- ListNodes, pc <- listPc

BarrierSort == INSTANCE BarrierSort WITH
  NUM_THREAD <- 2, NUM_HANDLER_PER_THREAD <- 3, Values <- 1 .. 3, Main <- main,
  pc <- sortPc

LockOrder == INSTANCE LockOrder WITH
  Threads <- {main, other}, NoOne <- NULL, Main <- main, MaxRounds <- 3, pc <- lockPc

SharedRing == INSTANCE SharedRing WITH
  Producers <- RingProducers, Consumers <- RingConsumers, QUEUE_MAX_SIZE <- RingSize,
  Builds <- {"whole", "torn"}, MaxElems <- RingElems, MaxKills <- RingKills, pc <- ringPc

(* Chars of every kind: plain, reserved, of more than 127, a digit of an   *)
(* escape and its mark.                                                    *)
SomeChars == {48, 65, 97, 47, 32, 37, -27, -128, 127}

UrlCode == INSTANCE UrlCode WITH
  Texts <- UNION {[1 .. n -> SomeChars] : n \in 1 .. 3},
  Foreign <- UNION {[1 .. n -> {37, 48, 102, 43}] : n \in 0 .. 4},
  BURSIZE <- 10

DaemonStart == INSTANCE DaemonStart WITH
  Starts <- DaemonStarts, NoOne <- NULL, pc <- dPc

SharedSlot == INSTANCE SharedSlot WITH
  Producers <- SlotProducers, Consumers <- SlotConsumers, Segments <- SlotSegments,
  MaxItems <- SlotItems,
  None <- NULL, pc <- slotPc

NamedRing == INSTANCE NamedRing WITH
  Producers <- RingProducers, Consumers <- RingConsumers, QUEUE_MAX_SIZE <- NamedSize,
  Segments <- SlotSegments, MaxElems <- NamedElems, MaxKills <- NamedKills, None <- NULL, keyed <- ringKey, made <- ringMade,
  pc <- namedPc, sem <- semId, kills <- ringKills, refused <- ringRefused

EchoClients == INSTANCE EchoClients WITH
  CHUNK <- ClientChunk, READ <- ServerRead, CAP <- SocketCap, MaxTyped <- TypedMax, hand <- echoing, pc <- clientPc

StructExchange == INSTANCE StructExchange WITH
  HEADER <- HeaderUnits, CAP <- AnswerCap, MaxRequests <- RequestMax, MaxSize <- SizeMax,
  MaxPrints <- PrintMax,
  cpc <- askerPc, up <- toServer, down <- toAsker, spc <- actorPc

FdPassing == INSTANCE FdPassing WITH
  Clients <- Takers, cpc <- takerPc, spc <- passerPc

OobExchange == INSTANCE OobExchange WITH
  DISCARD <- 2, NORMAL <- 2, cpc <- oobPc, arrived <- came, spc <- oobServer,
  printed <- written

Pipeline == INSTANCE Pipeline WITH
  CAP <- PipeCap, MaxUnits <- PipeUnits, pc <- stage, made <- amount

Datagrams == INSTANCE Datagrams WITH
  Clients <- Askers, None <- NULL, LongNamed <- LongNames, MaxLines <- LineMax,
  MaxPorts <- PortMax,
  server <- echoer, cpc <- speaker

(* Some have several initial states; the others run beside one of them.    *)
MCInit ==
  /\ program \in {"semaphore_mutex", "cond", "barrier", "deadblock2_solve",
                 "anonymous_semaphore", "url_encode_decode", "daemon", "shm",
                 "named_semaphore", "test_struct", "unix_domain_socket_send_fd",
                 "oob"} \union EchoClients!Programs \union Pipeline!Programs
                 \union Datagrams!Programs
  /\ Init
  /\ CondList!Init
  /\ BarrierSort!Init
  /\ program # "barrier" => \A i \in BarrierSort!Indices : nums[i] = 1
  /\ LockOrder!Init
  /\ SharedRing!Init
  /\ program # "anonymous_semaphore" => build = "whole"
  /\ program # "url_encode_decode" => own = FALSE
  /\ UrlCode!Init
  /\ program # "url_encode_decode" => text = <<>>
  /\ program # "daemon" => kind = [i \in DaemonStarts |-> "single"]
  /\ DaemonStart!Init
  /\ SharedSlot!Init
  /\ NamedRing!Init
  /\ StructExchange!Init
  /\ FdPassing!Init
  /\ OobExchange!Init
  /\ IF program \in EchoClients!Programs
     THEN EchoClients!Init
     ELSE /\ eof = NULL /\ typed = NULL /\ left = NULL /\ up = NULL /\ echoing = NULL
          /\ down = NULL /\ printed = NULL /\ server = NULL /\ ready = NULL
          /\ shut = NULL /\ clientPc = NULL
  /\ IF program \in Pipeline!Programs
     THEN Pipeline!Init
     ELSE stage = NULL /\ holds = NULL /\ pipe = NULL /\ amount = NULL
  /\ IF program \in Datagrams!Programs
     THEN Datagrams!Init
     ELSE /\ inbox = NULL /\ received = NULL /\ cliLen = NULL /\ echoer = NULL
          /\ box = NULL /\ asked = NULL /\ heard = NULL /\ status = NULL
          /\ port = NULL /\ icmp = NULL /\ err = NULL /\ speaker = NULL

MCNext ==
  \/ /\ program = "semaphore_mutex" /\ Next
     /\ UNCHANGED <<program, listVars, sortVars, lockVars, ringVars, urlVars, daemonVars, slotVars, namedVars, clientVars, structVars, passVars, oobVars, pipeVars, gramVars>>
  \/ /\ program = "cond" /\ CondList!Next
     /\ UNCHANGED <<program, vars, sortVars, lockVars, ringVars, urlVars, daemonVars, slotVars, namedVars, clientVars, structVars, passVars, oobVars, pipeVars, gramVars>>
  \/ /\ program = "barrier" /\ BarrierSort!Next
     /\ UNCHANGED <<program, vars, listVars, lockVars, ringVars, urlVars, daemonVars, slotVars, namedVars, clientVars, structVars, passVars, oobVars, pipeVars, gramVars>>
  \/ /\ program = "deadblock2_solve" /\ LockOrder!Next
     /\ UNCHANGED <<program, vars, listVars, sortVars, ringVars, urlVars, daemonVars, slotVars, namedVars, clientVars, structVars, passVars, oobVars, pipeVars, gramVars>>
  \/ /\ program = "anonymous_semaphore" /\ SharedRing!Next
     /\ UNCHANGED <<program, vars, listVars, sortVars, lockVars, urlVars, daemonVars, slotVars, namedVars, clientVars, structVars, passVars, oobVars, pipeVars, gramVars>>
  \/ /\ program = "url_encode_decode" /\ UrlCode!Next
     /\ UNCHANGED <<program, vars, listVars, sortVars, lockVars, ringVars, daemonVars, slotVars, namedVars, clientVars, structVars, passVars, oobVars, pipeVars, gramVars>>
  \/ /\ program = "daemon" /\ DaemonStart!Next
     /\ UNCHANGED <<program, vars, listVars, sortVars, lockVars, ringVars, urlVars, slotVars, namedVars, clientVars, structVars, passVars, oobVars, pipeVars, gramVars>>
  \/ /\ program = "shm" /\ SharedSlot!Next
     /\ UNCHANGED <<program, vars, listVars, sortVars, lockVars, ringVars, urlVars, daemonVars, namedVars, clientVars, structVars, passVars, oobVars, pipeVars, gramVars>>
  \/ /\ program = "named_semaphore" /\ NamedRing!Next
     /\ UNCHANGED <<program, vars, listVars, sortVars, lockVars, ringVars, urlVars, daemonVars, slotVars, clientVars, structVars, passVars, oobVars, pipeVars, gramVars>>
  \/ /\ program \in EchoClients!Programs /\ EchoClients!Next
     /\ UNCHANGED <<vars, listVars, sortVars, lockVars, ringVars, urlVars, daemonVars, slotVars, namedVars, structVars, passVars, oobVars, pipeVars, gramVars>>
  \/ /\ program = "test_struct" /\ StructExchange!Next
     /\ UNCHANGED <<program, vars, listVars, sortVars, lockVars, ringVars, urlVars, daemonVars, slotVars, namedVars, clientVars, passVars, oobVars, pipeVars, gramVars>>
  \/ /\ program = "unix_domain_socket_send_fd" /\ FdPassing!Next
     /\ UNCHANGED <<program, vars, listVars, sortVars, lockVars, ringVars, urlVars, daemonVars, slotVars, namedVars, clientVars, structVars, oobVars, pipeVars, gramVars>>
  \/ /\ program = "oob" /\ OobExchange!Next
     /\ UNCHANGED <<program, vars, listVars, sortVars, lockVars, ringVars, urlVars, daemonVars, slotVars, namedVars, clientVars, structVars, passVars, pipeVars, gramVars>>
  \/ /\ program \in Pipeline!Programs /\ Pipeline!Next
     /\ UNCHANGED <<vars, listVars, sortVars, lockVars, ringVars, urlVars, daemonVars, slotVars, namedVars, clientVars, structVars, passVars, oobVars, gramVars>>
  \/ /\ program \in Datagrams!Programs /\ Datagrams!Next
     /\ UNCHANGED <<vars, listVars, sortVars, lockVars, ringVars, urlVars, daemonVars, slotVars, namedVars, clientVars, structVars, passVars, oobVars, pipeVars>>

MCSpec == MCInit /\ [][MCNext]_mcVars

-----------------------------------------------------------------------------
(* semaphore_mutex.c: MutualExclusion, ReleasedByOwner.                    *)

(* cond.c: the properties of CondList.                                     *)
OnePlace == CondList!OnePlace
WakeUpPerNode == CondList!WakeUpPerNode

(* barrier.c: the property of BarrierSort.                                 *)
MergeSorts == BarrierSort!MergeSorts

(* anonymous_semaphore.c: the properties of SharedRing; named_semaphore.c: *)
(* that of NamedRing. The descriptors that are passed are accounted for as *)
(* the slots are, the records of test_struct_server.c, the stream of       *)
(* oob_serv.c and the answers by datagram are consumed in order as the     *)
(* elements are, and the server of UNIX datagrams is refused no answer.    *)
SlotsAccounted == SharedRing!SlotsAccounted /\ FdPassing!OpenWhileUsed
NeverRefused ==
  /\ SharedRing!NeverRefused
  /\ NamedRing!NeverRefused
  /\ program \in Datagrams!Programs => Datagrams!FailsForTheGone
ConsumedInOrder ==
  /\ SharedRing!ConsumedInOrder
  /\ StructExchange!ActsOnWholeRequests
  /\ OobExchange!TakesInOrder
  /\ program \in Datagrams!Programs => Datagrams!OwnAnswers

(* url_encode_decode.c: the properties of UrlCode.                         *)
RoundTrip == UrlCode!RoundTrip

(* daemon.c: the properties of DaemonStart.                                *)
PidFileNamesTheDaemon == DaemonStart!PidFileNamesTheDaemon
Detached == DaemonStart!Detached

(* The clients that echo servers have, and that of test_struct_server.c;   *)
(* who writes to and reads from a pipe; who asks by datagram.              *)
PrintsAll == program \in EchoClients!Programs => EchoClients!PrintsAll
NeverBothWait ==
  /\ program \in EchoClients!Programs => EchoClients!NeverBothWait
  /\ StructExchange!WaitsForSilence
  /\ program \in Pipeline!Programs => Pipeline!NobodyKeepsAnEnd
  /\ program \in Datagrams!Programs => Datagrams!AnswerOrError

(* shm.c: the property of SharedSlot.                                      *)
ShownOnce == SharedSlot!ShownOnce
=============================================================================
