# Formal models of SystemFunc

SystemFunc is a collection of Linux system-programming code in C: two small
libraries that other programs link (a queue and a thread pool under `util/`,
socket wrappers beside them) and many single-file programs, servers among them,
that exercise threads, processes, shared memory, sockets, epoll, signals and libevent.
There is no single program; each component below runs on its own, except that
the thread pool is built on the queue, the servers on the socket wrappers, and clients
talk to servers.

The directory holds TLA+ modules, the TLC configurations that check them and
TLAPS proofs. `tlc -config MCQueue.cfg MCQueue` runs a model, `tlapm
QueueProofs.tla` checks a proof. `PROJECT.json` names, for every definition, the lines
it translates; for every property a fault of the code that would violate it; and the
hazards the properties are about.

## Inventory

| component | state | operations | what is hard | correct when | module |
|---|---|---|---|---|---|
| queue (`util/queue`) | ring, `head`, `rear`, `cur_size` | init, destroy, enqueue, dequeue | wrap-around; calls after destroy | a bounded FIFO; no access outside the array | `QueueOps`, `Queue`, `BoundedFifo` |
| thread pool (`util/thread_pool`) | task queue, `tid_list`, three counters, `shutdown_flag` | add_task, worker loop, control loop | one condition variable for two purposes, resizing against running workers, shutdown in two sections | tasks run once and in order, none after shutdown; nobody waits for ever | `ThreadPool`, `TaskPool` |
| semaphore mutex | semaphore, id of the owner | lock, unlock | two variables updated in two steps | at most one inside; an unlock unlocks | `SemMutex` |
| condition variable list, sort with a barrier, two locks (`thread/`) | list; slices; counters | threads' loops | lost wake-ups, deadlock | each node once; the merge sorts | `CondList`, `BarrierSort`, `LockOrder` |
| rings in shared memory (`POSIX_SEMAPHORE/`) | ring, indexes, semaphores, names | create or attach, produce, consume, remove | processes ended anywhere; segment and semaphores removed one by one | no slot overwritten or read twice | `SharedRing`, `NamedRing` |
| slot in shared memory (`XSI_IPC/shm.c`) | slot, mutex, key | find or make, hand over, remove | a mutex shared by processes without saying so; removal while in use | each item shown once | `SharedSlot` |
| epoll reactor (`epoll_reactor.c`) | table of nodes, batch of events | accept, read, write, time-out sweep | events for a node closed or reused earlier in the batch | an event reaches the connection it is of | `Reactor` |
| other epoll servers | interest list, buffers | accept, echo, close | an edge is reported once | every byte is echoed | `EpollServers` |
| select and poll servers | sets, tables, `maxfd` | accept, echo, close, datagrams | stale sets, full table, blocking sockets | nobody waits for one client; every entry reused | `SelectServers` |
| multi-process and multi-thread servers | children, descriptors in two processes | accept, fork, echo, SIGCHLD | several exits and one signal | no descriptor leaked, no zombie left | `ForkServers` |
| SIGIO servers | list of connections, signal owner | handler accepts and reads | one pending signal for several arrivals | no arrival unseen | `SigioServers` |
| asynchronous server (`aio_echo_server.c`) | nodes, `actCnt` | main accepts, callbacks read and write | callbacks in threads of the library, a node given up in three steps | what it used is free at its end | `AioServer` |
| libevent servers | events, output buffers | callbacks | order of callbacks, frees with output pending | echo complete, events agree with connections | `EventServers` |
| HTTP server (`myhttpd*.c`) | request, answers to write | read, write and event callbacks | files that change between three looks at them | one true answer per read; closed in the end | `HttpServer` |
| url conversions | a char array | encode, decode | signed chars, in place | what was encoded is decoded | `UrlCode` |
| child collection (`process_func/`) | children | wait, waitpid, handler | exits that come together, stops | all are collected | `Reaping` |
| daemon | pid file, record lock | two forks, setsid, lock | two starts at once, kills anywhere | one daemon, detached, and the file names it | `DaemonStart` |
| echo clients | standard input, connection | select, line by line, a thread for input | both ends write and nobody reads; end of input | every answer printed; no deadlock | `EchoClients` |
| record exchange (`test_struct_*`) | header, content | ReadCount, WriteCount | partial reads, requests without an answer | only whole requests are acted on | `StructExchange` |
| descriptor passing | descriptors in three places | accept, connect, send, close | each side may go at any time | open exactly while somebody uses it | `FdPassing` |
| urgent data (`oob_*`) | the mark, handler and main loop | SIGURG, sockatmark | handler and main read one stream | discarded before the mark, printed after | `OobExchange` |
| pipes | who holds which end | fork, close, dup2, exec, wait | one copy of an end too many | the data ends | `Pipeline` |
| datagram echo | addresses, connected state | recvfrom, sendto, SIGINT | lost datagrams, length of an address, errors that come later | each gets its own answers | `Datagrams` |
| message queue, thread exercises, libevent exercises, files, linking, assembly | - | - | - | - | not modelled, see the end |

## How the modules are put together

`Peers` is what every connection-oriented server sees of its clients, and `Epoll` is
epoll(7); both are external code, modelled from how the servers use it. The servers
extend them. Two modules compose independent programs: `MCServers` for the servers and
the programs that collect children, `MCSync` for everything else beside queue and pool.
Their initial state picks one program and the variables of the others never change, so
that one run checks the sum of the state spaces, not the product. Properties of the
same meaning are conjuncts of one property there (`TableAgrees`, `NeverBothWait`,
`ConsumedInOrder` and so on); the conjuncts, each in its module with its comment, say
what is claimed of which program. Clients and servers do not meet in one
state space; `EchoClients` has a server of its own, the simplest the repository has (one blocking
read and one blocking write at a time), which is the hardest for a client.

Several modules serve a family of programs that differ in a few lines. A record per
program, named like its file (`epoll_normal`, `test5`, `pipe6`, ...), says what the file
does where they differ; with the shared actions it stands for the functions that the map
names for it.

Definitions whose comment says "for mutation" are faulty variants of the definition that
follows them; nothing uses them in the runs.

| run | module | asks |
|---|---|---|
| `queue` | `MCQueue` | the ring is the bounded FIFO |
| `pool_safety`, `pool_settled`, `pool_live` | `MCThreadPool` | see Thread pool |
| `servers` | `MCServers` | safety of the servers, three clients |
| `servers_live` | `MCServers` | echo, answers and collection of children, complete and in the end |
| `sync` | `MCSync` | safety of the programs of threads and processes, of clients, and of the pairs that exchange data |
| `pool_min_threads`, `pool_release`, `mutex_releases`, `lock_order`, `torn_size` | | five statements of the repository that do not hold; see below |

## Queue

`QueueOps` holds the functions of `queue.c` as operators on the struct, a record
with the fields of `struct queue_t`; the array is a function on `0 .. max_size - 1`
whose slots hold what `malloc` left, `INDET`, until something is stored.
`queue_push` and `queue_pop` are the parts of `queue_enqueue` and `queue_dequeue`
behind their checks. `Queue` is a program that makes any sequence of calls, one
action each, and `fault` records an access outside the allocation.

`MCQueue.cfg` checks rings of 1 to 3 slots with two pointers: with 3 slots, each
of empty, half full and full occurs with `head` at each place, so every wrap
happens. The specification has no bound besides the size.

Proved in `QueueLemmas` and `QueueProofs`, for every size and every set of
pointers: `QueueTypeOK`, `QueueSafe`, `QueueStoredOnly` and `QueueIsFifo`.
`StoredOnly` is not inductive alone: the inductive invariant `QInv` is "destroyed, or a well formed ring (`RingOK`) whose
contents are stored pointers, and no fault". `PushAppends` and `PopTakesHead`
carry the modular arithmetic once. The assumption is that `NULL` and `INDET` are
no stored pointers and that `NULL` is not an array.

## Thread pool

`ThreadPool` has one action per critical section, because every shared field is
read and written under `global_lock`: from the lock, or the return of
`pthread_cond_wait`, to the unlock or the next wait. The work of a thread outside
the lock (running the task, its callback) is one action. `wpc` says where each
worker is; `apc` where each caller of `thread_pool_add_task` is; `ctrl` where the
control thread is. The names of the other variables are the struct's.

* `pthread_cond_signal` wakes one waiting thread, if any; spurious wake-ups of
  workers and callers may happen at any time.
* The control thread takes SIGQUIT and sets `shutdown_flag` in one section and
  adjusts the pool in the next (`CtrlExits`, `CtrlExpands`, `CtrlShrinks`,
  `CtrlKeepsSize`, `CtrlCloses`: the branches of lines 164-213, each with the
  broadcasts at its end).
* The busy share is compared as integers. `(float)(7.0/10)` is below the double
  `0.7`, so exactly 70% does not expand, and 0/0 is NaN, for which both tests are
  false; the integer comparisons say the same.
* The task pointers are numbered in the order of their creation; they are never
  freed by the library.

`Unsettled` is the assumption on timing. The control thread sleeps five seconds,
polls for the signal, takes the lock. With `{"sleep", "tick"}` workers may be
anywhere then. With `{"tick"}` those five seconds are enough for every woken or
freed worker to get the lock, but a worker may finish a task during the poll.
With `{}` each worker waits or is busy with a task when the control thread holds
the lock.

| run | asks | bounds |
|---|---|---|
| `pool_safety` | `CountersExact`, `NoFatal`, `NoLostSlot`, `ImplementsPool` with no assumption on timing | 2 to 3 workers, two callers, 8 tasks: the queue of 6 fills up with a worker busy and a caller blocked |
| `pool_settled` | `KeepsMinThreads`, `NoLostTask` when settled | 1 to 4 workers: only with four is a quarter busy, so that a shrink leaves twice the busy ones |
| `pool_live` | `TasksServed`, `CallersReturn`, `ShutdownCompletes` when settled, fair | 1 to 2 workers, two callers, 6 tasks: the queue of 4 fills up |
| `pool_min_threads` | `MinThreads` with `Unsettled = {"tick"}`: violated | 1 to 3 workers |
| `pool_release` | `AddersReleased` with `Unsettled = {"tick"}`, fair: violated | one worker, one caller |

`ExitBound` caps `wait_exit_thread_cnt`, which grows without end if the control
thread shrinks again and again before any worker runs; when settled it never
reaches the bound (`KeepsMinThreads`). `NTasks` bounds the tasks created. The runs
say `CHECK_DEADLOCK FALSE` because after the shutdown every thread ends. `Tids`
and `Adders` are symmetric in the runs without liveness.

Fairness: a thread that wants `global_lock`, or has been woken up, gets the lock
in the end (a mutex of the C library does not starve a thread for ever among
finitely many tasks), `sleep` ends, and tasks return. Nobody is obliged to call
`thread_pool_add_task` or to send SIGQUIT.

### What the violations show

* `pool_min_threads`. A shrink adds `cur - max(2 * act, min)` to
  `wait_exit_thread_cnt` and wakes all waiting workers. Workers between two tasks
  are not waiting; they lock, find the queue empty and wait, without a look at
  `wait_exit_thread_cnt`. The next shrink, five seconds later, adds the same
  surplus again, and now all of them exit: the pool is below
  `min_thread_cnt`, in the trace at 0, from which the NaN never expands it.
* `pool_release`. Between the section that sets `shutdown_flag` and the next one
  the last worker may exit; the control thread then ends without the broadcast
  that line 206 announces, and a caller blocked on a full queue stays there.

### Proofs

`PoolProofs` proves `TypeOK`, `CountersExact`, `NoFatal`, `NoLostSlot` and the
refinement of `TaskPool` for every `Min`, `Max`, set of threads and bound, from
`PoolAssumption` alone, whatever `Unsettled` is.

* `TypeOK`, `CountersExact` and `NoFatal` are not inductive alone. `IInv` adds that
  the ring is well formed and holds tasks (`QueueOK`) and that a worker in a handler has
  one (`RunHolds`); the limits on the counters follow from `CountersExact`, because
  `tid_list` maps the taken entries one to one onto the live workers. Each worker step
  has its lemma; the steps that leave live and busy workers alone share `QuietStep`.
* The refinement maps a task to pending (in the queue, or with a caller that waits),
  running or done. A step is a step of `TaskPool` only if no task is in two places: else
  finishing one copy would take the other off as well. `Apart` says so: tasks are distinct
  within the queue, among the workers and among the callers (`Single`), these places and
  what is finished have none in common (`Disjoint`), and all have been created.
* `NoLostSlot` is inductive with `IInv` and `Apart`; the proof counts the woken
  callers against the free places.
* `KeepsMinThreads` and `NoLostTask` are proved under the hypothesis `Unsettled = {}`, which is
  the one `pool_settled` checks them under: the workers get the lock while the
  control thread sleeps and polls. Without it they are false, as `pool_min_threads` shows. They need each
  other, and `ToldAreWoken`: as many workers as are told to exit are on their way, so that a
  shrink starts from `wait_exit_thread_cnt = 0`. `SettledInv` is their conjunction.

## Programs of threads and processes (`MCSync`)

`CHECK_DEADLOCK FALSE` is needed because many of these programs do stop: the semaphore
mutex and the two locks deadlock (see the violations), the sort ends, others reach their
bounds.

| module | granularity | bounds in `sync` |
|---|---|---|
| `SemMutex` | each system call and each access to `lwp` | three threads, one of them a stray: one erases the record while a second holds and a third tries |
| `CondList` | a critical section; only `malloc` and `free` lie outside it | two producers, two consumers, three nodes: both consumers asleep while two pushes follow each other |
| `BarrierSort` | a sort, an arrival, a round of `merge` | two slices of three numbers out of three values: ties within and across slices, a slice used up first |
| `LockOrder` | a lock, an increment, an unlock | three rounds |
| `SharedRing` | each access to the segment | one producer, one consumer, three slots, six elements (the indexes wrap twice), two processes ended |
| `NamedRing` | a semaphore call, a ring call, a removal | two slots, four elements, two segments and two semaphores of each name, two processes ended |
| `SharedSlot` | each access to slot and futex word | one producer, two consumers, two segments, two items |
| `UrlCode` | a call | texts of one to three out of nine chars (digit, letters, `/`, space, `%`, negative, 127), four more chars in strings urlencode did not make |
| `DaemonStart` | a system call | three starts of either kind |
| `EchoClients` | a system call of the client | chunks of 2, buffers of 5, 12 units typed |
| `StructExchange` | a read or write of any part | three requests, header of 2, content of up to 2, commands that print up to 3 |
| `FdPassing` | a system call | three clients |
| `OobExchange` | a read, write or signal | two units before and two after the mark |
| `Pipeline` | a system call | a pipe of one unit, three units written |
| `Datagrams` | a system call | two clients with names of two lengths, two lines each, one disconnection |

`SemMutex` lets some threads, `Strays`, call unlock without a lock: the two tests in
`sem_mutex_unlock` exist for such callers. `owner` is history, the thread whose
`sem_wait` took the semaphore.

In `CondList` nodes are addresses that `malloc` hands out again after `free`, so that a
node taken twice is seen. `WakeUpPerNode` is stronger than "nobody sleeps beside a
list that is not empty": each node has an awake consumer.

`SharedRing`: a process is a place in its loop, a local element and a register;
SIGINT (`Interrupted`) may end it anywhere, also in `GetShmId` where the default action
does it, and it starts again with fresh locals. `build` says how `++size` and `--size`
were compiled. With the makefile's `gcc -g` they are a load and a store ("torn"); one
instruction on one processor is "whole". `SlotsAccounted` holds for both;
the order and integrity of what is consumed need "whole", and `torn_size` shows why.
The segment is assumed to be created before the next process starts.

`NamedRing` is about who shares what: SIGQUIT removes segment and two names one
after the other. It assumes of the user that nobody starts a process while another is starting
or quitting, and sends SIGQUIT only to a process of the ring that the key names now.

`SharedSlot`: the mutex is initialised without `PTHREAD_PROCESS_SHARED`, so that its
unlock wakes no other process; a process that found it locked is woken by a signal at
most. `ShownOnce` is safety and does not depend on it.

`UrlCode`: the code encodes `-`, `*` and `_` too, which the comment at
`url_encode_decode.c:8` says are left as they are. `RoundTrip` does not depend on it.

`EchoClients`: the socket buffers must hold more than twice what client and server move
at once; with smaller ones TLC finds the deadlock in which both write. A line that
begins with NUL, which makes `client_normal2.c` wait for an answer to nothing, is left
out. `libevent_stream_client.c` frees its bufferevent while the thread that reads
standard input may still use it; the model ends there as undefined, and nothing is claimed
beyond.

`StructExchange`: an empty request, or a command that prints nothing, has no answer,
and client and server wait for each other; `WaitsForSilence` says that they do so only
then. Typed text that is no request, and the buffering of standard output, are left out.

`OobExchange` assumes of the kernel that the urgent mark is announced once, at any time
between its sending and its arrival, and that no read passes the mark while the signal
is pending. A handler that runs before the urgent byte has come fails in `recv` and
ends the server, which the model has (`failed`). Its branch "close by peer" is never
reached.

`Pipeline`: the programs that the children run are external and may fail to start; so
may `fork`. A writer whose readers are gone gets SIGPIPE. `NobodyKeepsAnEnd` is stated
as "who waits is not waiting, directly, for somebody who waits as well", and covers a
reader that waits for itself because it kept the writing end.

`Datagrams` assumes of Linux: UDP may lose what is sent; a "port unreachable" counts only for
a socket that is connected and still on the port it was sent from; disconnecting gives
that port up; a pending error stays until a call returns it; over UNIX sockets nothing is
lost, but `sendto` fails when the receiver has gone, which ends client or server. At the end of
its input `fgets` leaves the buffer as it was and the client sends it again: another
line, for the model.

Violations:

* `mutex_releases`. `sem_mutex_unlock` posts first and clears `lwp` afterwards. A
  thread that locks in between is recorded, erased, and at its own unlock taken for a
  stranger: it returns without a post and nobody ever locks again.
* `lock_order`. Only the first of the two locks is a trylock, so both threads still
  can hold one mutex and block on the other.
* `torn_size`. The producer overwrites a decrement of the consumer; the ring counts
  one element too many and refuses the next one, for which the producer nevertheless
  posts `sem_product`.

### Proofs

`SyncProofs` proves `MutexExcludes` and `MutexOwnerPosts` for any set of threads
and strays, assuming only that 0 is no thread id. The invariants are not inductive: a
post comes steps after the comparison with `lwp`. `RecordTells` carries the argument:
a thread named in `lwp` owns the semaphore, or is just about to clear it. The lost
release does not hurt safety, which is why both theorems hold of code that deadlocks.

The module proves nine properties of `MCSpec` as well, the specification that the run
`sync` checks. Each proof first shows that a run of the composition is a run of the one
program (`ListRuns`, `SlotRuns`, ...), then argues about that program alone.

| theorem | property | inductive invariant |
|---|---|---|
| `NodesInOnePlace`, `NoSignalLost` | `OnePlace`, `WakeUpPerNode` | `ListInv`: both together; a push keeps `WakeUpPerNode` only because the node it adds was in no other place, so that the length of the list and the number of nodes in it agree |
| `PidFileHolds`, `DaemonsDetached` | `PidFileNamesTheDaemon`, `Detached` | `DaemonInv`, see "Daemon" |
| `ItemsShownOnce` | `ShownOnce` | `SlotInv`: in a segment that nobody initialised while another process was in it the mutex excludes, also after a kill, and what its holder may show next was not shown before (`Fresh`), because the numbers of a producer only grow |
| `SlotsAndDescriptors` | `SlotsAccounted` (ring and descriptor passing) | `RingInv`: free, filled and held slots together are `RingSize` unless processes were ended, then fewer, and there is one creator; `PassInv`: for each place of a client, who refers to its descriptor and that it waits in the backlog once |
| `AllIsPrinted` | `PrintsAll` | `EchoInv`: how many bytes may be under way at each place of a client, so that a write of either side goes on in the end, and that what was typed is under way or printed |
| `SomebodyMoves` | `NeverBothWait` | `EchoInv`, `StructInv`, `PipeInv`, `GramInv`, one per conjunct |
| `RingsNeverRefuse` | `NeverRefused` | `RingServes` on top of `RingInv`, `NamedInv`, `GramInv` |

Three of these need an idea.

* `StructInv`. TCP keeps no boundaries, so the invariant is about the units that the
  server has not done with, those in its `tmp` and those under way, as one word: they are units of
  known requests (`Known`), each followed by the next unit of its request or the first one of the next
  (`Follows`), the last one is the last that the client wrote (`LastSent`), and the first is
  where the server goes on (`Starts`). Then, if nothing is left, both are at the same place of
  the same request (`Waiting`), and a client that waits for an answer has one coming unless its
  command prints nothing (`Owes`).
* `RingServes`. A semaphore and `size` never agree while somebody is between `sem_wait` and
  `sem_post`. What stays true is an inequality, which also survives processes that are
  ended: `size`, the units of `sem_space`, the producers that were let in and have not counted their
  element, and the consumers that have taken one and not posted, are together at most the slots
  (`Vacant`), and `Supply` is its mirror image. A step of one process moves it from one count to
  another (`CountShifts`), and an ended one only leaves them.
* `NamedInv`. The same two inequalities hold of each segment, with the semaphores made for it. That
  these belong together is the other half: a process looks up the key and two names one after
  the other, and SIGQUIT removes them one after the other. `InStep` says that the names
  are those of the newest segment, or have just been removed, or not yet been made; `OneByOne`
  that at most one process starts or removes; `OwnSems` that who works on a segment has its
  semaphores; `Ahead` that segments and semaphores not yet made are as new ones are.

`SyncAssumption` names what they rest on: roles are disjoint, sets that are counted are
finite, `NULL` is no address and no datagram, a header has at least one byte. One of its conditions is about the programs:
`SocketCap >= 2 * ClientChunk + ServerRead - 1`. A client takes up to two chunks before it looks for
answers, the server holds one read. With one byte less both may be writing. The buffers of Linux
are well above it, the chunks of these programs being some hundred bytes up to 4096.

## Servers (`MCServers`)

### Epoll reactor

`Reactor` follows `epoll_reactor.c`. `NodeList` is the table; `buf` stands for `buf`,
`bufLen` and `wIndex` together, as what is left to write, and `age` for the minutes
since `lastAccess`. `fds` and `interest` are the kernel's: the connection behind each
descriptor, and what epoll would hand back for it. `EventLoop` is `Sweep`, then
`EpollWait` or `WaitEnds`, then one callback per event of the batch (`DoAccept`,
`AcceptFindsNoNode`, `ReadsAll`, `ReadsEnd`, `DoWrite`, `Exits`), then `Sweep` again.
A callback is one step, because nothing but the loop touches the table and what
clients send during it might have come before. Clients connect, send, shut down and
reset their connections between any two steps, and minutes pass.

An edge is made by whatever arrives and by `EPOLL_CTL_ADD` and `MOD` when there is
something to read; an event is reported only while it is true. Sockets always have
room to send. A peer never sends more than the buffer of a node holds between two
reads, as the comment at line 27 of the code says.

### The other servers

`EpollServers`, `SelectServers`, `ForkServers`, `SigioServers`, `AioServer`,
`EventServers` and `HttpServer` are read in the same way: `Peers` does what clients do between any two
steps, the handling of one descriptor or callback is one step unless a signal or another
process can see its middle.

* `SelectServers`: sockets block, hence `NeverReadsDry`: nothing is read that was not
  reported in this pass. In `poll.c` the array `fds` is not initialised, and `Stacks`
  gives the entries whose `revents` may hold POLLIN by accident. The runs take memory that
  holds none (`Stacks = {{}}`); with any other element `NeverReadsDry` is violated, the new
  connection being read in the pass that accepted it. A full table of `poll.c` is written
  past its end, where the model ends as undefined.
* `ForkServers`: a block is a line. `holders` says which processes have a connection
  open, and `NothingLeaked` compares it with the live workers. The handler of SIGCHLD
  collects in a loop, and `LongLines` are lines that `fgets` cuts.
* `SigioServers`: one pending SIGIO may stand for several arrivals. `NothingUnseen` holds of
  `aio_sigio2.c` in `servers`; `aio_sigio.c` is in `servers_live` for `EchoExact` only.
* `AioServer`: `status` is cleared two steps before the descriptor is closed; main may
  give the node away in between, and the step that then closes the wrong descriptor ends
  the model as undefined. `EndsIdle` says that main leaves no request running behind.
* `HttpServer`: a request that arrives in pieces is answered once per piece
  (`OneAnswerPerRead`), and `HonestAnswers` says that an answer is true of some moment
  since the read, although `access`, `stat` and `open` each look anew.
* `Reaping`: children that end by themselves or when killed, with stops for
  `wait_tmark.c`.

| run | bounds |
|---|---|
| `servers` | three clients of one byte each, symmetric; tables of two entries and batches of two: full tables, entries reused within a batch, more events than a batch holds; one path, two visitors of the HTTP server |
| `servers_live` | two clients, one of two bytes and one of one, tables of one node: partial reads and writes, bytes that arrive while others are written; requests of two blocks; three children |

Fairness in `servers_live`: the server's loop goes on while it has something to do
(`WF_mcVars(Serves)`), because `epoll_wait`, `select`, `poll` and libevent's loop return when
something is ready; and so does each worker of `ForkServers`, which the kernel schedules independently of
main. Clients owe nothing. `EventuallyEchoed` leaves out programs that do not promise
it: SIGIO and aio servers, the HTTP server.

An error on one connection ends the reactor (`Exits`), and bytes that are read together
with the end of file are dropped (`ReadsEnd`). Both are the code's behaviour; no
document of the repository promises otherwise.

### Proofs

`ServersProofs`, `ReactorProofs`, `PollingProofs` and `EchoProofs` prove nine properties of `Spec` of
`MCServers`, the specification `servers` and `servers_live` check, for any number of
clients and any length of tables, batches and buffers. The proofs have one shape: an
invariant per program, which is kept by that program's `Next`, and `Runs(programs) =>
invariant` for the composition, since only the program under way moves (`OnlyOneRuns`).
What the servers share is proved once: `FdTable` (a descriptor has one connection, an open
connection one descriptor) is kept by accept, refusal and close (`AcceptsTyped`,
`RefusesTyped`, `ClosesTyped`), `EchoesTyped`, `TakenTyped` and `StaysReadable` say what happens to
bytes, `EpollWaits` what a batch holds.

| theorem | property | inductive invariant |
|---|---|---|
| `NoDescriptorLeaked` | `NothingLeaked` | `ForkInv`: who holds the descriptor of each connection, for each place of main and each state of the worker |
| `EachReadAnswered`, `AnswersAreTrue` | `OneAnswerPerRead`, `HonestAnswers` | `HttpInv`: reads are answers sent, answers that wait to be written and the job; what is at the path now is among what the job has seen |
| `NothingInUse` | `EndsIdle` | `AioInv`: `actCnt` is the number of requests that run and of connections that leave uncounted; a request that runs has the descriptor of a connection nobody leaves, and has it alone; main's fresh node is nobody else's |
| `EventsStayFresh` | `NoStaleEvent` | `ReactInv`: nodes, registrations and open descriptors point at each other (`ReactTables`), each event left in the batch names the node of its own connection, and no two name one node |
| `TablesAgree` | `TableAgrees` | `ReactInv`; `EventInv`: the events are those of the open descriptors; `SelectInv`: each open descriptor has one entry |
| `NoReadWaits` | `NeverReadsDry` | `SelectInv`: what a pass still has to handle is open and readable; `EpollInv`: each event left in the batch is for the connection it was reported for, and that connection is readable if the event calls for a read |
| `BytesComeBack` | `EchoExact` | one for all, `Carried`: for each connection there are two places in what the client has sent, up to the first it came back, and, if nothing was lost, what is in hand lies between the two and what is unread after the second |
| `NothingIsMissed` | `NothingUnseen` | `SigioSeen`: a connection that was not looked at since something arrived has a signal pending, or a handler that is at accept, at `set_aio`, or not yet past its entry (`Watches`), in the process that owns it, or in the child in its place |

The last part of `ReactInv` is what makes `NoStaleEvent` true, and it is easy to lose: the
sweep closes idle nodes before `epoll_wait` and not within the batch, a callback closes only the node of
its own event, and `epoll_wait` reports a registration once. A callback that closed another
connection would leave an event whose node the next accept of the same batch takes.

What a server has in hand is all that differs in `BytesComeBack`: the buffer of the node
(`ReactHeld`, `AioHeld`), of the descriptor (`EpollHeld`), the line of the worker (`ForkHeld`), or nothing
between two steps (`AllKept`, `SigioHeld`, `EventHeld`). A read takes from the
unread what it puts in hand, a write moves it on, and a new connection begins with nothing in
hand, so that the node of a closed one must have been emptied. In `AioServer` a second
node of the same connection would send its bytes out of turn; `AioNamed` excludes it.

`NothingIsMissed` is about `set_aio`, which makes a connection's own arrivals signals only after it was
accepted: what came before has no signal, and is found because the handler reads all
entries after the accept. After `fork` the child inherits entries but no signals, and main passes
on those of the parent.

`NoReadWaits` has the hypothesis `Stacks \subseteq {{}}`: the memory of `fds` in `poll.c` holds
no POLLIN. It is what the runs take, and without it the property is false (see above).
`PeersAssumption`, `EpollAssumption` and `ServersAssumption` say that there are finitely
many clients, that `None` is none of the values it stands beside, and that tables, batches and
buffers have room for one entry; the last is a `#define` or an array in each program.
`OwnerAssumption` says that the owner "nobody" is neither parent nor child.

## Daemon

`DaemonStart` has one action per system call that matters: two forks and `setsid`, the
change of directory, the record lock, the truncation and the writing of the pid file.
Several commands start at once and any process may be killed anywhere. `process_func/daemon.c`, which forks once
and takes no lock, runs beside them.

`SyncProofs` proves, for any number of starts: `PidFileHolds` (the file names the
daemon that runs), `DaemonsDetached`, and `Singleton`. The inductive invariant `DaemonInv` is
`TypeOK`, with four facts: forks are counted (`ForksCounted`), whoever is between `lockfile`
and its end holds the lock (`DaemonLock`), the file names the running daemon, and what was
left behind at each stage stays so (`LeftBehind`). `ForksCounted` is needed because a
process id is a start and a number of forks, and a fork drops no lock but that of its own
process; `Singleton` then follows from `DaemonLock`, the lock having one holder. One of the conditions of
`SyncAssumption` is that no process id stands for "nobody".

## What is proved and what is only checked

| proved for every instance | module |
|---|---|
| `QueueTypeOK`, `QueueSafe`, `QueueStoredOnly`, `QueueIsFifo` | `QueueProofs`, `QueueLemmas` |
| `PoolTypeOK`, `PoolCountersExact`, `PoolNoFatal`, `PoolIsTaskPool`, `PoolNoLostSlot`, and, settled, `PoolKeepsMinThreads`, `PoolNoLostTask` | `PoolProofs` |
| `MutexExcludes`, `MutexOwnerPosts`, `NodesInOnePlace`, `NoSignalLost`, `PidFileHolds`, `DaemonsDetached`, `Singleton`, `ItemsShownOnce`, `SlotsAndDescriptors`, `AllIsPrinted`, `SomebodyMoves`, `RingsNeverRefuse` | `SyncProofs` |
| `NoDescriptorLeaked`, `EachReadAnswered`, `AnswersAreTrue`, `NothingInUse` | `ServersProofs` |
| `EventsStayFresh` | `ReactorProofs` |
| `TablesAgree`, `NoReadWaits` | `PollingProofs` |
| `BytesComeBack`, `NothingIsMissed` | `EchoProofs` |

`ServersProofs`, `ReactorProofs`, `PollingProofs`, `EchoProofs` and `SyncProofs` take `tlapm` ten to
thirty minutes each, the others a minute or less. Leaves that only Zenon
proves name it.

Only model-checked, because the prover cannot do it:

* liveness (`TasksServed`, `CallersReturn`, `ShutdownCompletes`, `EventuallyEchoed`,
  `ClosedInTheEnd`, `AllReaped`);
* what recursion computes: `MergeSorts` of the barrier sort and `RoundTrip` of the url
  conversions.

Only model-checked so far: `ConsumedInOrder`, the order of what is taken from the ring, of the stream with
an urgent mark, of records and of answers by datagram. For the ring its proof would need, under
`build = "whole"`, what each of its cells holds between `rear` and `front` and in the hands of each
process.

## Hazards without a property

The hazards in `PROJECT.json` are those with properties. These are known too:

* `poll.c:84`: the entry past a full table is written. The model ends there as undefined.
* `epoll_reactor.c:276` and `:278`: one failed connection ends the server; bytes read
  with the end of file are dropped. Modelled, and no promise is broken.
* `thread_pool.c:344`, overflow for huge arguments; `thread_pool.c:382`, a print without the lock.
* `shm.c`: the mutex is not process-shared, so that a sleeper is not woken.
* Two processes that create the ring at the same time.
* `aio_echo_server.c:149`, `status` cleared before the descriptor is closed; and a
  terminating NUL written behind a full buffer.
* `libevent_stream_client.c`: the bufferevent freed while input still comes.
* `thread/semaphore.c`: a counting semaphore lets several producers change the list at once.

Three more are covered by properties, though not listed: the children that end together in
`echo_server_multiprocess.c:22` (`AllReaped`), an entry left behind by
`close_tcp_connect` in `echo_server_tcp_udp_select.c:238` (`TableAgrees`), and the length
of an address left from the client before in
`unix_domain_socket_datagram_server.c:39` (`FailsForTheGone`).

## Not modelled

`thread_pool_destroy`: the sample calls it with workers alive, and the library has
no call that waits for them, so there is no order to check. Failed `pthread_create`
or `malloc` in the pool end the process. Start-up of the servers (options, sockets
that cannot be made), printing and logging.

The message queue of `msgqueue.c`, whose order and delivery are the kernel's alone. The thread
exercises beside those named: `semaphore.c` has no lock around its list, so that nothing
could be claimed of it, and the others call one function. The libevent exercises `test1.c`
to `test3.c`, whose callbacks print. File and directory programs, linking and assembly
exercises, which are straight lines of system calls or no programs with a state. The
remaining socket wrappers, each one call and an exit when it fails.
