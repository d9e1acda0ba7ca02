# Verification of misc-projects

The repository is a collection: a Windows driver and its control program (Near-Field
Proximity over sockets), the companion code of a network-programming book (20 chapters of
servers, clients, providers and tools), and single files, among them an allocator and a
login shell for a packet filter. It has no common program. This project models the parts
that have state shared between threads, processes, machines or callbacks, and the
allocator. `PROJECT.json` lists every part, also those left out.

Paths below are relative to `src/`; `NFP/` stands for
`Near-Field Proximity Sample Driver (UMDF Version 1)/C++/`, `book/` for
`network-programming-for-mswin-cdrom/`.

## 1. Inventory

### Near-Field Proximity driver and control program

| Component | State | Operations | Interacts with |
|---|---|---|---|
| File context, `NFP/driver/FileContext.cpp` | role, enabled flag, pended request, queue of received messages and its counter, count of unreported events | get next message / event / transmission, set payload, enable, disable, received publication, arrival, removal, transmitted, cancel, close | queue (calls it under list locks); framework (cancellation on another thread) |
| Queue, `NFP/driver/Queue.cpp` | lists of publications, subscriptions and connections, three locks | file create and close, I/O controls, connection established and terminated, events | everything |
| Connection, `NFP/driver/Connection.cpp` | socket, state, id of the receive thread | establish, transmit, receive thread, terminate, destructor | queue (callbacks on its receive thread) |
| Listener, `NFP/driver/socketlistener.cpp` | listening and client socket, thread-pool object, validator, thread id | bind, begin accept, accept callback, stop | queue (validator), thread pool |
| Control program, `NFP/exe/NetNfpControl.cpp` | files on a share | hot key, lock, search, place, claim and expire a marker | other machines through the share; the driver by I/O control |
| Driver, device, COM support | reference counts | creation | framework |

The device asks for no framework locking (`device.cpp:67`) and the queue dispatches in
parallel (`Queue.cpp:102`), so every entry point can run at the same time as every other
on any thread. Hard here: cancellation racing completion; threads that wait for each
other while holding a list lock; objects deleted by whichever thread comes last; ids and
flags read without a lock; processes that die between two file operations.

Correct means: a request is completed once and never sleeps beside what it waits for;
messages and events are neither lost, repeated nor reordered; a socket is closed once; a
connection is not used after its deletion and leaves the list when its peer goes;
publications reach every link; stopping and closing end; one pair of machines per marker.

### Programs of the book

| Component | State | Operations | Correct means |
|---|---|---|---|
| Completion-port echo server, `book/chapter05/iocp/server` | per socket: count of outstanding operations, sequence numbers, list of early completions, closing flag; the pool of accepts of the listening socket | receive, send, error, graceful close, on several threads; accept, repost, closing of silent sockets | the echo is in order whatever the completions do; an object is freed once, after its last operation; the accepts are counted and stay in the pool |
| Completion-port server with throttle, `book/chapter06/iocpserver.cpp` | pools, `gOutstandingSends`, lists of pending sends and accepts | the same, pacing of sends and accepts, reposts and sweep by the main thread | counters stay exact until an accept fails; the throttle holds; nobody is forgotten behind it |
| WSAEventSelect, WSAAsyncSelect, nonblocking, blocking servers, `book/chapter05` | per socket: pending buffers, closing flag; per thread: arrays of events | readable, writable, close; assign and renumber | each implements the same service; connections end |
| Overlapped server, `book/chapter05/overlapped/server` | threads with up to 64 events each, buffers, sockets | assign, remove, renumber, complete | a completed operation has a thread that looks; objects outlive operations |
| Load client and blocking client, `book/chapter05` | connections, counts; two threads on a socket | connect, send, receive, shut down | they end, and only when done |
| Layered service provider, `book/chapter12/LSP` | socket contexts with reference counts, overlapped structures, worker queue, hidden window; the Winsock catalogue | the SPI and extension functions, completions of the provider below, close; install, remove, force | contexts leave once, structures are conserved, requests are reported; chains resolve |
| Name space provider, `book/chapter12/NSP` | tables of classes, services and queries in a service | install, remove, register, look up | lookups are exact under registration by others; names are unique |
| Ping and traceroute, `book/chapter11` | sequence number, TTL, one posted receive | send, receive, time out | late and foreign replies do not spoil the result; checksums verify |
| Named pipe servers, chapter 20; NetBIOS, chapter 17 | pipe instances; NCBs | connect, read, write | not modelled |
| The rest (chapters 1-4, 7-10, 13-16, 18, 19) | none between calls | straight-line socket or system calls | not modelled |

Single files: `malloc.c` (heap of boundary-tagged chunks in segments; every routine must
keep the structure consistent, the blocks of the program untouched and the footprint exact)
and `authpf.c` (sessions that share a pid file; the access through the filter must belong to
the session that announces it) are modelled. `tal-1.9`, hooks, scripts and data are not.

The single lines at which these parts are hard to test are the hazards of `PROJECT.json`.

## 2. Plan

| Step | Modules | State |
|---|---|---|
| 1 | `NfpFileContext`, with proofs | done |
| 2 | `NfpLink`: connections, publications, their lists and locks, with proofs | done |
| 3 | `NfpListener`, with proofs | done |
| 4 | `NfpRendezvous`, with proofs | done, without `/e` and `/q` |
| 5 | `IocpEcho`: one socket of the completion-port server, with proofs | done |
| 6 | `ThrottleServer`: the chapter 6 server with its listening side, with proofs | done |
| 7 | `EchoService` and `EchoSockets`; `EventServer`, `AsyncServer`, `NbServer`, `BlockingServer`, composed and shown to implement `EchoService` in `SelectServers` | done |
| 8 | `DlHeap`, `DlSystem`, `DlMalloc` | done |
| 9 | `LspSockets`, `Lsp`, with proofs; `LspCatalog`, started by `NetworkPrograms` | done |
| 10 | `NameTables`, `NameSpace` | done |
| 11 | `OverServer`, `IocpAccepts`, `IocpClient`, `BlockingClient`, `IcmpProbe`, `Authpf`, started by `NetworkPrograms` | done |
| 12 | `PipeServer`, chapter 20; the `/e` and `/q` modes of the control program | open |
| 13 | proofs: the invariants of `NfpLink` and `IocpEcho`, `SendsThrottled` and `OperationsCounted` of `ThrottleServer`, the safety properties of `Lsp`, `TraceIsTrue`, `AccessIsOwned` and `AcceptsAccounted` of `NetworkPrograms` | done |
| 14 | proofs: the other invariants of `NetworkPrograms`; `NamesUnique` of `NameSpace`; the safety part of `SelectServers` implements `EchoService` | open |

The runs are kept at twelve, the most that are repeated with every change, so small
programs that share nothing are started from one module (`NetworkPrograms`, and the four
servers of `SelectServers`): a behaviour is one of them.

## 3. The modules

Variables have the names of the fields they stand for; history variables, external state
(framework, thread pool, network, share, operating system) and places in the code (`pc`)
are marked in the declarations. An operator whose comment says "mutant" or "a slip" is a
deliberately wrong version of the definition after it, used to show that a property can
fail; no specification uses it. Where a component's state is one record and its functions
are functions on that record, several of them can be one step without a variable being
primed twice.

### The driver and its control program

`NfpFileContext` is one `CFileContext`. Every method holds `m_RoleLock`, so a method is one
action: `GetNextSubscribedMessage`, `GetNextProximityEvent`, `GetNextTransmittedMessage`,
`SetPayload`, `BeginProximity`, `Disable`, `Enable`, `HandleReceivedPublication`,
`HandleProximityEvent` (arrival and removal), `HandleMessageTransmitted`, `OnCancel`,
`OnCloseFile`; `RejectGetNext` is the queue's answer to a request of the wrong role. The
lock does not stop the framework: `Cancel` claims a cancelable request at any moment, and
an action that marks and unmarks a request chooses whether the claim came before, between
or not at all. Messages are numbers in the order received; a buffer is one of four classes
(none, too small for the hint, large enough for the hint, large enough). `published`,
`delivered`, `lost`, `events` and `reported` are history.

`NfpLink` is `CConnection` with the lists and locks of `CMyQueue`. A thread is named after
what it works for: a connection (the thread that establishes it and closes its handle) or a
publication (`SET_PAYLOAD` and close); beside them one receive thread per connection and
the thread in `~CMyQueue`. `m_ConnectionLock` and `m_PubsLock` are variables because they
are held over calls that wait. `Unlink` is the removal from a list with its end as it is in
the code. `_ThreadpoolThreadId` starts with any id of `StaleIds`, as
an uninitialised field does. Touching a deleted object ends a behaviour (`ub`). `disturbed`
is set when a peer goes before `ConnectionEstablished` has returned, when a send fails and
when unloading begins; the properties that those events break say so.

`NfpListener` is `CSocketListener`. The thread of the queue (`Main`) and thread-pool threads
share its fields without a lock, so a step is one access to a shared field. A callback
starts the next accept before it returns; two callbacks can overlap. `ValidateAccept` is a
hand-over of a socket. The object's deletion is not modelled: fields stay readable after
the stop.

`NfpRendezvous` is `Proximity` and `AcquireFileLock`. The share is a lock, a set of markers
and the markers that have their content. A press takes or gives up the lock, finds and
claims a marker and becomes a client, or places one, sleeps, takes the lock again and
expires it. `Crash` ends a process at any step: its lock goes, its marker stays. A press
gives up the lock after 200 attempts (`LockNotAcquired`, `ExpireSkipped`). In at most
`MaxFailures` presses any call on the share fails, and the code goes on as it does: a search
that fails finds nothing, a marker that is not read or not renamed has a client all the same,
one that is not placed or not written is awaited, and one that cannot be renamed at the end
counts as claimed (`SearchFails`, `ClaimFails`, `PlaceFails`, `ExpireFails`). One hour directory
is modelled.

### The echo servers

`EchoService` is the abstract specification: units that come back once and in order, a
connection that the server ends only when the peer has finished and has everything back.
It has two weaker forms for servers that do less by themselves: one that `repeats` may return
an earlier unit in the place of the next, as many as were sent; one that is `hasty` may end a
finished connection before it has returned everything.

`EchoSockets` is the network under the servers that do not use completions, and the
`SOCKET_OBJ` each of them keeps: a window that fills, sends that take a part, events that
are recorded once and re-armed by the call that answers them. `EventServer` (child threads
with arrays of events, main that assigns sockets to them), `AsyncServer` (one queue of
window messages), `NbServer` (`select` over a list) and `BlockingServer` (two threads and a
semaphore for each connection) are the four programs on it. `SelectServers` starts one of
them, over TCP or UDP, and states the refinement.

`IocpEcho` is one `SOCKET_OBJ` of the chapter 5 completion-port server, TCP or UDP, from
`GetSocketObj` to `FreeSocketObj`. `Poster` posts the first operations (the handler of the
accept, or `main` for UDP); `Workers` run `CompletionThread`. The critical section is
re-entered inside `HandleIo`, so it is one owner; a failed TCP operation is handled outside
it, and `OutstandingOps` is raised after it is left, in steps of their own (`CountFirst`,
`DoSendsCount`, `CountRecv`). The stack fills receives in the order posted and puts their
completions in a set, from which any worker takes any. The buffer of a send that could not
be posted is freed and stays in the list: `Dangling`.

`ThrottleServer` is the chapter 6 server: completion threads, and main with its accept
pool. The lists (`gFreeBufferList`, pending accepts, pending sends) share the field `next`
of the buffers, so the model keeps the pointers (`mem`). The test of `gOutstandingSends`,
the removal from the list, the post and the raising of the counter are separate steps, as
no lock covers them. A failed accept frees its buffer and leaves it listed: from then on a
buffer may be handed out while an operation uses it, and the counters mean nothing.
`OperationsCounted` is therefore about the time until an accept fails (`count.acceptErrors`
is history for that). `NothingLeftBehind` says, when all is quiet and nothing has failed,
that no send is pending, and that no connection waits in the backlog unless the pool of
accepts is at its limit, a repost is due, more connections wait than one burst takes, or the
heap is used up; with a throttle of zero nothing is ever sent, and it says nothing.

`IocpAccepts` is the listening socket of the chapter 5 server: `main` posts the pool of
accepts and once a minute closes the sockets that have been connected and silent for five
minutes, by way of the buffers it remembers; completion threads hand a connection over and
post its buffer again. What a connection does then is `IocpEcho`; here it can only end
(`ConnectionEnds`). Raising `OutstandingOps` is a step of its own, as it is there.

`OverServer` is the overlapped server: per thread a list of buffers, an array of events
and its counter, which other threads change while the thread sleeps on the old array.
`PostAccept` without a socket returns in `SockCritSec` and counts nothing; its thread may
enter again, and any other that comes to post an accept is stuck for good. `CompletionsAreSeen`
is about threads that wait, not about those.

### The clients and probes

`IocpClient` (main and `SendThread`, buffers or files, with or without a rate limit),
`BlockingClient` (two threads on one socket against windows of limited size) and
`IcmpProbe` (ping and tracert; packets are sequences of 16-bit words, and the checksum is
computed as in the code; a `SetTtl` that fails leaves the hops of the request before, or the
system's own, and a receive that fails is handled as if the last packet had come again).
`NetworkPrograms` starts one of them, `OverServer`, `IocpAccepts`
or `Authpf`.

### The allocator

`DlHeap` has the structures of one `malloc_state` and the routines that carve, join and list
chunks; `DlSystem` memory from and to the system (`sys_alloc`, `sys_trim`,
`release_unused_segments`, `mmap_alloc`, `mmap_resize`); `DlMalloc` the public routines as
actions, for the global space and for an mspace. Sizes are in units of `MALLOC_ALIGNMENT`
with the real values of the smallest chunk, the foot of `top` and the paddings. Boundary
tags (`head`, `foot`) are kept, so a step that forgets one shows. A routine holds the lock
while it runs and is one step; `ialloc` is three. What the system answers is chosen before
each call (`OsAnswers`).

### The layered and the name space provider

`LspSockets` is the socket context of `sockinfo.cpp`. `Lsp` has the SPI functions
(`spi.cpp`), the overlapped manager (`overlap.cpp`), the extension functions
(`extension.cpp`) and the hidden window (`asyncselect.cpp`). A step is what a critical
section makes atomic, or one call into the provider below. Memory is not handed out twice,
so every use of a freed structure shows (`lsp.health`). Handles are: the handle of a closed
socket is given to a later one, and `given` is the history of who has had it.
`NeverOvercounted` excepts the sockets that are given the handle of an earlier one
(`FirstOfHandle`): a completion that comes late finds them by the handle and is counted for
them. `PoolCount` is the number of structures the free pool is refilled with. Where
`WPUCloseSocketHandle` fails, the handle goes on leading to its context (`lsp.kept`):
`UnlockSocketContext` frees that context all the same, and a later lookup uses freed memory;
`WSPCloseSocket` leaves it allocated, off the list and with a reference that nobody has
(`lsp.leaked`, which also has those of `WSPSetSockOpt`).

`LspCatalog` is the Winsock catalogue under `instlsp.cpp` and the choice a loaded provider
makes from it: installing, removing, repairing chains, `-f`, with calls that fail and tools
that are killed between two calls. A hidden entry and a stub keep the `ChainEntries` of the
entry they were copied from. `LayersOf` are the entries for which `WSPStartup` makes a slot,
`gBaseInfo` the slots it fills; one that stays empty, which is a stub's, has no path, and the
provider does not start, nor do those layered over it (`NotStarting`). `LayersAreServed` says
that without stubs all providers start, and which layers of those that start are served.
`NetworkPrograms` starts the tool.

`NameTables` is the service's tables, a function of the request (`mynspsvc.cpp`,
`nspsvc.cpp`); `NameSpace` adds the programs that call the provider (`mynsp.cpp`,
`rnrcs.cpp`, `nspinstall.cpp`), connections that queue, killed programs and restarts.
The service has 25 places for classes and 50 for services; it tests the number of classes
against the 50 and that of services not at all, so a class or a service too many is written
over a neighbouring global (`Overrun`): over nothing of use, a service, a query, or something
of which the service dies at a later request. In the run 2 and 3 stand for 25 and 50, and the
programs overrun both arrays. `NamesUnique` and the completeness of lookups say nothing after
an overrun; `NamesUnique` leaves out services without a name, which a request that a killed
client did not write enters.

### The login shell

`Authpf` is the sessions of one address (or, as `authpf-noip`, of one user): a pid file
whose inode outlives its name, the lock on it, signals, the checks of user and
configuration (banned, listed by name, class or group, a wrong line), and what the packet
filter has for the address: the rulesets, the table entry and the states of its
connections, which the rules let in and only a session with `user_ip` kills at its end. A purge
walks through all rulesets and removes those whose process is dead;
sessions of other addresses only disturb the walk. A step of the packet filter is one step.
`orphaned`, `refused` and `killed` say which of the excepted things has happened: a lock on
a file without a name, something the filter did not take or remove or a `pfctl` that died after
its commit, a session without its clean-up.

## 4. Runs

Every run passes but `file_context_maximum`, which shows a claim of section 6 refuted. The
properties of a run are exactly those listed in `PROJECT.json`.

| Run | Instance | Shows |
|---|---|---|
| `file_context` | 2 requests (symmetric), queue maximum 2, 3 messages, 2 events, allocations may fail | requests are owned, none sleeps beside its message, messages are in order |
| `file_context_maximum` | the same, without failed allocations | violated: the list outgrows its maximum |
| `link` | 1 inbound, 1 outbound, 1 publication, everything may fail, unload | one conjunction of six invariants (`LinkInvariant`), transmission, and that links end |
| `listener` | 2 pool threads, 3 accepts, all calls may fail | hand-over, keeps accepting, stop completes |
| `rendezvous` | 3 machines, 3 presses, crashes, lock failures, 1 press with failing calls | one client, truthful result |
| `iocp_echo` | 2 workers, 2 overlapped receives, 2 messages, both protocols, everything may fail | order, counts and lifetime, echo and release |
| `select_servers` | 4 servers, TCP and UDP, 2 sockets, 2 messages (3 to asyncserver) of 2 units, window 2, one fault of five kinds, arrays of 1 or 2 events | refinement of `EchoService`, everything is echoed, ended connections are forgotten, arrays and lists agree |
| `dlmalloc` | all sequences of 6 calls, 3 live blocks, small, large and mapped sizes, 64 units of address space | consistent heap, untouched blocks, exact footprint |
| `lsp` | 2 application threads, 1 worker, 2 contexts, 2 structures, 2 requests, 3 calls, 1 failure | structures, contexts and counts; requests are reported |
| `throttle_server` | 2 workers, 2 connections, throttle 1, accept pool 1, 2 messages, 1 failure | throttle, exact counters until an accept fails, nobody forgotten |
| `name_space` | 5 workloads of 9 programs, 1 kill, 1 restart | lookups are exact, names unique until an array is overrun |
| `network_programs` | see below | one to three properties for each program |

Bounds. Two requests are enough for one to be cancelled while the other is refused or
pended, and three messages with a maximum of two for a full queue, a drop and a later
delivery. One link of each kind and one publication give every pair of threads that share
a list or a lock; more of a kind repeat the same pair. Two pool threads are all that can
overlap, because a callback starts one accept, and three accepts let ids be reused. Three
machines are two clients for one marker, and three presses let a marker left behind be
found. Two overlapped receives and two workers are what reordering needs, two messages what
a gap needs. A message of two units and a window of two let a send block and be partial;
`MaxEvents` of one makes a second child thread, of two a shared one. Six calls with three
live blocks reach every case of `free` (neighbours before and behind, `top`, `dv`), growth in
place, trimming, a second segment and its release. Three calls of the provider are a close
beside two calls on the same socket; they are too few for a handle that is given again,
which is what the theorems are for. Four runs of the tool are two layers installed over
each other and removed in either order. One failure is allowed wherever a program handles
failures: two independent ones are not explored.

`network_programs`: the server has 2 connections, 4 buffers, 2 threads of at most 3
operations and 2 accepts outstanding (an accept is handled while the bounded heap has the
buffer and the thread it takes: `HeapLasts`); the listening side 2 clients, 2 workers and 2 accepts;
the load client 2 connections, 2 overlapped
operations and 3 sends, so that sends are posted again (with a rate limit and several sends
under way its calls do not fail: such runs are excepted from its property); the blocking
client 2 addresses and windows of 1; ping 3 requests, tracert up to 4 with a destination at
distance 1 to 3, and a system that sends over 3 hops unless told, ids and ticks at both ends of 16 bits; instlsp 2 protocols, 2 layers and 4
runs of the tool; authpf 3 sessions, 1 retry of the lock instead of 10, and seven sets of
files, one for each way in which they admit, refuse or crash a session. `LayersAreServed`
includes that the chains resolve: a layer is served through its chain.

Deadlock is checked in `listener`. Elsewhere the bounded input (messages, presses, calls)
runs out, handles are closed for good, programs end, or undefined behaviour ends the
behaviour, so the configurations say `CHECK_DEADLOCK FALSE`; waiting for ever is a liveness
property there, or a state property of the state of rest (`NothingLeftBehind`,
`ClientNeverStuck`).

Fairness. Weak fairness of each thread's own steps: the scheduler runs what can run. Locks
are Windows critical sections held for bounded code, and no property needs more than weak
fairness of them. The framework calls `OnCancel` once it has claimed a request. A peer that
has seen our `shutdown` closes (it runs the same code). A closed listening socket completes
its pending accept; posted sends complete, and receives complete once the peer has closed.
In `SelectServers` the peers read what was echoed; in `Lsp` the provider below
completes what it has pended. The lock on the share is not assumed to be obtained: a press
gives up after 200 attempts. Nothing is assumed of applications, of arriving data or of
peers that only might go.

What the exceptions leave out. `PublishedIsTransmitted` is about the walk of
`ConnectionEstablished`: a publication that is entered between the two walks and sent by
neither is outside it. `LinksEnd` and the parts of `LinkInvariant` about use and balance say
nothing of a link that is `disturbed`, which is where the deadlock under `m_ConnectionLock` and
the early end of a receive thread are. `KeepsAccepting` excepts a `socket()` that fails, which
ends accepting for good. `ObjectsOutliveOps` excepts failed accepts, and echoes that cannot be
started for its second part; `ClosedIsForgotten` is about objects, not about data that was
never read. `OrderKept` is about removals that run to their end. `FootprintExact` assumes that
the system takes back what `sys_alloc` gives back after a second refusal (`malloc.c:4122`).
Where one of these is a claim of the repository, section 6 has it.

Refinement. `SelectServers!KeepsPromise` is `EchoService!Spec` under the mapping `sent` =
twice the messages that have arrived, `finished` = the peer is not open any more, `out` =
the units echoed, `ended` = the socket is closed, `excused` = the network has failed (a reset,
a network that is down, an empty datagram, urgent data). What a server does itself excuses
nothing: `nbserver` and `bserver` keep the full promise also when sends are cut short;
`eventserver` and `asyncserver` are mapped to a server that `repeats` once the window has had
room for part of a buffer, and `asyncserver` always to one that is `hasty`. Three messages are
what a hasty close needs, so `asyncserver` gets three and the others two. It is a safety
refinement; `DataIsEchoed` (as many units come back, unless `asyncserver` has closed too early)
and `ClosedIsForgotten` add the liveness.

## 5. Proofs

`NfpFileContextProofs` proves for every set of requests, every queue maximum and every
bound, from `NoRequestAssumption` (the null request is not a request) and
`BoundsAssumption` (the maximum is positive, the bounds are naturals):

- `TypeCorrect`: `TypeOK`, and with it that `m_dwQueueSize` stays between zero and the
  maximum. Lemmas give the type of each helper (`CompleteRequest`, `Pend`, `CompleteOne`).
- `RequestsOwned`: `PendedRequestOwned`, inductive with `TypeOK`.
- `NoLostWakeup`: `WaitsOnlyForNothing`, inductive with the two above: that a request was
  completed and not merely forgotten is what allows a message to stay queued.
- `EventsNeverLost`: `EventsConserved`, with `TypeOK` and `PendedRequestOwned`.
- `InOrderOnce`: `DeliveredOnceInOrder`. It is not inductive alone: a new message is larger
  than all before it only if nothing handled is larger than `published`. The strengthening
  `OrderInv` adds that (`OnlyReceived`). `MoveHead`, `AppendLast` and `Purge` say what the
  three operations on the list do to `delivered` followed by the queue.

`NfpRendezvousProofs` proves, for any number of machines and presses, with crashes, locks not
obtained and failing calls, from `MachinesAssumption` and `ChoicesAssumption`: `TypeCorrect`,
`SingleMarker`, `OneWinner`, `TruthfulSuccess` and the action property of `PartnerWaits`.
`TypeOK` knows that the lock's holder is in the guarded code, not that whoever is there
holds it; `LockInv` adds the converse. Then nobody places a marker between another
machine's search and its placing (`MarkerInv`, from which the cardinality of the set of
markers follows, as long as no search fails); a press number is used for one marker
(`PressInv`), so the marker that is in the directory is unclaimed, or its client could not
rename it (`ClaimInv`); and a machine that waits has its marker there, was claimed, or had a
call fail in this press (`WaitInv`). `TypeOK` itself needs `MarkerInv`: a marker gets its content
only where it was placed.

`NfpListenerProofs` proves, for any number of pool threads and accepts and whichever calls
fail, from `ThreadsAssumption` and `ChoicesAssumption`, the safety properties of
`NfpListener`. What takes the place of a lock is a turn: the outstanding accept, then the
one callback that handles it until it has started the next (`TurnInv`). `AcceptsOneAtATime`
and `IoStaysOpen` follow from it and `IoInv` for every initial thread id. The others assume
`~StaleId`, that the uninitialised `_ThreadpoolThreadId` is not the id of the thread in
`~CMyQueue` (they are false without it, see section 6). Then a `StopAccepting` that has
passed its wait, or was spared it because another took `_ThreadpoolIo`, meets no turn
(`EndInv`), which gives `ValidatorStays`; `SocketInv` says what `_ClientSocket` names
at each place, which gives `TypeCorrect`, `OwnershipMoves` and `LeaksOnlyFailed`; and
`KeepInv`, that a turn ends only in a failure, gives `AcceptingGoesOn`. These strengthened
invariants hold on the instance of the `listener` run too.

`NfpLinkProofs` proves, for any number of links and publications, from `ThreadsAssumption`
and `ChoicesAssumption` (connections, publications and the names of places are disjoint, the
switches are switches; the sets may be infinite), all of `LinkInvariant` and
`PublishedIsTransmitted`. The first lemmas are about `Unlink` and lists without repetitions.
Then, in this order, each relative to those before it:

- `Typed` and `LifeInv`: which phases of a connection, its threads and its waits go
  together, that what is listed is not freed and that a socket is closed once.
- `WalkInv`: who walks a list holds its lock. `DueInv`: a publication that a new link has
  yet to be told of is in the list until the walk begins, and in the part still ahead
  afterwards. With the two before they give `Transmitted` and `WalksSafely`, which hold
  whatever an uninitialised `_ThreadpoolThreadId` contains.
- `OutlivesInv`: an outbound connection is freed after its receive thread has returned.
  `QuietInv`: until something disturbs the link, a connection enters the list before it
  leaves it and is freed after that. `BalanceInv`: arrivals and departures, with those still
  to be counted, follow whether the list is empty.

`LinkKept`, all of `LinkInvariant`, assumes that `"closer" \notin StaleIds`: with an
uninitialised id that is the closing thread's, the destructor skips the wait and the
connection is freed under its receive thread (section 6). The two others do not assume it.

`IocpEchoProofs` proves `EchoesInOrder` (`EchoInOrder`) for any number of workers, receives
and data, both protocols and whichever calls fail, from `ThreadsAssumption` and
`BoundsAssumption`. The invariant is `OrderInv`: `TypeOK`; `Ordered`, that a sequence number is
in one place (a posted receive, a completion, the list) and none that is still to be sent
is below `LastSendIssued`; and `SendsFollow`, that what was sent is what was received up to
there. `InsertPendingSend` is put at a place that keeps the list sorted, for every list.
The same module proves `LifetimeKept` (`LifetimeInvariant`) with `LifeInv`: `OrderInv`,
`Accounted`, that `OutstandingOps` with what is posted and not yet counted is what is
posted or being handled (sums of cardinalities, from which it is zero only when nothing
is outstanding), and `Undisturbed`, which holds until a post fails or the peer goes early.

`ThrottleServerProofs` proves two properties for any number of completion threads,
connections, buffers, messages and failures, from `ThrottleAssumption` (the options are
naturals, the set of threads is finite and not empty). For `Throttled`
(`SendsThrottled`) a step lets a thread pass
the test, lets it raise the counter, or does neither (`Passes`, `Counts`, `Unthrottled`); the
bound counts the threads between the two (`InSend`). Nothing about the lists is needed.

`OperationsStayCounted` (`OperationsCounted`) needs all about them: a counter is only right
while no buffer is handed out twice. `CountedInv` says that until an accept fails there
hold `Exact`, the property itself, also of connections without an object, and `Steady`:

- `Listed`: the field `next` makes of the free buffers and of those with a pending send two
  chains, along which no buffer has two predecessors, and the pending accepts are a path
  without repetitions that has every posted accept on it. What else is on it was lost in
  `PostAccept`. The sets are told apart by the states of the buffers, so they are disjoint.
- `Taken`, `InUse`, `Working`, `Holding`: an accept takes one connection, which has no object
  until then; what is posted, pending or in the hands of a thread belongs to a connection
  with an object; the buffer of a receive that is about to be posted has one thread.

The lemmas on the lists say what each operation does to the three (putting at the head,
taking from it, appending, removing from the middle), those on the counters what changing
one buffer or one thread does to the cardinalities (`OneBuffer`, `OneWorker`); then there is
a lemma for each action. The walk of `RemovePendingAccept` is a recursive function of which
it is shown that it exists and follows the path (`EntriesOfPath`); the posting of several
accepts is one step of the model, and its turns are treated by the first that would break the
invariant. `ListsIntactUntilAcceptFails` comes with it: until then `GetBufferObj` hands out
no buffer that is in use, and no walk is endless.

`LspProofs` proves `StructuresAreConserved` (`StructuresConserved`), `ContextsAreConsistent`
(`ContextsConsistent`) and `CountersNeverOvercount` (`NeverOvercounted`), for any number of
threads, sockets, handles, structures, calls and failures, from `LspAssumption` and
`LspSocketsAssumption` (threads and structures are finitely many, the null values are none of
them, and the pool count is positive and not more than there are structures). The three depend on each other and follow from one invariant, `IInv`
(`IInvHolds`): while `lsp.health` is "ok" there hold

- `Types`, with the references a thread has at each of its places: which of `ctx`, `acc`,
  `inner` and `ol` are there is decided by `pc`;
- `Conserved`: a structure is once in the free pool, the pending list, the port, below, with
  a thread, or lost, unless its heap is gone;
- `Balanced`: `RefCount` is what the threads hold, and what `WSPSetSockOpt` forgets or a
  `WSPCloseSocket` that could not close the handle has left;
- `Mapped` and `Listed`: a handle leads to a context that names it; it is live and once in the
  list unless the handle could not be closed, and then it is off the list. Until something
  fails the list has no freed context. Without them a lookup could take a reference to a
  context that nobody counts;
- `Matched`: whoever mentions a context mentions the handle it was given, so that a
  completion that looks the handle up, and not the context, finds the same or a later one;
- `Accounted`: the bytes counted for the first socket of a handle, with one for each completion
  that will be counted for it and, in `WSPSend` and its like, what the thread is about to
  write, are at most what was moved.

Copies in a sequence are counted by cardinalities of index sets (`Copies`), for which there
are lemmas for each use of a list. A step is described by what it moves (which
structure from where to where, which context by how many references), and each of the steps
of `Lsp` has a lemma that shows it is of such a form.

`NetworkProgramsProofs` proves three of the properties of `NetworkPrograms`, each from an
invariant of the one program it is about:

- `TracesAreTrue` (`TraceIsTrue`), from `ProbeAssumption`, for every distance, number of hops and
  system default. `ProbeOk` says that every answer that is posted, queued or can still come
  from a request under way is from within the present time to live, unless a foreign packet
  was taken for an answer or the first `SetTtl` failed (`misled`). That needs that the time to
  live never falls, so a late answer comes from nearer than its line (`NeverAhead`). While
  nothing is late and nothing has failed there is one request, one answer or none, and the
  answer is that of the request with the present time to live (`ExactOnTime`).
- `AccessHasAnOwner` (`AccessIsOwned`), from `BoundsAssumption`, for any number of sessions,
  retries and failures and any files. `LockInv`: whoever is past the lock holds the lock of
  the file its descriptor names, and until a file is locked that has lost its name, that
  is the one file with a name, so one session is inside (`OneInside`). An inode for a new
  file is always left (`InodeLeft`, by counting). `AccessInv`: the rulesets and the table entry
  are those of the session inside, or left by one that was killed; a session that has
  purged the rulesets finds none until it loads its own. Steps are proved in three groups:
  those that leave (`AwayOk`), those that go on and leave the filter alone (`GoesQuietly`), and
  those that change the filter (`OwnsOk`).
- `AcceptsAreCounted` (`AcceptsAccounted`), from `BoundsAssumption`, for any number of accepts,
  completion threads, clients and failures. `Handled`: a buffer whose accept has completed
  is in the hands of one worker, and a worker that has one has not lost it. `Balance`:
  `OutstandingOps`, with the accept that `main` has posted and not counted, is the number of
  accepts that are out and of handlers about to lower it; a step moves at most one buffer
  and one worker, and the counter with them (`BalanceOk`). `Ends`: from the balance, a worker
  that frees the object when nobody is between a post and its count leaves no accept out.
  `Steady`, until a call or an accept fails or a socket is closed: the pool is whole
  (`InPool`) and the handler is who holds the critical section; a new socket is no other
  buffer's because handles are given out once (`NewSocketOk`).

Each of these invariants has been checked by TLC on the instance of the component's run
before it was proved.

The theorems that state a property of a run name it in `PROJECT.json`. The others
(`TypeCorrect` of three modules, `EventsNeverLost`, `SingleMarker`, `PartnerWaits`,
`AcceptsOneAtATime`, `IoStaysOpen`, `ValidatorStays`, `LeaksOnlyFailed`, `WalksSafely`,
`IInvHolds`, `ListsIntactUntilAcceptFails`) state properties that hold for every instance; no
run repeats them.

Only model-checked: every liveness property (the prover has no fairness);
among them `RequestsReported` of the layered provider; `ClientNeverStuck`, which is about
ENABLED; `NothingLeftBehind` of `ThrottleServer`, a property of the state of rest; all
properties of `SelectServers` (the refinement of `EchoService` among them) and of the
allocator, which are computed by folds; of the name space; and of `NetworkPrograms` the other
properties. What a fold or a recursive function computes for every input takes an
induction, which is out of the prover's reach; the walks of `ThrottleServer` are the exception,
because it can be said beforehand what they compute. The properties of the others are
checked over the bounded instances.

## 6. Claims the code does not keep

Each claim below is a comment, an assertion or a document of the repository. Those with a
name are definitions at the end of the module in the table; TLC refutes them on the
instance of the module's run, or with the values named, when they are added to its
configuration (those of `Authpf`, `LspCatalog`, `IocpAccepts`, `IcmpProbe` and `OverServer` on their
module by itself).
The first one, which takes the fewest steps and no failure, is a run; the others are in none,
because the runs are kept for what holds.

| Claim | Module | The code |
|---|---|---|
| `QueueWithinMaximum`: `MAX_MESSAGE_QUEUE_SIZE` is "the maximum size of the message queue" (`internal.h:85`) | `NfpFileContext` | a cancellation that beats `UnmarkCancelable` lowers the counter and keeps the message (`FileContext.cpp:203`) |
| `ListedNotFreed`: an inbound connection is deleted when it leaves the list (`Queue.cpp:645`) | `NfpLink` | the receive thread may end before `ConnectionEstablished` enters it (`Connection.cpp:237`) |
| `TerminateWaitEnds`: `Terminate` lets the receive thread shut down gracefully (`Connection.cpp:69`) | `NfpLink` | it waits under `m_ConnectionLock`, which that thread needs (`Queue.cpp:583`) |
| `UnloadDeletesOnce`: who removes a connection deletes it | `NfpLink` | `~CMyQueue` and the receive thread both do (`Queue.cpp:50`) |
| `StoppedIsQuiet`: after `StopAccepting` no callback runs | `NfpListener` | a stop that finds `_ThreadpoolIo` exchanged does not wait (`socketlistener.cpp:84`) |
| `FreedWhenComplete`: an object waits for its outstanding operations | `IocpEcho` | an operation posted and not yet counted is not waited for (`iocpserver.cpp:735`) |
| `DatagramIsEchoed`: a failed receive is ignored and the rest echoed | `IocpEcho` | its sequence number stays a gap for ever (`iocpserver.cpp:914`) |
| `ClosesOnlySilent`: `main` closes sockets that "have been connected but haven't received any data", and "the AcceptEx call will fail" (`iocpserver.cpp:1290`, `:1312`) | `IocpAccepts` | an accept that has just completed, or whose connection is being handed over, loses its socket too (`iocpserver.cpp:1316`) |
| `BufferIsFound`: "when the operation completes, the worker thread must get the BUFFER_OBJ corresponded to the signaled event" (`overserver.cpp:1038`) | `OverServer` | the handle of an echo that cannot be started stays in the array over one the thread has still to look at, and is closed: `FindBufferObj` finds nothing and `HandleIo` gets `NULL` (`overserver.cpp:1141`; needs three connections: `NConns = 3`, `NBufs = 5`, `NThreads = 1`, `MAXIMUM_WAIT_OBJECTS = 7`, `gOverlappedCount = 3`) |
| `ReceivesUntilZero`: the posted `FD_READ` is "to ensure we recv() until 0 is returned" (`asyncserver.cpp:857`) | `SelectServers` | with `closing` set the connection is closed as soon as the list of buffers is empty, also with data unread (`SendPendingData` before the next `FD_READ`) |
| `IncrementsThroughBuffer`: "in the event not all the data was sent we need to increment through the buffer" (`eventserver.cpp:689`, and the same in `asyncserver.cpp`) | `SelectServers` | the index moves by `idx += 0` (`eventserver.cpp:731`): the front of the buffer is sent again in the place of its rest |
| `NoneRemainOpen`: when `HandleIo` returns 0 "no more socket connections remain open" (`iocpclient.cpp:1421`) | `IocpClient` | the first connection may be finished before the completion of the second one's `ConnectEx` is handled: the count is zero (`:1053`) and `main` ends, with the second connection open and nothing sent on it |
| `NamesHops`: "we start by setting the TTL value to one", "with each send, the TTL is incremented by one" (`tracert.cpp:17`, `:22`) | `IcmpProbe` | a `SetTtl` that fails is reported and not looked at (`:694`): the first request goes out with the system's default, and line 1 names the destination, however far it is |
| `LimitHolds`: beyond the footprint limit allocations fail | `DlMalloc` | `mmap_resize` does not look at it when a mapped chunk grows (`malloc.c:3853`; needs two mapped sizes, `Sizes = {9, 20}`) |
| `AggregateNotMapped`: `assert(!is_mmapped(p))` in `ialloc` | `DlMalloc` | the flag is changed without the lock, so two threads can leave mapping on (`malloc.c:5019`; needs two threads and `Bulks = {<<5, 4>>}`) |
| `ForceCleans`: `-f` removes any non-base provider | `LspCatalog` | an entry that was installed over an unknown catalogue id has a chain of length one, as a base provider has, and stays (`instlsp.cpp:701`) |
| `InstalledStarts`: `-a` is "install over all providers (base or layered)" (usage of `instlsp.cpp`) | `LspCatalog` | an installation over a hidden entry leaves a stub; `WSPStartup` makes a slot for it and fills none (`spi.cpp:2800`, `:2848`), asks for the path of an empty GUID and fails (`:2859`), so that none of the provider's layers is served |
| `HandlesLead`: what `WPUQuerySocketHandleContext` answers is a context (`FindAndLockSocketContext` increments it unlooked, `sockinfo.cpp:48`) | `Lsp` | after a failing `WPUCloseSocketHandle` the handle leads to a context that is freed (`sockinfo.cpp:66`) or that `WSPCloseSocket` left off the list with one reference too many (`spi.cpp:634`) |
| `ClosedAfterLastRequest`: the socket is closed when its last request has completed | `Lsp` | the last reference closes it (`spi.cpp:559`) |
| `ArraysHold`: a class beyond the array is not entered (`if (dwNumServiceClasses >= MAX_SERVICES)`, `mynspsvc.cpp:450`) | `NameSpace` | the array has `MAX_SERVICE_CLASSES` places (`:51`): the test comes 25 classes late; `Services[dwNumServices++]` has none (`:536`) |
| `QueriesEnded`: the service removes its copy of a query | `NameSpace` | `End` sends the command of `Next` (`mynsp.cpp:270`) |
| `StatesEnd`: "we don't have to worry about any luser sessions lasting longer than their ssh session" (`authpf.c:885`) | `Authpf` | a session of `authpf-noip` ends without killing the states its rules have let in (`:946`) |
| `OneSession`: a second user of an address ends the first | `Authpf` | a lock on a file that has lost its name excludes nobody; a session whose `fdopen` failed unlinks the file of another (`authpf.c:238`) |

Other behaviour seen while modelling, excepted by name in the properties it would break:

- Driver: with `StaleIds = {"closer"}` the destructor takes itself for the receive thread
  and skips the wait; with `StaleId = TRUE` in `NfpListener` the same happens to `~CMyQueue`.
  Both need an allocation that happens to hold that id, so the runs use values that do not.
  `Disable` empties the message list and not `m_dwQueueSize` (`FileContext.cpp:83`). A
  callback zeroes `_ThreadpoolThreadId` as it returns (`socketlistener.h:70`), possibly after
  the next one has stored its own.
- `NetNfpControl.cpp`: "Proximity Successful!" is also printed when the lock is not obtained
  again, when `MoveFile` fails for any other reason than a marker that is gone (`:290`), and
  when the marker was never placed (`:251`, neither `CreateFile` nor `WriteFile` is checked); a
  client that could not rename the marker goes on as if it had (`:242`).
- `eventserver.cpp`: a UDP zero datagram or reset closes the only socket. `bserver.cpp` frees the
  connection after a send error while the receive thread uses it, and queues a failed
  receive with length -1. `asyncserver.cpp` keeps an object after a failed send.
- `iocpserver.cpp` (chapter 5): a send that cannot be posted stays the head of
  `OutOfOrderSends` (`:697`). Chapter 6: a failed send keeps its slot (`:888`), a failed or
  swept accept is freed on the list of pending accepts, a wake-up is lost between
  `InterlockedExchange` and `ResetEvent`, the throttle is overshot by the other threads.
- `overserver.cpp`: main leaves when an accept pends (`== NO_ERROR`, `:1381`); a TCP error is
  counted down twice, so a failed accept frees the listening object; the place `EventCount`
  of a thread's array may hold another operation's event when a new one goes there (`:393`);
  without a socket for the next client `PostAccept` returns in `SockCritSec` (`:774`), and every
  other thread that has an accept to post waits for it for ever.
- `iocpclient.cpp`: a failed completion never reaches `HandleIo`, so a refused or reset
  connection keeps the client waiting; a cleanup may count a connection twice; the
  rate-limited `SendThread` sends up to `gOverlappedCount - 1` buffers too many.
  `bclient.cpp` waits for ever when all three zero datagrams are lost.
- Layered provider: a completion that comes after the close is counted for the next socket
  with the handle (`overlap.cpp:878`), `WSPSetSockOpt` leaks a reference (`spi.cpp:2274`), a
  close with requests outstanding keeps the lock of the socket (`:590`), `WSPSocket` may write to a
  freed context (`:2658`), a context whose handle could not be closed is freed or forgotten under
  it (`sockinfo.cpp:66`, `spi.cpp:634`), `WSPCleanup` waits for workers while it holds `gCriticalSection`.
- Catalogue: a stub keeps the whole provider from starting (`spi.cpp:2859`), and with it those
  layered over it; a layer over another layer may find no provider; an installation that is killed
  leaves chains that name entries that are gone.
- Name space: query handles restart with the service, the table of classes is compared by
  address (`mynspsvc.cpp:92`), one silent client stops the service.
- `tracert.cpp`: a time-out repeats the same distance, so a silent router is asked for ever;
  `AnalyzePacket` accepts every packet with code 0; late answers count for the next request, so
  that a nearer router stands on a later line; a receive that fails is reported, and what the
  buffer holds is then taken once more (`:740`).
- `iocpserver.cpp` (chapter 5), listening side: a failed accept is freed and stays in
  `PendingAccepts`, where `main` looks at it (`:1299`); `main` returns, and the process ends,
  when `getsockopt` fails, also because the connection of an accept that is not yet posted
  again has ended; each failed accept makes the pool smaller, and the last one takes the
  listening socket; when the port does not take a handle, `HandleIo` returns in the critical
  section of the listening socket.
- `authpf.c`: `pfctl` that is killed after its commit leaves rules that the session, which then
  dies without removing them, does not own (`:815`). A removal that the filter refuses is not repeated; a killed session leaves the
  table entry until the next session of the address ends. The walk through the rulesets may
  miss one when those of other addresses come and go. When the address does not enter the
  table, the rules go again and the states they have let in stay. A user who is listed
  nowhere "terminates in the same manner as being banned" (`authpf.c:468`): the message for
  him is printed to a null pointer (`:569`), and the session crashes without a clean-up.

## 7. Not modelled

In the driver: payload contents and type matching (a publication matches or not), the
wire format, tracing, reference counts of COM objects, driver and device creation. In the
control program: the `/e` and `/q` modes (a named event; `/q` before `/e` is lost), and time
(a marker lives until it is expired, not two seconds). In the servers: statistics, arguments,
name resolution, failures of allocation that exit; in the chapter 5 completion-port server
several listening addresses; in the chapter 6 server UDP and several listening addresses. In
the layered provider: copies of buffers, a failing `InitOverlappedManager`, a second start
after the last `WSPCleanup`. In the name space: the marshalling of contents beyond which
fields are present. In the allocator: the tree inside a large bin (its order is kept),
statistics, `FOOTERS`, error handlers. In `authpf`: what a session prints, the environment,
the characters of its files, the rulesets of other addresses.

Components with status `not_modelled` are candidates of the plan (named pipes), use
protocols Windows no longer has (NetBIOS, chapter 4), or hold no state between calls;
`PROJECT.json` gives the reason for each.
