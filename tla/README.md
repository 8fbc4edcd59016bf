# FireCell: a TLA+ development of the servers

FireCell is a multiplayer game whose server side is four processes that share
one code base: a packet router (`FCServer`) to which the game clients and the
three services connect, and the services themselves (`FCAuthServer`,
`FCWorldServer`, `FCChatServer`).  Every process is multi-threaded C++ over
pthreads and raw pointers.  This directory models the parts of it where the
order of steps matters, checks the models with TLC, and proves what matters
most with TLAPS.

## 1. Inventory

| component | state | operations | talks to |
|---|---|---|---|
| Router service, `FCServer/FCLogicRouter.cpp`, `common/socket/ClientSocket.*` | map of sockets, queue of sockets with data, list of services, three mutexes; per socket a stream, a dead flag and a locked flag | `OnConnect`, `OnDataReceived`, `OnDisconnect`, the monitor thread | called by the socket server; sends to clients and services |
| Socket server, `common/sockserver` | pools of 512 slots (`MAX_WAIT_SOCKETS`), one thread each, a list of pools | accept, add to a pool, select, remove, destroy a pool | calls the router |
| Packet framing, `common/PacketExtractor.cpp`, `PEPacket*`, `binstream.h` | a byte stream with its own mutex | `Concat`, `Extract`, `Delete`, packet construction | used by every process |
| Synchronisation, `common/PThread*` | a condition with a private mutex | wait, signal, broadcast | used everywhere |
| Database jobs, `common/database`, `common/ServiceLogicBase.cpp` | queue of jobs, queue of completed jobs, two workers with a connection each, one result thread | `QueueJob`, the worker loop, the result loop | called by the services, calls their result handlers |
| Auth service, `FCAuthServer` | accounts by id and by client socket | login, character list, character selection, client disconnect; the handlers of the database results | router, database, tells World and Chat of a selected character |
| World service: sessions, `FCLogicWorld.cpp` | players by id, by client socket, by address | character logged in, chain of load jobs, client disconnect | router, database, events |
| World service: addresses, `WorldManager.cpp` | the object at each address | generate, add | sessions |
| World service: computer, ports, items | ports, installed software, processes, usage, inventory | install, uninstall, enable, start, stop | sessions, database, game client |
| World service: bank | accounts by player | create, load, remove | sessions, database |
| World service: missions | missions, per-player copies, counters | assign, accept, count an event | events, database |
| World service: events | queue of events, targets per code | register, emit, dispatch thread | missions |
| World service: forum, file systems, console, software logic | caches of database rows | lookups | database |
| Packet dispatcher, `common/PacketDispatcher.cpp` | per-socket lists of packets, worker threads | queue, create a list with its worker, send | World and Chat service, router |
| Chat service, `FCChatServer` | players, rooms | character logged in, connect, list the rooms | router |
| Game client, `Clients/FCClient` | its own copy of items, ports, usage; windows | requests of the user, responses of the services | router |
| Other clients, tools, `fcadmin`, vendored libraries, daemon and logging | | | outside the development |

What is hard here: a pool thread of the socket server calls into the router
while the router's monitor thread works on the same object; pointers are
fetched under a mutex and used after it was released; every queue is guarded
by a predicate that is tested without the condition's mutex; database results
come back on another thread, possibly out of order and possibly after the
client has gone; the services learn of a disconnect by a packet; the client
repeats every decision of the world service in a copy of its own.
`PROJECT.json` has each hazard at its line, with the properties that would
catch it going wrong.

What makes each component correct (section 3 and the comments of the properties
say how far the code keeps it):

- Router: received data reaches somebody; a connection whose peer is there is
  not torn down; a disconnect is finished and announced once per service; the
  list of services holds connected services; the mutexes cannot deadlock.
- Socket server: what arrives is read; a disconnect is told once; a pool is
  destroyed only when it is empty and is not used afterwards.
- Dispatcher, framing: packets are handled whole, once, in the order in which
  they were queued, for any fragmentation.
- Database jobs: a job is executed at most once and its result handled at most
  once; queued jobs are executed while a worker runs.
- Auth: one session per account, ended by its client's disconnect.
- World sessions: the indexes of players agree; an address belongs to one
  player; a player is told that he is in the game when everything is loaded;
  an account stays in memory while its player is there.
- Computer: client and service agree when nothing is under way; an item is in
  the inventory or in a port, never in both; usage covers the processes.
- Missions: a mission gives its experience once; a parent is complete after its
  children and follows them; what is saved is what was reached.

## 2. Modules and how they compose

| module | what it is | composed with | proofs |
|---|---|---|---|
| `Router` | the router at the granularity of its mutexes | the threads of the socket server and the peers are part of it | `RouterProofs` |
| `Sockets` | the socket server: listener, pools, pool threads | | `SocketsProofs` |
| `Delivery` | dispatcher, socket, network, stream, extraction: a packet's way from a service to the router's handler | | `DeliveryProofs` |
| `JobQueue` | abstract queue of database jobs | | in `DBJobsProofs` |
| `DBJobs` | the database layer, implements `JobQueue` | `JobQueue` as a property | `DBJobsProofs` |
| `Sessions` | abstract table of sessions | | |
| `Auth` | the authentication service, implements `Sessions` | uses `JobQueue` for the database | `AuthProofs` |
| `World` | sessions, addresses, bank accounts and player events of the world service | uses `JobQueue` for the database | `WorldProofs` |
| `Computer` | items, ports and processes, in the world service and in the client | both ends and the connection between them | `ComputerProofs` |
| `Missions` | missions of a player, event thread, statements that save them | | `MissionsProofs` |

What is left for later, in this order: the refinement of an abstract packet
switch by `Router` and `Delivery` together, and a character's life across
`Auth`, `World` and a router that reorders the notices.

## 3. Modules

`JobQueue` and `Sessions` are abstract specifications; the other modules of
section 2 model code.  The `MC...` modules give TLC its instances, the
`...Proofs` modules hold the theorems.  An operator whose comment says "Mutant
of" is a deliberately broken variant of the definition that follows it; no
specification uses it.

### Router

One action per stretch of code between two points where another thread can
interfere: a lock, an unlock that matters, an unprotected read or write.  `pc`
holds the place of each thread, `cur` its `pSocket`, `pkt` the packet it
carries, `dest` the `pTargetNode` of `ForwardPacket`, `next` the iterator of
`NotifyServicesOfClientDisconnect`.

- The listener is `Connect` (`OnConnect`).
- A pool thread runs `Receive`, `AddData`, `QueueSocket` (`OnDataReceived`) and
  `Close` followed by `Disconnect ... Erase` (`OnDisconnect`).
- The monitor runs `Check`, `Wait`, `LockQueue`, `PopQueue`, `LockSocket`,
  `Extract`, `DeletePacket`, `EmptyStream`, the `HandlePacket` actions,
  `UnlockSocket`, `TestDead`, and `OnDisconnect` when it finds the dead mark.

`OnDataReceived` searches the map without `m_mutexSockets`.  While another thread
may be inserting or erasing (`MapInUse`) the search finds the entry, or misses it
and the data is dropped, or never comes back: it walks in a circle or into freed
memory, and the pool thread is "lost".  What it finds is an entry of the map; a
torn read of the iterator itself is not modelled.

A send to a peer blocks while that peer does not read.  `Sending(t)` says that the
next step of a thread is, or contains, such a send; the step may never happen.
A send that fails is left out: the servers install no handler for SIGPIPE, and
`send()` returning -1 is added to an unsigned total.

A stream is a sequence of whole packets; how bytes become packets is in
`Delivery`.  `CBinStream::Delete` compares lengths before it takes the stream's
mutex and then calls `Empty`, so `DeletePacket` and `EmptyStream` are two steps
and what is added between them is discarded, as in the code.  `OnResponse` and
`OnError` of the router return false, so every response and error is a packet of
kind "forward".

Memory.  An object is "none", "live" or "freed".  A pointer to a freed object
may be used: it shows an empty stream, which is what the destructor leaves,
either value of `m_bIsDead`, and writes to it are lost.  `operator new` may
return the memory of a freed object, and every pointer that still points there
then points to the new one (`Repoint`).  If the allocator has scribbled over
`m_sock`, the number read is no descriptor and the lookup in `OnDisconnect`
fails, which is the case of a descriptor that is no longer in the map.
`OnConnect` allocates just before it takes the mutex; the two are one step.

Descriptors.  The Linux server never closes the descriptor of an accepted
connection, so descriptors are not reused and each connection has its own.

### JobQueue and DBJobs

`JobQueue` says what callers of `FCDatabase` rely on: jobs start in the order in
which they were queued, several run at a time, each fails or completes, results
are taken in the order of completion.

`DBJobs` is the code.  A worker is `thrdDBWorker`: `Connect`; `Size`, the test of
`m_jobs.size()` without the mutex; `Fetch`, the critical section that tests
again; `Execute`; `Complete` (`JobComplete`) or `Error`, which drops the job and
may reconnect; `Wait`, which enters `pthread_cond_wait`.  `QueueJob` signals while
it holds `m_mutexJobs`, but `PThreadCond` waits with a mutex of its own, so the
signal is lost if nobody is inside the wait.  A worker whose reconnect failed
calls `Execute` on a null pointer: it "crashes", and since a process dies as a
whole nothing happens after that (`Alive`).  The result thread is
`ServiceLogicBase::thrdDBWorker`: `Count`, `GetNext`, `Handle`; its poll every
250 ms is the repetition of `Count`.  Jobs are submitted once each: an object of
class `FCDBJob` is made for each call.
A dropped job's handler is never called, and only a handler frees the context
(`ServiceLogicBase.cpp:304`), so the context of a job that fails leaks.

### Sessions and Auth

`Sessions` is a table with the client each account's session belongs to: `Open`
when the client is told LoginSuccess, `Leave` when it disconnects, `Close` after
that.  `Lose` is the escape: an account with a session may be lost, and nothing
is promised about it any more.

`Auth` has two threads.  The socket thread runs the handlers of `OnCommand` one
after the other: `Login`, `SelectCharacter`, and `ClientDisconnect` followed by
`EraseAccount`, `EraseSocket`, `DeleteAccount` (`AccountLogout`).  The result
thread takes a completed job (`Take`) and runs its handler: `LoadAccount`,
`AccountLogin`, `MapSocket` for a login, `FindAccount`, `LoginCharacter` for a
selected character; a logout has no handler.  In between the workers run the
jobs by the steps of `JobQueue`; `Effect` is what the update statements do to
`is_logged_in`, at some point between the fetch and the end of the job.

An Account object is named by the job whose result creates it, `live` are the
objects that exist, `char` is the only field that changes.  The constructor does
not initialise it, so `AccountLogin` chooses any value.  The maps are searched
without their mutexes: `Find` gives what the map holds or, while the other thread
is about to insert or erase another entry of that map, nothing.  `missed` has
the accounts whose entry a login looked for and did not find although it was
there.  This is how a second client gets in: while the socket thread erases the
account of a third client, the login misses the entry of the first.
`MapsAgree` and `OneSession` except these accounts, and to `Sessions` they are
lost.  The other lookups that miss, those of `GetAccountByClientSocket`, cost a
selection or a logout and are excepted nowhere.  That such a lookup may also never
return, which would only stop its thread, is left out.  Sending the response and
the lookup before it are one step, because the response changes nothing the other
thread reads.

A client socket is used for one connection (the Linux router does not close
accepted descriptors, see Router), packets of a client are handled before the
notice of its disconnect, and there is one router: with several of them client
sockets of different routers could have the same number.

### World

A Player object is named by the login that creates it, which is a selection of a
character over a client socket (`SocketOf`).  `Select` is
`OnDBJob_LoginCharacter` of the authentication service, which limits nothing: a
client may select several characters, one character twice, and a character
another client plays.  A second player over one socket takes the first one's
place in `m_mapClientSockets`; the first stays in the other maps, and the
disconnect does not find him.

Three threads work on a player.  The socket thread runs `CharacterLoggedIn`, then
rounds of `Dial` (the loop around `GenerateIPAddress` and `AddToNetwork`; it
handles no packet before the loop ends, hence `dialling = None` in the guards),
`ClientDisconnect` and `BankCreateAccount`, which asks only whether the socket
leads to a player and he has no account, so it may come between any two of the
load queries.  The result thread runs the handlers of the five load queries
(`Load`, `Loaded`), each of which queues the next one with the raw pointer to the
player.  The event thread runs `Deliver`.  The steps of the database layer are
those of `JobQueue`; `Execute` also decides what the bank query finds and writes
the row of an insert.

`RemovePlayer` deletes the object while a query for it may be running.  Whoever
uses a deleted player may bring the process down (`Touch`); if it does not, the
handler goes on with what the memory holds, and nothing happens after a crash.
Making a player is one step with its entries in the maps, and so is removing
one: the other threads find players by pointer only, never by these maps.

Addresses.  `CreatePlayer` passes the country where the constructor of `Player`
takes the city, so `Generated` looks each id up in the other table.  If one is
not there the address stays what it was: that of a new object is what memory
holds (`Residue`), since the constructor leaves it uninitialised.  Entries of the
network are never removed.  The set of hosts is finite here; `AddressesAreOwn`
does not depend on how many there are.

Packets of a client arrive in order, and the notice of its disconnect arrives
after them; the packet of the authentication service may arrive after the
notice.  The bank handlers that only answer, and the requests that only read,
are left out.

Who is answered.  `LoadIsCarriedOn` says that a load chain does not break between
the threads.  It is not the promise that every client is answered, which the code
does not keep: a client whose character is in the world already gets no answer
(`FCLogicWorld.cpp:448`), a job that fails ends the chain, and a queued job waits
for a signal that may be lost, which is `DBJobs`.

### Computer

Both copies of one computer and the connection between them.  `Serve` is the
world service's handler of the next packet, `Receive` the client's handler of
the next response, the rest is the user.  Requests and responses are records;
packets stay in order, which is what `DeliveredInOrder` says of the way.  Ports
hold an item, every item has a software type of its own, and costs are numbers
per item.  `GetAvailableMemory` is unsigned, so `Affordable` subtracts modulo
`Word`; the usage itself is kept as a number.

The user does not wait: he may ask again before the answer.  A desktop icon
starts an application only if it has no window; a window opens with the
response, so two starts before the first answer are possible, and `procs` then
has the item twice.  `list::remove` takes both out at the first stop while the
usage goes down once: the usage is too high for the rest of the session, never
too low.  The check box of a port is disabled until the answer, but a window
that is opened again, or refreshed by the answer for another port, has an
enabled one, so `Toggle` is not guarded.  An installation takes the item before
it is known whether the port is free; on failure it is gone.  The service does
not answer an installation without the item, and an uninstallation of an empty
port.

`Relogin` is a logout and a login at any moment: what was under way is lost,
processes and usage start from the enabled ports.  Items and ports come from
their rows, which were written by jobs of their own (`Player.cpp:366-386`,
`FCLogicWorld.cpp:1991`): one may have been dropped (`FCDatabase.cpp:338`), and
the login's query may have overtaken one.  So a login brings any of `Tables`,
whatever the player had, and the first one does the same; a row of a port is
written whole, so an enabled port has software in it.  `NothingIsDuplicated` is
about the steps within a login.  From one login to the next the code does not
hold it: the item can come back in the inventory and in the port.

### Missions

One player.  The socket thread accepts a mission in several steps: per mission
of the family an insertion into the map and a link to its parent (`Insert`,
`Link`), then the rows, one mission at a time (`Persist`; `unsaved` is what
`PersistNewCharacterMission` is still to be called for).  The event thread hands
an event of the player to one mission after the other (`Visit`, with `cursor` as
the iterator), a child's completion to its parent (`ToParent`) and any other
completion to the player (`ToPlayer`).  A parent with `Required` 0 asks for every
child it has.  `pending` are the statements in the order in which they were
queued; the worker that executes one may be overtaken by the others (`Execute(i)`,
`i` up to the number of workers).

`Tables` is what `fc_missions` contains: two levels, a parent with a lower id than
its children, and "a child was completed" as the event of exactly the missions
that have children.

The disconnect does not look at the event queue, and neither does `Relogin`.  What
is queued then is for the old `Player` object, which is deleted, and for the old
`Mission` objects, which are not (`RemovePlayer`, `Player::~Player`).  `old` marks
such an event, unless `operator new` puts the new player where the old one was,
so that the player's events reach him (`reused`).  `Leftover` handles an old
event.  What is read of the deleted player, his id and the nodes of his map, is
what that memory holds: the event may reach any old mission that waits for it,
or none, and crash.  An old mission that counts writes its count to the row of
the same mission.  The counts of the old copies are not kept: the write has any
value of `OldCounts` and its success is a choice, which is more than the code can
do.  Left out is that the freed memory has become another player, whose row is
then written.

The event thread reads the map and the vector of children without
`m_missionLock`; while they are being changed it may crash (`Crash`) or read a
consistent state.  `disturbed` is a history variable of four races: an event was
handled in the middle of an accept, a statement overtook another, a login came
before the last statement, or a login came before the last event.  In each of
them the code does lose counts, or a parent never follows its children, and the
properties about saved counts and parents are stated for the other behaviours;
that within one login a mission gives its experience once is stated for all of
them, the events of an earlier login included.
Failure events do nothing in the code (`TODO`) and are left out; so is the
column `complete`, which is written and never used.

### Sockets

The listener is `Accept`, `Look` (one pool of the list per step), `Count`, or
`NewPool` and `List`.  A pool thread is `Select`, then per ready descriptor
`Serve` (a `Search`, then `Receive` or `Closed`), `RemoveSocket`, `Destroy`, and
`Exit` when its pool is empty.

Calls that fail.  `AcceptFails` is `accept()` returning -1, after which that
connection is gone.  `ListenFails` is the listener's `select()` doing so: its
thread ends and nobody is accepted any more.  `SelectFails` is the same in a pool:
its thread is "broken", the pool is deleted with its connections, and nobody
takes it from the list.  A `pthread_create()` that fails leaves a pool whose
thread is "missing"; the code goes on as if it were there.  A deleted pool that
the listener looks at may look full or as it was.  That its memory may be that of
a new pool by then is not modelled.

`found` is the local pointer `pSocket`: when the
count is 0 the search does not run and the thread serves the slot of the one
before again, which happens if an increment of the count was lost. That slot's
socket is then 0, or a connection the listener has just put there. `AddSocket`
and `RemoveSocket` read and write the descriptor set and the count without a
lock, so each is a read (kept in `stale`) and a write that may use the value
read. A pool that is deleted may still be in the list or in the listener's
hands; its use may crash the process (`Touch`).
`Destroy` finds an index and removes it in a second step, which may by then be
another pool's.

`raced` is a history variable: the listener used a pool, or the list, while a
thread was removing a socket from it, or two threads changed the list together.
After it the pools may disagree for good, and `PoolsAgree` excepts it.
`DisconnectsOnce` does not.  Neither does `ArrivalsAreServed`: it is about every
connection that the search and the select of a thread come to (`Reached`), a fact
of the state.  A connection above the count, one whose descriptor or slot a race
lost, and one whose pool has no thread are not reached and not served.

A descriptor number is not used again because accepted descriptors are not
closed.  The sinks are one step: what they do is `Router`.  That step, and the
`recv()` before it, need not return: `OnDisconnect` of the router waits for
mutexes held across sends.

### Delivery

`Thread` is `queuePacket`, `Worker` is `thrdPacketDispatcher`, `Pool` is
`OnDataReceived` of socket server and router, `Monitor` is `thrdSocketMonitor`.
A data block is a sequence of units: `HeadLen` units of head, the last of which
gives the length of the data, then the data.  `Send` is one call of `send()`,
which takes any part of what is left; the pool thread's `recv` takes any part of
what is under way; so every cut of every block occurs.  Every packet has data,
as all packets of the World and Chat services have.

`Signal` wakes the worker only if it is asleep, and between `Leave` and `Wait` it
is not: the signal is lost and the packet stays until the next one.  The same
holds for `QueueSocket` and the monitor.  `Delete` compares the lengths and
`Empty` clears the stream in a second step.

`raced` becomes true when a second list was made for the socket (the map is
looked up and changed without a lock) or data was added while `Extract` or
`Empty` worked on the stream.  The first lets packets overtake each other, the
second loses data or reads freed memory.  What follows is undefined and the
model ends there (`~raced` in `Next`); the properties say so.  Handling a packet
is one step that returns; in the code `ForwardPacket` may block in a send to the
packet's receiver, which is a matter of `Router`.

## 4. Runs

| run | instance | shows |
|---|---|---|
| `router_data` | 2 connections in 2 pools, 2 packets each: register, to the service, to a client; 6.4 million states | types, `PoolPointersAreLive`, `NoStrandedData` |
| `router_disconnect` | 2 connections in 2 pools, 1 packet each, which the router handles or ignores itself; fairness, but of no send; 96 000 states | `OpenPeerKeepsItsSocket`, `NoCircularWait`, `NoticeIsNotRepeated`, `DisconnectReturns` |
| `db_jobs` | 2 workers, 3 jobs, fairness; 23 000 states | types, `JobsRunOnce`, `HandledOnce`, refinement of `JobQueue`, `BusyWorkerSuffices` |
| `auth_sessions` | 2 clients, 2 packets each, 2 accounts, 1 worker, 1 failed job, lookups that miss; 3.7 million states up to symmetry | types, `MapsAreLive`, `MapsAgree`, `OneSession`, refinement of `Sessions` |
| `world` | 2 clients, 2 of 3 selections, 2 of them over one socket, 2 characters of one city, one with an account, 1 worker, 2 hosts, 1 failed job; 4.1 million states up to symmetry | types, `IndexesAgree`, `AddressesAreOwn`, `ToldWhenLoaded`, `AccountsStay`, `LoadIsCarriedOn` |
| `computer` | 2 ports, 3 copies of 2 services, 3 applications, 5 requests, 2 logins with any of 3 tables of rows; 2.6 million states up to symmetry | types, `EnabledPortHasSoftware`, `ViewsAgreeWhenQuiet`, `UsageCoversProcesses`, `NothingIsDuplicated` |
| `missions` | a mission with 2 children, 2 workers, 3 commands, 2 logins, 2 events left over; 14.5 million states | types, `RewardedOnce`, `ParentCompletesLast`, `SavedWhenQuiet`, `ParentFollows` |
| `sockets` | 3 connections, pools of 2 slots, 2 packets, calls that fail; fairness, but of no call that may block; 280 000 states | types, `DisconnectsOnce`, `PoolsAgree`, `ArrivalsAreServed` |
| `delivery` | 2 threads, 3 packets of 3 and 4 units, fairness; 447 000 states | types, `DeliveredInOrder`, `QueuedIsDelivered` |
| `router_disconnect_lost` | 2 connections | violates `DisconnectIsHandled`, a finding |
| `auth_logout` | 2 clients, 1 account, 1 packet each | violates `LoggedOutWhenGone`, a finding |
| `world_address` | 2 clients, characters of a city whose id is no country's | violates `AddressIsFound`, a finding |

Bounds.

- Router: `MaxSend` bounds what one connection sends; two packets are enough for
  an addition to meet each step of the drain of the previous one.  Two
  connections give a service and a client.  A descriptor is larger than any
  service type in these instances, as it is when the process has its standard
  streams open.
- Database: two workers are what `FCDatabase.h` creates; with three jobs one
  waits while both are busy.
- Auth: two packets of a client are a login and a second login, or a login and a
  selection, followed by the disconnect; `MaxFail` is a job that fails and loses
  a login or a logout.
- World: `MaxSelect` = 2 of the three logins are made: two characters, or one
  character twice, over one socket or over two, one login meeting the end of the
  other.  With two hosts the second player may draw the address of the first.
  `MaxFail` = 1 breaks one chain of queries.  The run has one worker, to keep it
  within minutes; the theorems hold for any number, and two workers were
  checked once (10.6 million states).
- Computer: five requests are a start, a second start and a stop of one
  application around an installation and its removal.  `Memory` and `CPU` are
  such that a second start may fail, and a usage above `Memory` wraps modulo
  `Word`.  `MaxLogins` = 2 is a logout with packets under way.  Three `Tables` are
  what each of the two logins may find: all in the inventory, and one of each
  service in a port with the row of the web server in the inventory still there.
- Missions: three commands complete a child that asks for one and a child that
  asks for two; the second login may fall between any of them.  `MaxLeft` = 2
  events are left over at a logout: a command and the completion of a child, or
  two of one kind.  `OldCounts` = {1} is below what one child
  needs and completes the other.
- Sockets: with `Width` = 2 three connections fill a pool and open a second, a slot
  that was given back is used again, and the count can fall to 0 while a
  descriptor of the pool is still to be served.  `Word` only has to exceed `Width`.
  Two packets meet one pool twice, or two.  Failing calls are not bounded.
- Delivery: a head of two units can be cut in two; one thread queues two packets,
  so order matters in a list and between lists.

Deadlock checking is off in all runs: when all peers have come and gone, or the
bounds are used up, the servers wait for nothing, and this is not an error.

Fairness.  The operating system runs every thread that can run: weak fairness
of each thread's steps.  Peers, clients and users are not obliged to do
anything, and that includes reading: no `send()`, `recv()`, `accept()` or call of a
sink is fair, and `DisconnectReturns` and `ArrivalsAreServed` say so with a
disjunct for the call that never returns.  In Delivery the sends of a service
and the reads of the router make progress, since that is its question.  In
DBJobs a query ends, as a completion or a failure.  In World only the loop that
draws addresses is fair, and in its result: if a free address can be drawn it is
drawn in the end (`rand()` comes to every host); this is for the finding, and
`LoadIsCarriedOn` is an invariant.  Missions and Computer assume no fairness.  A
thread waiting for a mutex needs only weak fairness here because the number of
packets is bounded, so the mutex cannot be taken from under it for ever.
Polling threads (results, events) are the repetition of their steps.

## 5. Proofs

`RouterProofs` proves, for any connections, pools, service types, packets and
`MaxSend`, that `IInv` is an invariant of `Spec`:

- `MutexInv`: each mutex is owned exactly by the thread that is inside its
  critical section;
- `LifetimeInv`: the map and the heap agree; only closed connections are marked
  dead, disconnected or freed; a thread inside `OnDisconnect`'s critical section
  works on a socket that is in the map;
- `LocalsInv`: a pool thread inside `OnDataReceived` works on an open connection
  of its own, which is why the pointer it found without the mutex cannot dangle,
  whatever the lookup may miss: only that same thread can declare the connection
  closed;
- `NoStrandedData`, which is inductive together with the others.

`TypeOK` and the properties alone are not inductive: that a pool pointer is live
needs that only closed connections are freed, that needs that the dead mark is
only set on closed connections, and that no two threads free the same object
needs the mutex invariant.  `TypeCorrect`, `OpenPeerSafe`, `PoolPointersSafe`,
`DataNotStranded` and `DeadlockFree` follow.  `NoticesNotRepeated` adds `NoticeInv`,
which counts: nobody has a notice of a connection that is not being announced,
and of the one that is, a service has at most one per entry the iterator has
passed.  The list cannot change under the iterator, because its mutex is held,
except that `operator new` hands the memory of a deleted socket to a new one and
thereby entries to a connection that has received nothing yet.  The only
assumption is `RouterAssumption`: every connection has a pool, the monitor is not
a pool thread, the null value is none of the others, a packet's target is a
service type or a connection.

`DBJobsProofs` proves that the abstract queue has every job in one place
(`QueueOncePerJob`: `OncePerJob` is inductive with the types; the lemmas say what
`Append` and `Tail` do to membership and to the absence of duplicates) and that
`DBJobs` implements it, for any jobs and any number of workers (`Refinement`).  The
inductive invariant has `LocalsInv` (a worker has a job exactly between fetch and
end) and `MonitorInv` (the result thread asks only when there is a result, which
nobody else takes; what it took earlier was handled).  Without `MonitorInv` the
ignored result of `GetNextCompletedJob` could handle the previous job again, and
without `JobsRunOnce`, which is carried over from the abstract queue step by step,
the job it takes could have been handled before.  The assumption is that the null
value is no job.  `AuthProofs` and `WorldProofs` use the lemmas about the abstract
queue; they instantiate them with a layer that has handled nothing and has
dropped what is done, of which every abstract queue is the image.

`AuthProofs` proves, for any clients, accounts, characters, workers and bounds,
`MapsAreLive`.  `SocketInv` and `ResultInv` say how far the two threads have come
with an object: the one that is torn down is no longer found, the one that is
entered was not there before.  That an object is new when `AccountLogin` creates
it rests on the database layer, whose `OncePerJob` gives every result once.
It also proves `MapsAgree`, that `Auth` implements `Sessions`, and `OneSession`, all
with racing lookups; `ExactInv` says what the map of the accounts holds for the
object each thread works on, if no login has missed the account.  The exception
is needed: while the socket thread erases the account of a third client, a
lookup can miss the entry of the first one and let the second one in.  No other
lookup needs one: what `GetAccountByClientSocket` misses is an entry that stays.

`WorldProofs` proves `TypeOK`, `IndexesAgree` and `AddressesAreOwn` for any
clients, selections, characters, tables of countries and cities, workers and
bounds.
`IInv` adds that a login that enters has a character (`CharInv`), that every job
in the queues and the workers belongs to a login that has one (`JobInv`), and
that the player an address is being looked for exists (`DialInv`).  Without
`CharInv` a removal could clear the entry of the null character.
`AddressesAreOwn` needs nothing about the drawing: it is the test in
`AddToNetwork`, and that addresses of players past the loop never change, which
carry it.  `ToldWhenLoaded` and `AccountsStay` need the history of the load
queries.  `ChainInv` says that a query is in the database layer only after the one
before it was answered, and none before the player has his address; since
`OncePerJob` lets a query be there once, its answer is the answer for this
player.  `BankInv` says that the account is there from the answer of the bank
query on, and from a request of the player's own on, which may come first.
`LoadsAreCarriedOn` counts nothing: each handler queues the next query in the
step that takes the answer of the last.  The assumptions are `WorldAssumption`
and `NoneIsNoWorldJob`.

`ComputerProofs` proves `EnabledPortHasSoftware` and `NothingIsDuplicated` for any
items, costs and bounds, any finite set of ports, and any rows a login may find
in which an enabled port has software.  The invariant says that
both port tables, and every port table in a response under way, are sound; a
table that arrives late would otherwise enable an empty port.  For
`NothingIsDuplicated` the lemmas say by how much `installPort`, `uninstallPort`
and `enablePort` change the number of ports that hold an item.

`UsageCoversProcesses` is about a sum over items, a recursive function over
sets.  Its lemmas are proved without the induction theorems: among the subsets of
a finite set for which a claim fails there is one with the fewest elements
(`SubsetInduction`).  `UsageInv` gives a number of processes per item whose cost is
the usage; it is at least the number in the list, and for each application at
least one for an open window, for each answer that will open one and for each stop
under way (`Slack`), which is what stops may still take out.  The list alone would
not do: a stop takes out all entries of an item but the cost of one.
`ViewsAgreeWhenQuiet` follows from `ViewInv`, which says in which of the five stages
of a login the two ends are and, once the user plays, that the client's copy
becomes that of the service when the responses under way are applied to it in
order (`Replayed`).  Agreement without packets under way is not inductive, since
both ends move at different times.  The assumption `ComputerAssumption` includes
that there are finitely many items and ports.

`SocketsProofs` proves `TypeOK` and `DisconnectsOnce` for any connections, width of
a pool and word larger than the width.  A connection is `Placed` once the listener
has found a slot for it; `SlotInv` gives every placed connection one slot,
`ThreadInv` says that the pool of a connection still in the listener's hands has
no thread, and `ClosedInv` that a connection whose end was told is in no slot but
the one its thread is about to give back.  Failing calls only end threads, and
none tells a sink anything.  None of them speaks of the descriptor
sets or the counts, which is the argument: what is lost in those races can hide a
connection, but not put it back into a slot.  `PoolsAgree` is the opposite case: it
holds until two threads use a pool together, and says so, and its invariant is
about the counts.  `CountInv` relates slots, descriptor set and count, but for the
connection that is being added; `ReadyInv` says that a thread serves descriptors
it still has; `AloneInv` that the listener adds to no pool whose thread removes a
socket or has ended; `ListedInv` that the list has the pools with sockets, and
those whose `select()` failed, once each; `CrashInv` that without a race only such
a pool can bring the process down.  The assumption is `SocketAssumption`.

`DeliveryProofs` proves `TypeOK` and `DeliveredInOrder` for any threads, packets,
programs of the threads and lengths of heads and data.  The units between the
monitor and the worker, in the stream, on the wire and in the block being sent,
are the blocks of consecutive packets laid end to end (`Laid`), however they are
cut; the packets before them were handled and those behind them are in the list
(`OrderInv`).  `Extract` finds the end of the first block because its head is
complete and tells the length of the data.  `ListInv` says that one list is in
use, `MonitorInv` that the packet in the monitor's hands is still the front of the
stream, `TakenInv` what a thread has found before it goes on.  All but `TypeOK` and
`TakenInv` hold until a race has happened, after which the model stops.  The
assumption is `DeliveryAssumption`.

`MissionsProofs` proves `RewardedOnce`, `ParentCompletesLast` and `SavedWhenQuiet` for
any table of missions that is as `Tables` says, and any number of commands,
logins and workers.  What holds whatever interleaves is `LoginInv`: a mission has
one completion in the queue at most, the missions with one are complete, and a
reward is given when the completion leaves the queue; this is why a mission gives
its experience once in a login.  The events of an earlier login come before those
of this one and touch nothing of the new player.  What needs that none of the
four races has happened is the rest: `FamilyInv` (children come and are linked with their parent,
but for the family being assigned), `RowInv` (the row, the statements on their way
and the count of a mission agree: the last statement has the count, and the first
is an insertion exactly if there is no row), `RewardInv` (a rewarded mission is
done, for good) and `ChildInv` (the count of a parent is at most the number of its
children whose completion it has handled).  `ChildInv` is what makes the parent
last, and it survives a login because the rows hold the counts and no completion
is in the queue then; one that is, is the fourth race.

Every safety property the passing runs check is a theorem but one: `ParentFollows`
is an invariant of the run and not proved.  The rest of what is only
model-checked assumes fairness (liveness and ENABLED are out of the prover's
reach): `DisconnectReturns`, `BusyWorkerSuffices`, `ArrivalsAreServed` and
`QueuedIsDelivered`.

## 6. Findings

1. `router_disconnect_lost`.  The pool thread finds the socket locked; the
   monitor unlocks it and reads `m_bIsDead` as false; the pool thread sets
   `m_bIsDead`.  Nobody looks again, the ClientSocket stays in the map and no
   service hears of the disconnect.
2. `auth_logout`.  The client disconnects while its login query runs.  The notice
   finds no account, the login is entered afterwards, nobody logs it out, and the
   account cannot log in again.  A second login over one connection strands the
   first account in the same way.
3. `world_address`.  Country and city change places on the way from
   `CreatePlayer` to `GenerateIPAddress`.  For a city whose id is no country's
   (or the reverse) no address is generated, the failure is ignored, and the
   second such player keeps the socket thread in the loop for ever.

Other behaviours the models reach, which no document of the repository speaks
against: a registration handled while another thread is between
`UnregisterService` and `delete` leaves an entry for a deleted socket in the list
of services; the result thread may write the selected character to an Account
the socket thread has deleted; a logout statement may overtake the login
statement queued before it; a login that looks for an account while another one
is being erased may not find it, and a second client gets in; an item whose
installation fails is lost, and a login may bring an item back twice; a count
reached in the middle of an accept is not saved; a child whose completion is
still queued at the logout never completes its parent; a client that selects a
character who is in the world gets no answer; a pool whose `select()` fails stays in
the list and nobody reads its connections; a signal that falls between a test and
a wait leaves a packet or a job until the next one.

## 7. Not modelled

- Chat service: its rooms are loaded once and never change, a player is made at
  login and never removed; the rest are lookups that answer.
- The Windows socket server is the twin of the Linux one; the MySQL driver is
  I/O, and `DBJobs` takes its outcome as a choice.
- Forum, file systems, console, port scan and web hack: lookups and formatting;
  the one command that raises an event for a mission is in `Missions`.
- Requests that only read and answer; start-up of the services, where `Start`
  waits for a signal of the result thread that may come before the wait.
- Game clients apart from FCClient's copy of the computer: drawing and input
  (Irrlicht, Qt).  FCModel extracts from each chunk it receives and keeps no
  rest, so a packet that is cut on the way to a client is lost; `Delivery` is the
  other direction.
- The Linux `BaseSocket` never reports that its connection was closed, and
  `send()` returning -1 is added to an unsigned total: both concern a router that
  is gone, and no service recovers from that.
- Stopping: `StopSocketMonitor`, `FCDatabase::destroy` and
  `PacketDispatcher::destroy` have no caller, or only at the end of the process.
- Daemon, logging and configuration; tools and administration pages; vendored
  libraries (tinyXML, irrXML, pthreads-win32, the MySQL headers).
