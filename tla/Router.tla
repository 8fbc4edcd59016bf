------------------------------- MODULE Router -------------------------------
(***************************************************************************)
(* The packet router, FCServer/FCLogicRouter.cpp, and the ClientSocket     *)
(* objects it allocates (common/socket), at the granularity of its mutex   *)
(* operations and of its unprotected reads and writes.                     *)
(* Three kinds of thread run the code.  The listener calls OnConnect.  A   *)
(* pool thread of the socket server serves the connections assigned to it, *)
(* one call at a time: OnDataReceived, then at last OnDisconnect.  The     *)
(* socket monitor drains the streams of the connections that were queued,  *)
(* routes every packet, and finishes a disconnect that found the           *)
(* ClientSocket locked.                                                    *)
(*                                                                         *)
(* A connection is named by its descriptor.  The server never closes a     *)
(* descriptor, so the kernel never reuses one.  A pointer to a ClientSocket *)
(* is named by the descriptor of the object it points to; the heap does    *)
(* reuse memory, see Connect.                                              *)
(***************************************************************************)
EXTENDS Naturals, Sequences, FiniteSets

CONSTANTS
  Conns,       \* descriptors of the connections, of clients and of services
  Pools,       \* the pool threads of the socket server
  PoolOf,      \* the pool that serves each connection
  Monitor,     \* the thread of thrdSocketMonitor
  Nobody,      \* the null pointer, and the owner of a free mutex
  Types,       \* the ServiceType values
  RouterType,  \* ST_Router
  Packets,     \* the packets that connections may send
  MaxSend      \* bound: packets received from one connection

Threads == Pools \cup {Monitor}

\* The "target" of a packet is compared with service types and then used as
\* a descriptor: one number with two meanings.
Targets == Types \cup Conns

ASSUME RouterAssumption ==
  /\ PoolOf \in [Conns -> Pools]
  /\ Monitor \notin Pools
  /\ Nobody \notin Threads \cup Conns
  /\ RouterType \in Types
  /\ Packets \subseteq [kind : {"info", "register", "forward"}, target : Targets]
  /\ Nobody \notin Packets
  /\ MaxSend \in Nat

VARIABLES
  peer,         \* "absent", "open" or "closed": the remote end, per connection
  received,     \* number of packets received so far, per connection (bound)
  sockets,      \* m_mapSockets: the descriptors that have an entry
  heap,         \* the ClientSocket allocated for each connection
  services,     \* m_arrServices
  queue,        \* m_arrQueuedData
  mutexSockets, \* owner of m_mutexSockets
  mutexQueue,   \* owner of m_mutexQueuedData
  mutexServices,\* owner of m_mutexServices
  pc,           \* what each thread does next
  cur,          \* pSocket of the call each thread is in
  pkt,          \* the packet each thread carries
  dest,         \* pTargetNode of ForwardPacket
  next,         \* iterator of NotifyServicesOfClientDisconnect
  out,          \* history: what was sent on each connection
  uaf           \* history: a freed ClientSocket was used

net     == <<peer, received>>
objects == <<sockets, heap>>
mutexes == <<mutexSockets, mutexQueue, mutexServices>>
vars    == <<net, objects, services, queue, mutexes,
             pc, cur, pkt, dest, next, out, uaf>>

Message == [kind : {"info", "registered", "forward", "gone"}, about : Conns]
Service == [socket : Conns, type : Targets]

\* An object on the heap; m_bIsDead and m_bLocked are plain booleans.
ClientSocket == [mem    : {"none", "live", "freed"},
                 dead   : BOOLEAN,
                 locked : BOOLEAN,
                 stream : Seq(Packets)]

PoolPC       == {"idle", "found", "added", "lost"}
DisconnectPC == {"disconnect", "markDead", "unregister", "notify", "notifying", "erase"}
MonitorPC    == {"check", "wait", "sleep", "pop", "find", "lock", "extract", "delete",
                 "empty", "handle", "registered", "client", "send", "unlock", "isDead"}
PC           == PoolPC \cup DisconnectPC \cup MonitorPC

Init ==
  /\ peer = [c \in Conns |-> "absent"]
  /\ received = [c \in Conns |-> 0]
  /\ sockets = {}
  /\ heap = [c \in Conns |->
               [mem |-> "none", dead |-> FALSE, locked |-> FALSE, stream |-> <<>>]]
  /\ services = <<>>
  /\ queue = <<>>
  /\ mutexSockets = Nobody /\ mutexQueue = Nobody /\ mutexServices = Nobody
  /\ pc = [t \in Threads |-> IF t = Monitor THEN "check" ELSE "idle"]
  /\ cur = [t \in Threads |-> Nobody]
  /\ pkt = [t \in Threads |-> Nobody]
  /\ dest = Nobody
  /\ next = 1
  /\ out = [c \in Conns |-> <<>>]
  /\ uaf = FALSE

-----------------------------------------------------------------------------
Goto(t, label) == pc' = [pc EXCEPT ![t] = label]

Live(c) == heap[c].mem = "live"

\* A pointer to c is dereferenced.  A freed object shows an empty stream, as
\* its destructor left it, and either value of m_bIsDead; writes to it are lost.
Use(c) == uaf' = (uaf \/ ~Live(c))

\* ClientSocket::Send: nothing is delivered through a freed object.
Deliver(c, m) == IF Live(c) THEN [out EXCEPT ![c] = Append(@, m)] ELSE out

\* The thread returns from the call it is in.
Return(t) == /\ Goto(t, IF t = Monitor THEN "check" ELSE "idle")
             /\ cur' = [cur EXCEPT ![t] = Nobody]

First(S) == CHOOSE i \in S : \A j \in S : i <= j

EntriesOfType(type) == {i \in DOMAIN services : services[i].type = type}
EntriesOf(c)        == {i \in DOMAIN services : services[i].socket = c}

\* m_arrServices.erase(it)
EraseEntry(i) == [j \in 1 .. Len(services) - 1 |-> IF j < i THEN services[j] ELSE services[j + 1]]

\* Where the pSocket of a thread is a pointer, and not yet a descriptor to
\* look up: while the monitor drains a stream, and after it.
DrainPC   == {"lock", "extract", "delete", "empty", "handle", "registered", "client", "send"}
PointerPC == DrainPC \cup {"unlock", "isDead", "found", "added"}

\* Every pointer to d points to c.
Repoint(d, c) ==
  LET New(x) == IF x = d THEN c ELSE x
  IN /\ services' = [i \in DOMAIN services |-> [services[i] EXCEPT !.socket = New(@)]]
     /\ cur' = [t \in Threads |-> IF pc[t] \in PointerPC THEN New(cur[t]) ELSE cur[t]]
     /\ dest' = New(dest)

-----------------------------------------------------------------------------
\* The listener: OnConnect.  operator new may return the memory of a freed
\* ClientSocket; pointers that still point there point to the new one then.
Connect(c) ==
  /\ peer[c] = "absent"
  /\ mutexSockets = Nobody
  /\ peer' = [peer EXCEPT ![c] = "open"]
  /\ heap' = [heap EXCEPT ![c].mem = "live"]
  /\ sockets' = sockets \cup {c}
  /\ \E d \in Conns :
       /\ d = c \/ heap[d].mem = "freed"
       /\ Repoint(d, c)
  /\ UNCHANGED <<received, queue, mutexes, pc, pkt, next, out, uaf>>

\* A write to m_mapSockets may be under way: OnDisconnect erases, or the
\* listener, which writes when it has the mutex, inserts.
MapInUse == \/ \E t \in Threads : pc[t] = "erase"
            \/ mutexSockets = Nobody /\ \E c \in Conns : peer[c] = "absent"

\* A pool thread enters OnDataReceived and looks c up without taking
\* m_mutexSockets.  In a tree that is being changed the lookup may miss the
\* entry, and then the data is dropped, or never come back: it walks in a
\* circle, or into memory that was freed.
Receive(p, c, k) ==
  /\ pc[p] = "idle"
  /\ PoolOf[c] = p
  /\ peer[c] = "open"
  /\ received[c] < MaxSend
  /\ received' = [received EXCEPT ![c] = @ + 1]
  /\ \/ /\ c \in sockets
        /\ Goto(p, "found")
        /\ cur' = [cur EXCEPT ![p] = c]
        /\ pkt' = [pkt EXCEPT ![p] = k]
     \/ /\ c \notin sockets \/ MapInUse
        /\ UNCHANGED <<pc, cur, pkt>>
     \/ /\ MapInUse
        /\ Goto(p, "lost")
        /\ UNCHANGED <<cur, pkt>>
  /\ UNCHANGED <<peer, objects, services, queue, mutexes, dest, next, out, uaf>>

\* pSocket->AddData
AddData(p) ==
  /\ pc[p] = "found"
  /\ Use(cur[p])
  /\ heap' = IF Live(cur[p])
             THEN [heap EXCEPT ![cur[p]].stream = Append(@, pkt[p])] ELSE heap
  /\ Goto(p, "added")
  /\ UNCHANGED <<net, sockets, services, queue, mutexes, cur, pkt, dest, next, out>>

\* Mutant of QueueSocket: a socket that the monitor has locked is not queued.
QueueSocketIfUnlocked(p) ==
  /\ pc[p] = "added"
  /\ mutexQueue = Nobody
  /\ Use(cur[p])
  /\ queue' = IF heap[cur[p]].locked THEN queue ELSE Append(queue, cur[p])
  /\ pc' = [pc EXCEPT ![p] = "idle",
                      ![Monitor] = IF @ = "sleep" THEN "check" ELSE @]
  /\ cur' = [cur EXCEPT ![p] = Nobody]
  /\ pkt' = [pkt EXCEPT ![p] = Nobody]
  /\ UNCHANGED <<net, objects, services, mutexes, dest, next, out>>

\* The critical section of m_mutexQueuedData in OnDataReceived.  The signal
\* is lost unless the monitor is already in pthread_cond_wait.
QueueSocket(p) ==
  /\ pc[p] = "added"
  /\ mutexQueue = Nobody
  /\ Use(cur[p])
  /\ queue' = Append(queue, cur[p])
  /\ pc' = [pc EXCEPT ![p] = "idle",
                      ![Monitor] = IF @ = "sleep" THEN "check" ELSE @]
  /\ cur' = [cur EXCEPT ![p] = Nobody]
  /\ pkt' = [pkt EXCEPT ![p] = Nobody]
  /\ UNCHANGED <<net, objects, services, mutexes, dest, next, out>>

\* recv() returned nothing: the pool thread enters OnDisconnect.
Close(p, c) ==
  /\ pc[p] = "idle"
  /\ PoolOf[c] = p
  /\ peer[c] = "open"
  /\ peer' = [peer EXCEPT ![c] = "closed"]
  /\ Goto(p, "disconnect")
  /\ cur' = [cur EXCEPT ![p] = c]
  /\ UNCHANGED <<received, objects, services, queue, mutexes, pkt, dest, next, out, uaf>>

-----------------------------------------------------------------------------
\* OnDisconnect, run by a pool thread or by the monitor: take m_mutexSockets,
\* find the entry and look at m_bLocked.
Disconnect(t) ==
  /\ pc[t] = "disconnect"
  /\ mutexSockets = Nobody
  /\ IF cur[t] \in sockets
     THEN /\ mutexSockets' = t
          /\ Goto(t, IF heap[cur[t]].locked THEN "markDead" ELSE "unregister")
          /\ UNCHANGED cur
     ELSE Return(t) /\ UNCHANGED mutexSockets
  /\ UNCHANGED <<net, objects, services, queue, mutexQueue, mutexServices,
                 pkt, dest, next, out, uaf>>

\* Mutant of MarkDead: m_mutexSockets is not released.
MarkDeadNoUnlock(t) ==
  /\ pc[t] = "markDead"
  /\ heap' = [heap EXCEPT ![cur[t]].dead = TRUE]
  /\ Return(t)
  /\ UNCHANGED <<net, sockets, services, queue, mutexes, pkt, dest, next, out, uaf>>

\* The else branch: the teardown is left to the monitor.
MarkDead(t) ==
  /\ pc[t] = "markDead"
  /\ heap' = [heap EXCEPT ![cur[t]].dead = TRUE]
  /\ mutexSockets' = Nobody
  /\ Return(t)
  /\ UNCHANGED <<net, sockets, services, queue, mutexQueue, mutexServices,
                 pkt, dest, next, out, uaf>>

\* UnregisterService removes the first entry of the socket, if there is one.
Unregister(t) ==
  /\ pc[t] = "unregister"
  /\ mutexServices = Nobody
  /\ IF EntriesOf(cur[t]) = {}
     THEN Goto(t, "notify") /\ UNCHANGED services
     ELSE /\ services' = EraseEntry(First(EntriesOf(cur[t])))
          /\ Goto(t, "erase")
  /\ UNCHANGED <<net, objects, queue, mutexes, cur, pkt, dest, next, out, uaf>>

\* NotifyServicesOfClientDisconnect takes m_mutexServices ...
Notify(t) ==
  /\ pc[t] = "notify"
  /\ mutexServices = Nobody
  /\ mutexServices' = t
  /\ next' = 1
  /\ Goto(t, "notifying")
  /\ UNCHANGED <<net, objects, services, queue, mutexSockets, mutexQueue,
                 cur, pkt, dest, out, uaf>>

\* ... sends to one entry after the other ...
NotifyNext(t) ==
  /\ pc[t] = "notifying"
  /\ next \in DOMAIN services
  /\ Use(services[next].socket)
  /\ out' = Deliver(services[next].socket, [kind |-> "gone", about |-> cur[t]])
  /\ next' = next + 1
  /\ UNCHANGED <<net, objects, services, queue, mutexes, pc, cur, pkt, dest>>

\* Mutant of NotifyDone: m_mutexServices is not released.
NotifyDoneNoUnlock(t) ==
  /\ pc[t] = "notifying"
  /\ next \notin DOMAIN services
  /\ Goto(t, "erase")
  /\ UNCHANGED <<net, objects, services, queue, mutexes, cur, pkt, dest, next, out, uaf>>

\* ... and releases the mutex.
NotifyDone(t) ==
  /\ pc[t] = "notifying"
  /\ next \notin DOMAIN services
  /\ mutexServices' = Nobody
  /\ Goto(t, "erase")
  /\ UNCHANGED <<net, objects, services, queue, mutexSockets, mutexQueue,
                 cur, pkt, dest, next, out, uaf>>

\* Mutant of Erase: the entry of m_mapSockets stays.
EraseKeepsEntry(t) ==
  /\ pc[t] = "erase"
  /\ heap' = [heap EXCEPT ![cur[t]].mem = "freed", ![cur[t]].stream = <<>>]
  /\ mutexSockets' = Nobody
  /\ Return(t)
  /\ UNCHANGED <<net, sockets, services, queue, mutexQueue, mutexServices,
                 pkt, dest, next, out, uaf>>

\* m_mapSockets.erase(it), delete pSocket, and the end of OnDisconnect.
Erase(t) ==
  /\ pc[t] = "erase"
  /\ sockets' = sockets \ {cur[t]}
  /\ heap' = [heap EXCEPT ![cur[t]].mem = "freed", ![cur[t]].stream = <<>>]
  /\ mutexSockets' = Nobody
  /\ Return(t)
  /\ UNCHANGED <<net, services, queue, mutexQueue, mutexServices, pkt, dest, next, out, uaf>>

-----------------------------------------------------------------------------
\* thrdSocketMonitor.  m_arrQueuedData.empty() is read without a mutex.
Check ==
  /\ pc[Monitor] = "check"
  /\ Goto(Monitor, IF queue = <<>> THEN "wait" ELSE "pop")
  /\ UNCHANGED <<net, objects, services, queue, mutexes, cur, pkt, dest, next, out, uaf>>

\* PThreadCond::WaitForSignal
Wait ==
  /\ pc[Monitor] = "wait"
  /\ Goto(Monitor, "sleep")
  /\ UNCHANGED <<net, objects, services, queue, mutexes, cur, pkt, dest, next, out, uaf>>

\* pthread_cond_wait may return without a signal.
SpuriousWakeup ==
  /\ pc[Monitor] = "sleep"
  /\ Goto(Monitor, "check")
  /\ UNCHANGED <<net, objects, services, queue, mutexes, cur, pkt, dest, next, out, uaf>>

LockQueue ==
  /\ pc[Monitor] = "pop"
  /\ mutexQueue = Nobody
  /\ mutexQueue' = Monitor
  /\ Goto(Monitor, "find")
  /\ UNCHANGED <<net, objects, services, queue, mutexSockets, mutexServices,
                 cur, pkt, dest, next, out, uaf>>

\* The lookup under both mutexes, then the pop and the release of both.
PopQueue ==
  /\ pc[Monitor] = "find"
  /\ mutexSockets = Nobody
  /\ queue' = Tail(queue)
  /\ mutexQueue' = Nobody
  /\ IF Head(queue) \in sockets
     THEN Goto(Monitor, "lock") /\ cur' = [cur EXCEPT ![Monitor] = Head(queue)]
     ELSE Goto(Monitor, "check") /\ UNCHANGED cur
  /\ UNCHANGED <<net, objects, services, mutexSockets, mutexServices,
                 pkt, dest, next, out, uaf>>

SetLocked(b) ==
  /\ Use(cur[Monitor])
  /\ heap' = IF Live(cur[Monitor]) THEN [heap EXCEPT ![cur[Monitor]].locked = b] ELSE heap

\* pSocket->Lock(), which takes no mutex.
LockSocket ==
  /\ pc[Monitor] = "lock"
  /\ SetLocked(TRUE)
  /\ Goto(Monitor, "extract")
  /\ UNCHANGED <<net, sockets, services, queue, mutexes, cur, pkt, dest, next, out>>

\* extractor.Extract: the next packet of the stream, if there is one.
Extract ==
  /\ pc[Monitor] = "extract"
  /\ Use(cur[Monitor])
  /\ IF heap[cur[Monitor]].stream = <<>>
     THEN Goto(Monitor, "unlock") /\ UNCHANGED pkt
     ELSE /\ Goto(Monitor, "delete")
          /\ pkt' = [pkt EXCEPT ![Monitor] = Head(heap[cur[Monitor]].stream)]
  /\ UNCHANGED <<net, objects, services, queue, mutexes, cur, dest, next, out>>

\* stream.Delete(0, offset): whether the packet is all of the stream is
\* decided before the stream's mutex is taken.
DeletePacket ==
  /\ pc[Monitor] = "delete"
  /\ Use(cur[Monitor])
  /\ LET s == heap[cur[Monitor]].stream
     IN IF Len(s) = 1
        THEN Goto(Monitor, "empty") /\ UNCHANGED heap
        ELSE /\ Goto(Monitor, "handle")
             /\ heap' = [heap EXCEPT ![cur[Monitor]].stream = IF s = <<>> THEN s ELSE Tail(s)]
  /\ UNCHANGED <<net, sockets, services, queue, mutexes, cur, pkt, dest, next, out>>

\* CBinStream::Empty discards what was added since.
EmptyStream ==
  /\ pc[Monitor] = "empty"
  /\ Use(cur[Monitor])
  /\ heap' = [heap EXCEPT ![cur[Monitor]].stream = <<>>]
  /\ Goto(Monitor, "handle")
  /\ UNCHANGED <<net, sockets, services, queue, mutexes, cur, pkt, dest, next, out>>

-----------------------------------------------------------------------------
\* HandlePacket on the monitor's packet.
Handles(kind) == pc[Monitor] = "handle" /\ pkt[Monitor].kind = kind

NextPacket == Goto(Monitor, "extract") /\ pkt' = [pkt EXCEPT ![Monitor] = Nobody]

Reply(kind) ==
  /\ Use(cur[Monitor])
  /\ out' = Deliver(cur[Monitor], [kind |-> kind, about |-> cur[Monitor]])
  /\ NextPacket

\* FCMSG_INFO_SERVER is answered by the router itself.
InfoServer ==
  /\ Handles("info")
  /\ Reply("info")
  /\ UNCHANGED <<net, objects, services, queue, mutexes, cur, dest, next>>

\* RegisterService: the entry is appended whatever the list holds already.
RegisterService ==
  /\ Handles("register")
  /\ mutexServices = Nobody
  /\ services' = Append(services, [socket |-> cur[Monitor], type |-> pkt[Monitor].target])
  /\ Goto(Monitor, "registered")
  /\ UNCHANGED <<net, objects, queue, mutexes, cur, pkt, dest, next, out, uaf>>

\* SendServiceRegistrationResponse, after m_mutexServices was released.
SendRegistered ==
  /\ pc[Monitor] = "registered"
  /\ Reply("registered")
  /\ UNCHANGED <<net, objects, services, queue, mutexes, cur, dest, next>>

\* ForwardPacket ignores a packet for the router itself.
IgnorePacket ==
  /\ Handles("forward")
  /\ pkt[Monitor].target = RouterType
  /\ NextPacket
  /\ UNCHANGED <<net, objects, services, queue, mutexes, cur, dest, next, out, uaf>>

\* GetServiceConnectionByType; a packet for a service is labelled with the
\* descriptor in *pSocket.
FindService ==
  /\ Handles("forward")
  /\ pkt[Monitor].target # RouterType
  /\ mutexServices = Nobody
  /\ LET S == EntriesOfType(pkt[Monitor].target)
     IN IF S = {}
        THEN Goto(Monitor, "client") /\ UNCHANGED <<dest, uaf>>
        ELSE Goto(Monitor, "send") /\ dest' = services[First(S)].socket /\ Use(cur[Monitor])
  /\ UNCHANGED <<net, objects, services, queue, mutexes, cur, pkt, next, out>>

\* Mutant of FindClient: the result of the lookup is not tested.
FindClientUntested ==
  /\ pc[Monitor] = "client"
  /\ mutexSockets = Nobody
  /\ Goto(Monitor, "send")
  /\ dest' = pkt[Monitor].target
  /\ UNCHANGED <<net, objects, services, queue, mutexes, cur, pkt, next, out, uaf>>

\* GetClientConnection; a target that is no connection either is dropped.
FindClient ==
  /\ pc[Monitor] = "client"
  /\ mutexSockets = Nobody
  /\ IF pkt[Monitor].target \in sockets
     THEN Goto(Monitor, "send") /\ dest' = pkt[Monitor].target /\ UNCHANGED pkt
     ELSE NextPacket /\ UNCHANGED dest
  /\ UNCHANGED <<net, objects, services, queue, mutexes, cur, next, out, uaf>>

\* pTargetNode->Send, with neither mutex held and the target not locked.
SendPacket ==
  /\ pc[Monitor] = "send"
  /\ Use(dest)
  /\ out' = Deliver(dest, [kind |-> "forward", about |-> cur[Monitor]])
  /\ dest' = Nobody
  /\ NextPacket
  /\ UNCHANGED <<net, objects, services, queue, mutexes, cur, next>>

\* pSocket->Unlock()
UnlockSocket ==
  /\ pc[Monitor] = "unlock"
  /\ SetLocked(FALSE)
  /\ Goto(Monitor, "isDead")
  /\ UNCHANGED <<net, sockets, services, queue, mutexes, cur, pkt, dest, next, out>>

\* Mutant of TestDead: the socket is torn down whether it is dead or not.
TestDeadAlways ==
  /\ pc[Monitor] = "isDead"
  /\ Use(cur[Monitor])
  /\ Goto(Monitor, "disconnect")
  /\ UNCHANGED <<net, objects, services, queue, mutexes, cur, pkt, dest, next, out>>

\* if ( pSocket->IsDead() ) OnDisconnect(*pSocket): a freed object may read
\* either way.
TestDead ==
  /\ pc[Monitor] = "isDead"
  /\ Use(cur[Monitor])
  /\ \E dead \in IF Live(cur[Monitor]) THEN {heap[cur[Monitor]].dead} ELSE BOOLEAN :
       IF dead THEN Goto(Monitor, "disconnect") /\ UNCHANGED cur ELSE Return(Monitor)
  /\ UNCHANGED <<net, objects, services, queue, mutexes, pkt, dest, next, out>>

-----------------------------------------------------------------------------
OnDisconnect(t) ==
  \/ Disconnect(t) \/ MarkDead(t) \/ Unregister(t)
  \/ Notify(t) \/ NotifyNext(t) \/ NotifyDone(t) \/ Erase(t)

HandlePacket ==
  \/ InfoServer \/ RegisterService \/ SendRegistered \/ IgnorePacket
  \/ FindService \/ FindClient \/ SendPacket

MonitorStep ==
  \/ Check \/ Wait \/ LockQueue \/ PopQueue
  \/ LockSocket \/ Extract \/ DeletePacket \/ EmptyStream
  \/ HandlePacket
  \/ UnlockSocket \/ TestDead \/ OnDisconnect(Monitor)

\* What a pool thread does once it is inside a call.
PoolStep(p) == AddData(p) \/ QueueSocket(p) \/ OnDisconnect(p)

Next ==
  \/ \E c \in Conns : Connect(c)
  \/ \E p \in Pools, c \in Conns, k \in Packets : Receive(p, c, k)
  \/ \E p \in Pools, c \in Conns : Close(p, c)
  \/ \E p \in Pools : PoolStep(p)
  \/ MonitorStep
  \/ SpuriousWakeup

Spec == Init /\ [][Next]_vars

\* The thread is inside ClientSocket::Send, a loop around a blocking send().
Sending(t) ==
  \/ pc[t] = "notifying" /\ next \in DOMAIN services
  \/ t = Monitor /\ (Handles("info") \/ pc[t] \in {"registered", "send"})

\* The operating system schedules every thread that can run.  Nothing
\* obliges a peer to connect, to send, to close, or to read: a send() need
\* not return.
Fairness ==
  /\ WF_vars(~Sending(Monitor) /\ MonitorStep)
  /\ \A p \in Pools : WF_vars(~Sending(p) /\ PoolStep(p))
FairSpec == Spec /\ Fairness

-----------------------------------------------------------------------------
(* Properties *)

\* The type of every variable.
TypeOK ==
  /\ peer \in [Conns -> {"absent", "open", "closed"}]
  /\ received \in [Conns -> 0 .. MaxSend]
  /\ sockets \subseteq Conns
  /\ heap \in [Conns -> ClientSocket]
  /\ services \in Seq(Service)
  /\ queue \in Seq(Conns)
  /\ mutexSockets \in Threads \cup {Nobody}
  /\ mutexQueue \in Threads \cup {Nobody}
  /\ mutexServices \in Threads \cup {Nobody}
  /\ pc \in [Threads -> PC]
  /\ cur \in [Threads -> Conns \cup {Nobody}]
  /\ pkt \in [Threads -> Packets \cup {Nobody}]
  /\ dest \in Conns \cup {Nobody}
  /\ next \in Nat \ {0}
  /\ out \in [Conns -> Seq(Message)]
  /\ uaf \in BOOLEAN

\* Between two OnDisconnect steps the map and the heap agree, and a
\* connection whose peer is still there is never torn down, neither by its
\* own pool thread nor by the monitor acting on what it read from a freed
\* object.
OpenPeerKeepsItsSocket ==
  \A c \in Conns : /\ Live(c) <=> c \in sockets
                   /\ peer[c] = "open" => c \in sockets

\* OnDataReceived finds its ClientSocket without m_mutexSockets and keeps
\* the pointer through AddData and the push: it never dangles there.
PoolPointersAreLive ==
  \A p \in Pools : pc[p] \in {"found", "added"} => Live(cur[p])

Queued(c) == \E i \in DOMAIN queue : queue[i] = c

\* Received data is never forgotten in a stream: somebody who will look at
\* it again holds the connection or the queue does, although data is added
\* to the stream and the stream is drained without a common mutex.
NoStrandedData ==
  \A c \in Conns :
    Live(c) /\ heap[c].stream # <<>> =>
      \/ Queued(c)
      \/ \E p \in Pools : cur[p] = c /\ pc[p] = "added"
      \/ cur[Monitor] = c /\ pc[Monitor] \in DrainPC

\* The owner of the mutex that thread t waits for, if it must wait.
Blocker(t) ==
  IF t = Nobody THEN Nobody
  ELSE CASE pc[t] \in {"added", "pop"} -> mutexQueue
         [] pc[t] \in {"disconnect", "find", "client"} -> mutexSockets
         [] pc[t] \in {"unregister", "notify"} -> mutexServices
         [] pc[t] = "handle" /\ pkt[t].kind # "info" -> mutexServices
         [] OTHER -> Nobody

\* Nobody waits for a mutex in a circle, a thread for itself included: the
\* nesting m_mutexQueuedData, m_mutexSockets, m_mutexServices is never
\* inverted, and every early return has released what it took.
NoCircularWait ==
  \A t \in Threads : Blocker(Blocker(Blocker(t))) = Nobody

Gone(c) == [kind |-> "gone", about |-> c]

Notices(s, c) == Cardinality({i \in DOMAIN out[s] : out[s][i] = Gone(c)})

\* A service hears at most once per entry it has in the list that a
\* connection is gone, although a pool thread and the monitor may both be
\* sent into OnDisconnect for it.
NoticeIsNotRepeated ==
  [][\A s, c \in Conns :
       Notices(s, c)' > Notices(s, c) => Notices(s, c) < Cardinality(EntriesOf(s))]_vars

\* OnDisconnect takes two mutexes that other threads hold while they send.
\* It returns to the pool thread, and with it the service of all connections
\* of that pool, unless some send() never returns: nothing else, neither the
\* mutexes nor what is done under them, can keep it.
DisconnectReturns ==
  \/ \E t \in Threads : <>[]Sending(t)
  \/ \A p \in Pools : pc[p] = "disconnect" ~> pc[p] = "idle"

\* No thread works on c and c is not queued for the monitor.
Settled(c) == ~Queued(c) /\ \A t \in Threads : cur[t] # c

\* "Packet sent from Router service to all connected services indicating
\* that a connect client has disconnected": once OnDisconnect has run and no
\* thread is busy with the connection, it has been torn down, which is when
\* the services are told.
DisconnectIsHandled ==
  \A c \in Conns : peer[c] = "closed" /\ Settled(c) => c \notin sockets
=============================================================================
