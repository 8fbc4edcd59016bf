---------------------------- MODULE RouterProofs ----------------------------
(***************************************************************************)
(* For any connections, pools, service types and packets: received data is *)
(* never forgotten, no pool thread's pointer dangles, the peers that are   *)
(* there keep their sockets, the mutexes cannot deadlock, and a service is *)
(* told of a disconnect once per entry it has.                             *)
(***************************************************************************)
EXTENDS Router, FiniteSetTheorems, SequenceTheorems, WellFoundedInduction, TLAPS

HoldsSockets == {"markDead", "unregister", "notify", "notifying", "erase"}

\* Each mutex is owned exactly by the thread that is inside its critical
\* section, and every thread is at a step of its own code.
MutexInv ==
  /\ \A p \in Pools : pc[p] \in PoolPC \cup DisconnectPC
  /\ pc[Monitor] \in MonitorPC \cup DisconnectPC
  /\ \A t \in Threads : (mutexSockets = t) <=> (pc[t] \in HoldsSockets)
  /\ \A t \in Threads : (mutexServices = t) <=> (pc[t] = "notifying")
  /\ \A t \in Threads : (mutexQueue = t) <=> (t = Monitor /\ pc[t] = "find")

\* A ClientSocket exists from OnConnect to the teardown, which only a closed
\* connection gets; whoever tears it down found it in the map.
LifetimeInv ==
  /\ \A c \in Conns : /\ Live(c) <=> c \in sockets
                      /\ heap[c].mem = "none" <=> peer[c] = "absent"
                      /\ peer[c] = "open" => Live(c)
                      /\ heap[c].dead => peer[c] = "closed"
                      /\ heap[c].mem = "none" => heap[c].stream = <<>>
  /\ \A t \in Threads : pc[t] \in DisconnectPC =>
                          cur[t] \in Conns /\ peer[cur[t]] = "closed"
  /\ \A t \in Threads : pc[t] \in HoldsSockets => cur[t] \in sockets

\* The locals of each thread at the steps that use them.
LocalsInv ==
  /\ \A p \in Pools : pc[p] \in {"found", "added"} =>
                        cur[p] \in Conns /\ PoolOf[cur[p]] = p /\ peer[cur[p]] = "open"
  /\ \A p \in Pools : pc[p] = "found" => pkt[p] \in Packets
  /\ pc[Monitor] \in DrainPC \cup {"unlock", "isDead"} =>
       cur[Monitor] \in Conns /\ peer[cur[Monitor]] # "absent"
  /\ pc[Monitor] \in {"delete", "empty", "handle", "registered", "client", "send"} =>
       pkt[Monitor] \in Packets
  /\ pc[Monitor] = "send" => dest \in Conns
  /\ pc[Monitor] \in {"pop", "find"} => queue # <<>>

IInv == TypeOK /\ MutexInv /\ LifetimeInv /\ LocalsInv /\ NoStrandedData

\* The monitor and the pool threads are the threads.
LEMMA MonitorIsThread == Monitor \in Threads /\ Pools \subseteq Threads
  BY DEF Threads

\* Every label an action goes to is one.
LEMMA Labels ==
  {"idle", "found", "added", "lost", "disconnect", "markDead", "unregister", "notify",
   "notifying",
   "erase", "check", "wait", "sleep", "pop", "find", "lock", "extract", "delete", "empty",
   "handle", "registered", "client", "send", "unlock", "isDead"} \subseteq PC
  BY DEF PC, PoolPC, DisconnectPC, MonitorPC

\* A write to one member of one ClientSocket keeps the heap's type.
LEMMA HeapWrite ==
  ASSUME heap \in [Conns -> ClientSocket], NEW c \in Conns
  PROVE  /\ \A m \in {"none", "live", "freed"} : [heap EXCEPT ![c].mem = m] \in [Conns -> ClientSocket]
         /\ \A b \in BOOLEAN : /\ [heap EXCEPT ![c].dead = b] \in [Conns -> ClientSocket]
                               /\ [heap EXCEPT ![c].locked = b] \in [Conns -> ClientSocket]
         /\ \A s \in Seq(Packets) : [heap EXCEPT ![c].stream = s] \in [Conns -> ClientSocket]
<1>1. heap[c] \in ClientSocket
  OBVIOUS
<1>2. ASSUME NEW m \in {"none", "live", "freed"}
      PROVE  [heap[c] EXCEPT !.mem = m] \in ClientSocket
  BY <1>1 DEF ClientSocket
<1>3. ASSUME NEW b \in BOOLEAN
      PROVE  [heap[c] EXCEPT !.dead = b] \in ClientSocket /\ [heap[c] EXCEPT !.locked = b] \in ClientSocket
  BY <1>1 DEF ClientSocket
<1>4. ASSUME NEW s \in Seq(Packets)
      PROVE  [heap[c] EXCEPT !.stream = s] \in ClientSocket
  BY <1>1 DEF ClientSocket
<1> QED
  BY <1>2, <1>3, <1>4

\* Sending keeps the type of the history.
LEMMA DeliverType ==
  ASSUME out \in [Conns -> Seq(Message)], NEW c \in Conns, NEW m \in Message
  PROVE  Deliver(c, m) \in [Conns -> Seq(Message)]
<1>1. Append(out[c], m) \in Seq(Message)
  OBVIOUS
<1> QED
  BY <1>1 DEF Deliver

\* A nonempty set of indices has a first one.
LEMMA FirstIsMember ==
  ASSUME NEW S \in SUBSET Nat, S # {}
  PROVE  First(S) \in S /\ \A j \in S : First(S) <= j
<1>1. \E i \in S : \A j \in S : ~(<<j, i>> \in OpToRel(<, Nat))
  BY NatLessThanWellFounded, WFMin
<1>2. \E i \in S : \A j \in S : i <= j
  <2>1. PICK i \in S : \A j \in S : ~(<<j, i>> \in OpToRel(<, Nat))
    BY <1>1
  <2>2. ASSUME NEW j \in S
        PROVE  i <= j
    <3>1. ~(j < i)
      BY <2>1 DEF OpToRel
    <3> QED
      BY <3>1
  <2> QED
    BY <2>2
<1> QED
  BY <1>2 DEF First

\* Erasing an entry leaves a list of entries.
LEMMA EraseEntryType ==
  ASSUME services \in Seq(Service), NEW i \in DOMAIN services
  PROVE  EraseEntry(i) \in Seq(Service)
<1>1. Len(services) - 1 \in Nat /\ DOMAIN services = 1 .. Len(services)
  OBVIOUS
<1>2. \A j \in 1 .. Len(services) - 1 :
        (IF j < i THEN services[j] ELSE services[j + 1]) \in Service
  BY <1>1
<1>3. EraseEntry(i) \in [1 .. Len(services) - 1 -> Service]
  BY <1>2 DEF EraseEntry
<1> QED
  BY <1>1, <1>3, IsASeq

\* No data is stranded by a step that leaves the queue alone, adds to no
\* stream, and keeps the threads that hold undrained data where they do.
LEMMA NothingStranded ==
  ASSUME NoStrandedData,
         queue' = queue,
         \A c \in Conns : (Live(c) /\ heap[c].stream # <<>>)'
                            => Live(c) /\ heap[c].stream # <<>>,
         \A p \in Pools : pc[p] = "added" => pc'[p] = "added" /\ cur'[p] = cur[p],
         pc[Monitor] \in DrainPC => pc'[Monitor] \in DrainPC /\ cur'[Monitor] = cur[Monitor]
  PROVE  NoStrandedData'
<1>1. \A c : Queued(c) => Queued(c)'
  BY DEF Queued
<1> QED
  BY <1>1 DEF NoStrandedData, DrainPC

\* What Erase leaves of the object.
LEMMA HeapFree ==
  ASSUME heap \in [Conns -> ClientSocket], NEW c \in Conns
  PROVE  [heap EXCEPT ![c].mem = "freed", ![c].stream = <<>>] \in [Conns -> ClientSocket]
<1>1. [heap[c] EXCEPT !.mem = "freed", !.stream = <<>>] \in ClientSocket
  <2>1. heap[c] \in ClientSocket
    OBVIOUS
  <2> QED
    <3>1. <<>> \in Seq(Packets)
      OBVIOUS
    <3> QED
      BY <2>1, <3>1 DEF ClientSocket
<1> QED
  BY <1>1

\* The entries picked by UnregisterService and GetServiceConnectionByType
\* are entries of the list.
LEMMA FirstEntry ==
  ASSUME services \in Seq(Service), NEW c, EntriesOf(c) # {}
  PROVE  First(EntriesOf(c)) \in DOMAIN services
<1>1. EntriesOf(c) \in SUBSET Nat
  BY DEF EntriesOf
<1> QED
  BY <1>1, FirstIsMember DEF EntriesOf

\* The same, of the lookup by type.
LEMMA FirstOfType ==
  ASSUME services \in Seq(Service), NEW type, EntriesOfType(type) # {}
  PROVE  First(EntriesOfType(type)) \in DOMAIN services
<1>1. EntriesOfType(type) \in SUBSET Nat
  BY DEF EntriesOfType
<1> QED
  BY <1>1, FirstIsMember DEF EntriesOfType

\* While the monitor drains a connection its pSocket points to a
\* ClientSocket, live or freed.
LEMMA MonitorSocket ==
  ASSUME IInv, pc[Monitor] \in DrainPC \cup {"unlock", "isDead"}
  PROVE  /\ cur[Monitor] \in Conns
         /\ heap[cur[Monitor]] \in ClientSocket
         /\ heap[cur[Monitor]].stream \in Seq(Packets)
         /\ heap[cur[Monitor]].mem # "none"
<1>1. cur[Monitor] \in Conns /\ peer[cur[Monitor]] # "absent"
  BY DEF IInv, LocalsInv
<1>2. heap[cur[Monitor]] \in ClientSocket
  BY <1>1 DEF IInv, TypeOK
<1> QED
  BY <1>1, <1>2 DEF ClientSocket, IInv, LifetimeInv

\* OnDisconnect is about a connection that is closed; inside its critical
\* section that connection is in the map.
LEMMA DisconnectSocket ==
  ASSUME IInv, NEW t \in Threads, pc[t] \in DisconnectPC
  PROVE  /\ cur[t] \in Conns
         /\ peer[cur[t]] = "closed"
         /\ pc[t] \in HoldsSockets => cur[t] \in sockets
BY DEF IInv, LifetimeInv

\* OnConnect allocates the ClientSocket of a connection that never had one.
\* If it gets the memory of a freed one, only pointers that were dangling
\* change, and none of these is a pool thread's.
LEMMA ConnectStep ==
  ASSUME IInv, NEW c \in Conns, Connect(c)
  PROVE  IInv'
<1> USE DEF IInv
<1>1. PICK d \in Conns : (d = c \/ heap[d].mem = "freed") /\ Repoint(d, c)
  BY DEF Connect
<1>2. /\ peer[c] = "absent" /\ heap[c].mem = "none" /\ heap[c].stream = <<>>
      /\ mutexSockets = Nobody
      /\ peer' = [peer EXCEPT ![c] = "open"]
      /\ heap' = [heap EXCEPT ![c].mem = "live"]
      /\ sockets' = sockets \cup {c}
      /\ UNCHANGED <<received, queue, mutexes, pc, pkt, next, out, uaf>>
  BY DEF Connect, LifetimeInv
<1>3. \A t \in Threads : cur'[t] = IF pc[t] \in PointerPC /\ cur[t] = d THEN c ELSE cur[t]
  BY <1>1 DEF Repoint
<1>4. \A p \in Pools : cur'[p] = cur[p]
  <2> SUFFICES ASSUME NEW p \in Pools, pc[p] \in PointerPC, cur[p] = d, d # c
               PROVE  FALSE
    BY <1>3, MonitorIsThread
  <2>1. pc[p] \in {"found", "added"}
    BY DEF MutexInv, PointerPC, DrainPC, PoolPC, DisconnectPC
  <2> QED
    BY <2>1, <1>1 DEF LocalsInv, LifetimeInv, Live
<1>5. /\ pc[Monitor] \in PointerPC => cur'[Monitor] \in {c, cur[Monitor]}
      /\ pc[Monitor] \notin PointerPC => cur'[Monitor] = cur[Monitor]
      /\ cur'[Monitor] # cur[Monitor] => heap[cur[Monitor]].mem = "freed"
  BY <1>1, <1>3, MonitorIsThread
<1>6. DisconnectPC \cap PointerPC = {}
  BY DEF DisconnectPC, PointerPC, DrainPC
<1>7. TypeOK'
  <2>1. services' \in Seq(Service)
    <3>1. ASSUME NEW i \in DOMAIN services
          PROVE  [services[i] EXCEPT !.socket = IF @ = d THEN c ELSE @] \in Service
      <4>1. services[i] \in Service
        BY DEF TypeOK
      <4> QED
        BY <4>1 DEF Service
    <3>2. services' = [i \in DOMAIN services |-> [services[i] EXCEPT !.socket = IF @ = d THEN c ELSE @]]
      BY <1>1 DEF Repoint
    <3>3. DOMAIN services = 1 .. Len(services) /\ Len(services) \in Nat
      BY DEF TypeOK
    <3> QED
      BY <3>1, <3>2, <3>3, IsASeq
  <2>2. cur' \in [Threads -> Conns \cup {Nobody}] /\ dest' \in Conns \cup {Nobody}
    BY <1>1 DEF Repoint, TypeOK
  <2>3. heap' \in [Conns -> ClientSocket]
    BY <1>2, HeapWrite DEF TypeOK
  <2>4. peer' \in [Conns -> {"absent", "open", "closed"}] /\ sockets' \subseteq Conns
    BY <1>2 DEF TypeOK
  <2> QED
    BY <1>2, <2>1, <2>2, <2>3, <2>4 DEF TypeOK, mutexes
<1>8. MutexInv'
  BY <1>2 DEF MutexInv, mutexes
<1>9. LifetimeInv'
  <2>1. \A e \in Conns : e # c => heap'[e] = heap[e] /\ peer'[e] = peer[e]
    BY <1>2 DEF TypeOK
  <2>2. /\ heap'[c].mem = "live" /\ heap'[c].stream = <<>> /\ heap'[c].dead = heap[c].dead
        /\ peer'[c] = "open"
    BY <1>2 DEF TypeOK, ClientSocket
  <2>3. ~heap[c].dead
    BY <1>2 DEF LifetimeInv
  <2>4. \A t \in Threads : pc[t] \in DisconnectPC => cur'[t] = cur[t] /\ cur[t] # c
    BY <1>2, <1>3, <1>6 DEF LifetimeInv
  <2>5. \A t \in Threads : pc[t] \notin HoldsSockets
    BY <1>2, RouterAssumption DEF MutexInv, Threads
  <2> QED
    BY <1>2, <2>1, <2>2, <2>3, <2>4, <2>5 DEF LifetimeInv, Live
<1>10. LocalsInv'
  <2>1. \A e \in Conns : /\ peer[e] = "open" => peer'[e] = "open"
                         /\ peer[e] # "absent" => peer'[e] # "absent"
    BY <1>2 DEF TypeOK
  <2>2. pc[Monitor] \in DrainPC \cup {"unlock", "isDead"} =>
          cur'[Monitor] \in Conns /\ peer'[cur'[Monitor]] # "absent"
    BY <1>2, <1>5, <2>1 DEF LocalsInv, PointerPC, TypeOK
  <2>3. pc[Monitor] = "send" => dest' \in Conns
    BY <1>1 DEF Repoint, LocalsInv
  <2> QED
    BY <1>2, <1>4, <2>1, <2>2, <2>3 DEF LocalsInv
<1>11. NoStrandedData'
  <2>1. \A e \in Conns : (Live(e) /\ heap[e].stream # <<>>)' => Live(e) /\ heap[e].stream # <<>>
    BY <1>2 DEF TypeOK, ClientSocket, Live
  <2>2. \A e \in Conns : Live(e) /\ cur[Monitor] = e => cur'[Monitor] = e
    BY <1>5 DEF Live
  <2>3. \A e : Queued(e) => Queued(e)'
    BY <1>2 DEF Queued
  <2> QED
    BY <1>2, <1>4, <2>1, <2>2, <2>3 DEF NoStrandedData
<1> QED
  BY <1>7, <1>8, <1>9, <1>10, <1>11

\* OnDataReceived only starts on an open connection, and whatever the lookup
\* comes to, no other thread and no object is touched.
LEMMA ReceiveStep ==
  ASSUME IInv, NEW p \in Pools, NEW c \in Conns, NEW k \in Packets, Receive(p, c, k)
  PROVE  IInv'
<1> USE DEF IInv
<1>1. /\ pc' \in [Threads -> PC]
      /\ cur' \in [Threads -> Conns \cup {Nobody}]
      /\ pkt' \in [Threads -> Packets \cup {Nobody}]
      /\ pc[p] = "idle" /\ pc'[p] \in {"idle", "found", "lost"}
      /\ pc'[p] = "found" => cur'[p] = c /\ pkt'[p] = k
      /\ \A t \in Threads : t # p => pc'[t] = pc[t] /\ cur'[t] = cur[t] /\ pkt'[t] = pkt[t]
  <2> USE MonitorIsThread, Labels DEF TypeOK, Goto
  <2>1. CASE pc' = [pc EXCEPT ![p] = "found"] /\ cur' = [cur EXCEPT ![p] = c]
             /\ pkt' = [pkt EXCEPT ![p] = k]
    BY <2>1 DEF Receive
  <2>2. CASE UNCHANGED <<pc, cur, pkt>>
    BY <2>2 DEF Receive
  <2>3. CASE pc' = [pc EXCEPT ![p] = "lost"] /\ UNCHANGED <<cur, pkt>>
    BY <2>3 DEF Receive
  <2> QED
    BY <2>1, <2>2, <2>3 DEF Receive
<1>2. /\ UNCHANGED <<peer, sockets, heap, services, queue, dest, next, out, uaf,
                     mutexSockets, mutexQueue, mutexServices>>
      /\ PoolOf[c] = p /\ peer[c] = "open" /\ p # Monitor
  BY RouterAssumption DEF Receive, objects, mutexes
<1>3. TypeOK'
  <2>1. received' \in [Conns -> 0 .. MaxSend]
    BY RouterAssumption DEF Receive, TypeOK
  <2> QED
    BY <1>1, <1>2, <2>1 DEF TypeOK
<1>4. MutexInv'
  BY <1>1, <1>2, MonitorIsThread, RouterAssumption
  DEF MutexInv, PoolPC, DisconnectPC, HoldsSockets
<1>5. LifetimeInv'
  BY <1>1, <1>2, MonitorIsThread DEF LifetimeInv, Live, DisconnectPC, HoldsSockets
<1>6. LocalsInv'
  BY <1>1, <1>2, MonitorIsThread DEF LocalsInv, DrainPC
<1>7. NoStrandedData'
  <2>1. \A d \in Conns : (Live(d) /\ heap[d].stream # <<>>)' => Live(d) /\ heap[d].stream # <<>>
    BY <1>2 DEF Live
  <2>2. \A q \in Pools : pc[q] = "added" => pc'[q] = "added" /\ cur'[q] = cur[q]
    BY <1>1, MonitorIsThread
  <2>3. pc[Monitor] \in DrainPC => pc'[Monitor] \in DrainPC /\ cur'[Monitor] = cur[Monitor]
    BY <1>1, <1>2, MonitorIsThread
  <2> QED
    BY <1>2, <2>1, <2>2, <2>3, NothingStranded
<1> QED
  BY <1>3, <1>4, <1>5, <1>6, <1>7

\* The pool thread that added to the stream is the one about to queue it.
LEMMA AddDataStep ==
  ASSUME IInv, NEW p \in Pools, AddData(p)
  PROVE  IInv'
<1> USE DEF IInv
<1>1. TypeOK'
  <2>1. cur[p] \in Conns /\ pkt[p] \in Packets
    BY DEF AddData, LocalsInv
  <2>2. heap[cur[p]] \in ClientSocket /\ Append(heap[cur[p]].stream, pkt[p]) \in Seq(Packets)
    BY <2>1 DEF TypeOK, ClientSocket
  <2>3. heap' \in [Conns -> ClientSocket]
    BY <2>1, <2>2, HeapWrite DEF AddData, TypeOK
  <2>4. pc' \in [Threads -> PC]
    BY Labels DEF AddData, TypeOK, Goto
  <2>5. uaf' \in BOOLEAN
    BY DEF AddData, TypeOK, Use
  <2> QED
    BY <2>3, <2>4, <2>5 DEF AddData, TypeOK, net, mutexes
<1>2. MutexInv'
  BY RouterAssumption
  DEF AddData, Goto, Use, net, objects, mutexes, Live, Threads, TypeOK, MutexInv, PoolPC,
      MonitorPC, DisconnectPC, HoldsSockets
<1>3. LifetimeInv'
  BY RouterAssumption
  DEF AddData, Goto, Use, net, objects, mutexes, Live, Threads, TypeOK, MutexInv, LifetimeInv,
      LocalsInv, PoolPC, MonitorPC, DisconnectPC, HoldsSockets, DrainPC
<1>4. LocalsInv'
  BY RouterAssumption
  DEF AddData, Goto, Use, net, objects, mutexes, Live, Threads, TypeOK, MutexInv, LifetimeInv,
      LocalsInv, PoolPC, MonitorPC, DisconnectPC, HoldsSockets, DrainPC
<1>5. NoStrandedData'
  <2> SUFFICES ASSUME NEW d \in Conns, (Live(d) /\ heap[d].stream # <<>>)'
               PROVE  (\/ Queued(d)
                       \/ \E q \in Pools : cur[q] = d /\ pc[q] = "added"
                       \/ cur[Monitor] = d /\ pc[Monitor] \in DrainPC)'
    BY DEF NoStrandedData
  <2>1. cur[p] \in Conns /\ pc'[p] = "added" /\ cur' = cur /\ queue' = queue
    BY DEF AddData, Goto, LocalsInv, TypeOK, Threads
  <2>2. CASE d = cur[p]
    BY <2>1, <2>2
  <2>3. CASE d # cur[p]
    <3>1. Live(d) /\ heap[d].stream # <<>>
      BY <2>1, <2>3 DEF AddData, TypeOK, Live
    <3>2. CASE Queued(d)
      BY <2>1, <3>2 DEF Queued
    <3>3. CASE \E q \in Pools : cur[q] = d /\ pc[q] = "added"
      BY <2>1, <3>3 DEF AddData, Goto, TypeOK, Threads
    <3>4. CASE cur[Monitor] = d /\ pc[Monitor] \in DrainPC
      BY <2>1, <3>4, RouterAssumption DEF AddData, Goto, TypeOK, Threads
    <3> QED
      BY <3>1, <3>2, <3>3, <3>4 DEF NoStrandedData
  <2> QED
    BY <2>2, <2>3
<1> QED
  BY <1>1, <1>2, <1>3, <1>4, <1>5

\* The push takes over the care of the stream.
LEMMA QueueSocketStep ==
  ASSUME IInv, NEW p \in Pools, QueueSocket(p)
  PROVE  IInv'
<1> USE DEF IInv
<1>1. TypeOK'
  <2>1. queue' \in Seq(Conns)
    BY RouterAssumption DEF QueueSocket, TypeOK, LocalsInv
  <2>2. pc' \in [Threads -> PC]
    BY RouterAssumption, Labels, MonitorIsThread DEF QueueSocket, TypeOK
  <2>3. cur' \in [Threads -> Conns \cup {Nobody}]
    BY RouterAssumption DEF QueueSocket, TypeOK
  <2>4. pkt' \in [Threads -> Packets \cup {Nobody}]
    BY RouterAssumption DEF QueueSocket, TypeOK
  <2>5. uaf' \in BOOLEAN
    BY RouterAssumption DEF QueueSocket, TypeOK, Use
  <2> QED
    BY <2>1, <2>2, <2>3, <2>4, <2>5 DEF QueueSocket, TypeOK, net, objects, mutexes
<1>2. MutexInv'
  BY RouterAssumption, ZenonT(30)
  DEF QueueSocket, Use, net, objects, mutexes, Live, Threads, TypeOK, MutexInv, PoolPC,
      MonitorPC, DisconnectPC, HoldsSockets
<1>3. LifetimeInv'
  BY RouterAssumption
  DEF QueueSocket, Use, net, objects, mutexes, Live, Threads, TypeOK, MutexInv, LifetimeInv,
      LocalsInv, PoolPC, MonitorPC, DisconnectPC, HoldsSockets, DrainPC
<1>4. LocalsInv'
  <2>1. queue' # <<>>
    <3>1. queue' = Append(queue, cur[p]) /\ queue \in Seq(Conns)
      BY DEF QueueSocket, TypeOK
    <3> QED
      BY <3>1
  <2>2. pc'[p] = "idle" /\ (\A q \in Pools \ {p} : pc'[q] = pc[q] /\ cur'[q] = cur[q] /\ pkt'[q] = pkt[q])
    BY RouterAssumption DEF QueueSocket, TypeOK, Threads
  <2>3. /\ cur'[Monitor] = cur[Monitor] /\ pkt'[Monitor] = pkt[Monitor]
        /\ pc'[Monitor] = IF pc[Monitor] = "sleep" THEN "check" ELSE pc[Monitor]
    BY RouterAssumption DEF QueueSocket, TypeOK, Threads
  <2>4. UNCHANGED <<peer, dest>>
    BY DEF QueueSocket, net
  <2> QED
    BY <2>1, <2>2, <2>3, <2>4 DEF LocalsInv, DrainPC
<1>5. NoStrandedData'
  <2>1. PICK c \in Conns : cur[p] = c /\ queue' = Append(queue, c) /\ heap' = heap
    BY DEF QueueSocket, LocalsInv, objects
  <2>2. ASSUME NEW d, Queued(d)
        PROVE  Queued(d)'
    <3>1. PICK i \in DOMAIN queue : queue[i] = d
      BY <2>2 DEF Queued
    <3>2. i \in DOMAIN queue' /\ queue'[i] = d
      BY <2>1, <3>1 DEF TypeOK
    <3> QED
      BY <3>2 DEF Queued
  <2>3. Queued(c)'
    <3>1. Len(queue) + 1 \in DOMAIN queue' /\ queue'[Len(queue) + 1] = c
      BY <2>1 DEF TypeOK
    <3> QED
      BY <3>1 DEF Queued
  <2>4. \A q \in Pools : q # p => pc'[q] = pc[q] /\ cur'[q] = cur[q]
    BY RouterAssumption DEF QueueSocket, TypeOK, Threads
  <2>5. pc[Monitor] \in DrainPC => pc'[Monitor] = pc[Monitor] /\ cur'[Monitor] = cur[Monitor]
    BY RouterAssumption DEF QueueSocket, TypeOK, Threads, DrainPC
  <2> QED
    BY <2>1, <2>2, <2>3, <2>4, <2>5 DEF NoStrandedData, Live
<1> QED
  BY <1>1, <1>2, <1>3, <1>4, <1>5

\* OnDisconnect starts when the peer has closed.
LEMMA CloseStep ==
  ASSUME IInv, NEW p \in Pools, NEW c \in Conns, Close(p, c)
  PROVE  IInv'
<1> USE DEF IInv
<1>1. TypeOK'
  BY RouterAssumption, MonitorIsThread, Labels DEF Close, Goto, net, objects, mutexes, TypeOK
<1>2. MutexInv'
  BY RouterAssumption
  DEF Close, Goto, net, objects, mutexes, Live, Threads, TypeOK, MutexInv, PoolPC, MonitorPC,
      DisconnectPC, HoldsSockets
<1>3. LifetimeInv'
  BY RouterAssumption
  DEF Close, Goto, net, objects, mutexes, Live, Threads, TypeOK, MutexInv, LifetimeInv,
      LocalsInv, PoolPC, MonitorPC, DisconnectPC, HoldsSockets, DrainPC
<1>4. LocalsInv'
  BY RouterAssumption
  DEF Close, Goto, net, objects, mutexes, Live, Threads, TypeOK, MutexInv, LifetimeInv,
      LocalsInv, PoolPC, MonitorPC, DisconnectPC, HoldsSockets, DrainPC
<1>5. NoStrandedData'
  BY RouterAssumption, NothingStranded
  DEF Close, Goto, net, objects, mutexes, Live, Threads, TypeOK, MutexInv, LifetimeInv,
      LocalsInv, PoolPC, MonitorPC, DisconnectPC, HoldsSockets, DrainPC
<1> QED
  BY <1>1, <1>2, <1>3, <1>4, <1>5

\* OnDisconnect keeps m_mutexSockets only for a socket it found in the map.
LEMMA DisconnectStep ==
  ASSUME IInv, NEW t \in Threads, Disconnect(t)
  PROVE  IInv'
<1> USE DEF IInv
<1>1. TypeOK'
  <2>1. mutexSockets' \in Threads \cup {Nobody}
    BY RouterAssumption DEF Disconnect, TypeOK
  <2>2. pc' \in [Threads -> PC]
    <3>1. \E l \in {"markDead", "unregister", "check", "idle"} : pc' = [pc EXCEPT ![t] = l]
      BY DEF Disconnect, Goto, Return
    <3> QED
      BY <3>1, Labels DEF TypeOK
  <2>3. cur' \in [Threads -> Conns \cup {Nobody}]
    BY RouterAssumption DEF Disconnect, TypeOK, Return
  <2> QED
    BY <2>1, <2>2, <2>3 DEF Disconnect, TypeOK, net, objects, mutexes
<1>2. MutexInv'
  <2>1. CASE cur[t] \notin sockets
    <3>1. /\ pc[t] = "disconnect" /\ pc'[t] = IF t = Monitor THEN "check" ELSE "idle"
          /\ \A u \in Threads : u # t => pc'[u] = pc[u]
          /\ UNCHANGED <<mutexSockets, mutexQueue, mutexServices>>
      BY <2>1 DEF Disconnect, Goto, Return, TypeOK
    <3>2. pc'[t] \notin HoldsSockets \cup {"notifying", "find"}
      BY <3>1 DEF HoldsSockets
    <3>3. pc[t] \notin HoldsSockets \cup {"notifying", "find"}
      BY <3>1 DEF HoldsSockets
    <3>4. "check" \in MonitorPC /\ "idle" \in PoolPC
      BY DEF MonitorPC, PoolPC
    <3> QED
      BY <3>1, <3>2, <3>3, <3>4, MonitorIsThread, RouterAssumption DEF MutexInv
  <2>2. CASE cur[t] \in sockets
    <3>1. PICK l \in {"markDead", "unregister"} : Goto(t, l)
      BY <2>2 DEF Disconnect
    <3>2. mutexSockets = Nobody /\ mutexSockets' = t /\ UNCHANGED <<mutexQueue, mutexServices>>
      BY <2>2 DEF Disconnect
    <3>3. pc'[t] = l /\ pc[t] = "disconnect" /\ (\A u \in Threads : u # t => pc'[u] = pc[u])
      BY <3>1 DEF Disconnect, Goto, TypeOK
    <3> QED
      BY <3>2, <3>3, MonitorIsThread, RouterAssumption DEF MutexInv, DisconnectPC, HoldsSockets
  <2> QED
    BY <2>1, <2>2
<1>3. LifetimeInv'
  BY RouterAssumption
  DEF Disconnect, Goto, Return, net, objects, mutexes, Live, Threads, TypeOK, MutexInv,
      LifetimeInv, LocalsInv, PoolPC, MonitorPC, DisconnectPC, HoldsSockets, DrainPC
<1>4. LocalsInv'
  <2>1. /\ pc[t] = "disconnect" /\ pc'[t] \in {"markDead", "unregister", "check", "idle"}
        /\ \A u \in Threads : u # t => pc'[u] = pc[u] /\ cur'[u] = cur[u]
        /\ UNCHANGED <<peer, pkt, dest, queue>>
    BY DEF Disconnect, Goto, Return, TypeOK, net
  <2> QED
    BY <2>1, MonitorIsThread DEF LocalsInv, DrainPC
<1>5. NoStrandedData'
  BY RouterAssumption, NothingStranded
  DEF Disconnect, Goto, Return, net, objects, mutexes, Live, Threads, TypeOK, MutexInv,
      LifetimeInv, LocalsInv, PoolPC, MonitorPC, DisconnectPC, HoldsSockets, DrainPC
<1> QED
  BY <1>1, <1>2, <1>3, <1>4, <1>5

\* The else branch changes m_bIsDead and gives m_mutexSockets back.
LEMMA MarkDeadStep ==
  ASSUME IInv, NEW t \in Threads, MarkDead(t)
  PROVE  IInv'
<1> USE DEF IInv
<1>1. TypeOK'
  BY RouterAssumption, MonitorIsThread, Labels, HeapWrite, DisconnectSocket
  DEF MarkDead, Goto, Return, net, objects, mutexes, TypeOK, DisconnectPC
<1>2. MutexInv'
  BY RouterAssumption
  DEF MarkDead, Goto, Return, net, objects, mutexes, Live, Threads, TypeOK, MutexInv, PoolPC,
      MonitorPC, DisconnectPC, HoldsSockets
<1>3. LifetimeInv'
  BY RouterAssumption
  DEF MarkDead, Goto, Return, net, objects, mutexes, Live, Threads, TypeOK, MutexInv,
      LifetimeInv, LocalsInv, PoolPC, MonitorPC, DisconnectPC, HoldsSockets, DrainPC
<1>4. LocalsInv'
  BY RouterAssumption
  DEF MarkDead, Goto, Return, net, objects, mutexes, Live, Threads, TypeOK, MutexInv,
      LifetimeInv, LocalsInv, PoolPC, MonitorPC, DisconnectPC, HoldsSockets, DrainPC
<1>5. NoStrandedData'
  BY RouterAssumption, NothingStranded
  DEF MarkDead, Goto, Return, net, objects, mutexes, Live, Threads, TypeOK, MutexInv,
      LifetimeInv, LocalsInv, PoolPC, MonitorPC, DisconnectPC, HoldsSockets, DrainPC
<1> QED
  BY <1>1, <1>2, <1>3, <1>4, <1>5

\* UnregisterService leaves a list of services.
LEMMA UnregisterStep ==
  ASSUME IInv, NEW t \in Threads, Unregister(t)
  PROVE  IInv'
<1> USE DEF IInv
<1>1. TypeOK'
  <2>1. services' \in Seq(Service)
    BY RouterAssumption, FirstEntry, EraseEntryType
    DEF Unregister, TypeOK, LifetimeInv, DisconnectPC
  <2>2. pc' \in [Threads -> PC]
    BY RouterAssumption, Labels DEF Unregister, TypeOK, Goto
  <2> QED
    BY <2>1, <2>2 DEF Unregister, TypeOK, net, objects, mutexes
<1>2. MutexInv'
  <2>1. PICK l \in {"notify", "erase"} : Goto(t, l)
    BY DEF Unregister
  <2> QED
    BY <2>1, RouterAssumption
    DEF Unregister, Goto, mutexes, TypeOK, MutexInv, PoolPC, MonitorPC, DisconnectPC,
        HoldsSockets, Threads
<1>3. LifetimeInv'
  BY RouterAssumption
  DEF Unregister, Goto, net, objects, mutexes, Live, Threads, TypeOK, MutexInv, LifetimeInv,
      LocalsInv, PoolPC, MonitorPC, DisconnectPC, HoldsSockets, DrainPC
<1>4. LocalsInv'
  BY RouterAssumption
  DEF Unregister, Goto, net, objects, mutexes, Live, Threads, TypeOK, MutexInv, LifetimeInv,
      LocalsInv, PoolPC, MonitorPC, DisconnectPC, HoldsSockets, DrainPC
<1>5. NoStrandedData'
  BY RouterAssumption, NothingStranded
  DEF Unregister, Goto, net, objects, mutexes, Live, Threads, TypeOK, MutexInv, LifetimeInv,
      LocalsInv, PoolPC, MonitorPC, DisconnectPC, HoldsSockets, DrainPC
<1> QED
  BY <1>1, <1>2, <1>3, <1>4, <1>5

\* NotifyServicesOfClientDisconnect nests m_mutexServices in m_mutexSockets.
LEMMA NotifyStep ==
  ASSUME IInv, NEW t \in Threads, Notify(t)
  PROVE  IInv'
<1> USE DEF IInv
<1>1. TypeOK'
  BY RouterAssumption, MonitorIsThread, Labels DEF Notify, Goto, net, objects, mutexes, TypeOK
<1>2. MutexInv'
  BY RouterAssumption
  DEF Notify, Goto, net, objects, mutexes, Live, Threads, TypeOK, MutexInv, PoolPC, MonitorPC,
      DisconnectPC, HoldsSockets
<1>3. LifetimeInv'
  BY RouterAssumption
  DEF Notify, Goto, net, objects, mutexes, Live, Threads, TypeOK, MutexInv, LifetimeInv,
      LocalsInv, PoolPC, MonitorPC, DisconnectPC, HoldsSockets, DrainPC
<1>4. LocalsInv'
  BY RouterAssumption
  DEF Notify, Goto, net, objects, mutexes, Live, Threads, TypeOK, MutexInv, LifetimeInv,
      LocalsInv, PoolPC, MonitorPC, DisconnectPC, HoldsSockets, DrainPC
<1>5. NoStrandedData'
  BY RouterAssumption, NothingStranded
  DEF Notify, Goto, net, objects, mutexes, Live, Threads, TypeOK, MutexInv, LifetimeInv,
      LocalsInv, PoolPC, MonitorPC, DisconnectPC, HoldsSockets, DrainPC
<1> QED
  BY <1>1, <1>2, <1>3, <1>4, <1>5

\* A notice goes to an entry of the list.
LEMMA NotifyNextStep ==
  ASSUME IInv, NEW t \in Threads, NotifyNext(t)
  PROVE  IInv'
<1> USE DEF IInv
<1>1. TypeOK'
  <2>1. cur[t] \in Conns
    BY DisconnectSocket DEF NotifyNext, DisconnectPC
  <2>2. services[next].socket \in Conns
    <3>1. services[next] \in Service
      BY DEF NotifyNext, TypeOK
    <3> QED
      BY <3>1 DEF Service
  <2>3. [kind |-> "gone", about |-> cur[t]] \in Message
    BY <2>1 DEF Message
  <2>4. out' \in [Conns -> Seq(Message)]
    BY <2>2, <2>3, DeliverType DEF NotifyNext, TypeOK
  <2>5. next' \in Nat \ {0} /\ uaf' \in BOOLEAN
    BY DEF NotifyNext, TypeOK, Use
  <2> QED
    BY <2>4, <2>5 DEF NotifyNext, TypeOK, net, objects, mutexes
<1>2. MutexInv'
  BY RouterAssumption
  DEF NotifyNext, Use, Deliver, net, objects, mutexes, Live, Threads, TypeOK, MutexInv, PoolPC,
      MonitorPC, DisconnectPC, HoldsSockets
<1>3. LifetimeInv'
  BY RouterAssumption
  DEF NotifyNext, Use, Deliver, net, objects, mutexes, Live, Threads, TypeOK, MutexInv,
      LifetimeInv, LocalsInv, PoolPC, MonitorPC, DisconnectPC, HoldsSockets, DrainPC
<1>4. LocalsInv'
  BY RouterAssumption
  DEF NotifyNext, Use, Deliver, net, objects, mutexes, Live, Threads, TypeOK, MutexInv,
      LifetimeInv, LocalsInv, PoolPC, MonitorPC, DisconnectPC, HoldsSockets, DrainPC
<1>5. NoStrandedData'
  BY RouterAssumption, NothingStranded
  DEF NotifyNext, Use, Deliver, net, objects, mutexes, Live, Threads, TypeOK, MutexInv,
      LifetimeInv, LocalsInv, PoolPC, MonitorPC, DisconnectPC, HoldsSockets, DrainPC
<1> QED
  BY <1>1, <1>2, <1>3, <1>4, <1>5

\* m_mutexServices is given back by the thread that took it.
LEMMA NotifyDoneStep ==
  ASSUME IInv, NEW t \in Threads, NotifyDone(t)
  PROVE  IInv'
<1> USE DEF IInv
<1>1. TypeOK'
  BY RouterAssumption, MonitorIsThread, Labels
  DEF NotifyDone, Goto, net, objects, mutexes, TypeOK
<1>2. MutexInv'
  BY RouterAssumption
  DEF NotifyDone, Goto, net, objects, mutexes, Live, Threads, TypeOK, MutexInv, PoolPC,
      MonitorPC, DisconnectPC, HoldsSockets
<1>3. LifetimeInv'
  BY RouterAssumption
  DEF NotifyDone, Goto, net, objects, mutexes, Live, Threads, TypeOK, MutexInv, LifetimeInv,
      LocalsInv, PoolPC, MonitorPC, DisconnectPC, HoldsSockets, DrainPC
<1>4. LocalsInv'
  BY RouterAssumption
  DEF NotifyDone, Goto, net, objects, mutexes, Live, Threads, TypeOK, MutexInv, LifetimeInv,
      LocalsInv, PoolPC, MonitorPC, DisconnectPC, HoldsSockets, DrainPC
<1>5. NoStrandedData'
  BY RouterAssumption, NothingStranded
  DEF NotifyDone, Goto, net, objects, mutexes, Live, Threads, TypeOK, MutexInv, LifetimeInv,
      LocalsInv, PoolPC, MonitorPC, DisconnectPC, HoldsSockets, DrainPC
<1> QED
  BY <1>1, <1>2, <1>3, <1>4, <1>5

\* The object and its map entry go together, for a closed connection.
LEMMA EraseStep ==
  ASSUME IInv, NEW t \in Threads, Erase(t)
  PROVE  IInv'
<1> USE DEF IInv
<1>1. TypeOK'
  <2>1. heap' \in [Conns -> ClientSocket]
    BY RouterAssumption, HeapFree DEF Erase, TypeOK, LifetimeInv, DisconnectPC
  <2>2. sockets' \subseteq Conns
    BY RouterAssumption DEF Erase, TypeOK
  <2>3. pc' \in [Threads -> PC]
    BY RouterAssumption, Labels DEF Erase, TypeOK, Goto, Return
  <2>4. cur' \in [Threads -> Conns \cup {Nobody}]
    BY RouterAssumption DEF Erase, TypeOK, Return
  <2> QED
    BY <2>1, <2>2, <2>3, <2>4 DEF Erase, TypeOK, net, objects, mutexes
<1>2. MutexInv'
  BY RouterAssumption
  DEF Erase, Goto, Return, net, objects, mutexes, Live, Threads, TypeOK, MutexInv, PoolPC,
      MonitorPC, DisconnectPC, HoldsSockets
<1>3. LifetimeInv'
  BY RouterAssumption
  DEF Erase, Goto, Return, net, objects, mutexes, Live, Threads, TypeOK, MutexInv, LifetimeInv,
      LocalsInv, PoolPC, MonitorPC, DisconnectPC, HoldsSockets, DrainPC
<1>4. LocalsInv'
  BY RouterAssumption
  DEF Erase, Goto, Return, net, objects, mutexes, Live, Threads, TypeOK, MutexInv, LifetimeInv,
      LocalsInv, PoolPC, MonitorPC, DisconnectPC, HoldsSockets, DrainPC
<1>5. NoStrandedData'
  BY RouterAssumption, NothingStranded
  DEF Erase, Goto, Return, net, objects, mutexes, Live, Threads, TypeOK, MutexInv, LifetimeInv,
      LocalsInv, PoolPC, MonitorPC, DisconnectPC, HoldsSockets, DrainPC
<1> QED
  BY <1>1, <1>2, <1>3, <1>4, <1>5

\* The monitor goes on to pop only when the queue is not empty; nobody else pops.
LEMMA CheckStep ==
  ASSUME IInv, Check
  PROVE  IInv'
<1> USE DEF IInv
<1>1. TypeOK'
  BY RouterAssumption, MonitorIsThread, Labels DEF Check, Goto, net, objects, mutexes, TypeOK
<1>2. MutexInv'
  BY RouterAssumption
  DEF Check, Goto, net, objects, mutexes, Live, Threads, TypeOK, MutexInv, PoolPC, MonitorPC,
      DisconnectPC, HoldsSockets
<1>3. LifetimeInv'
  BY RouterAssumption
  DEF Check, Goto, net, objects, mutexes, Live, Threads, TypeOK, MutexInv, LifetimeInv,
      LocalsInv, PoolPC, MonitorPC, DisconnectPC, HoldsSockets, DrainPC
<1>4. LocalsInv'
  BY RouterAssumption
  DEF Check, Goto, net, objects, mutexes, Live, Threads, TypeOK, MutexInv, LifetimeInv,
      LocalsInv, PoolPC, MonitorPC, DisconnectPC, HoldsSockets, DrainPC
<1>5. NoStrandedData'
  BY RouterAssumption, NothingStranded
  DEF Check, Goto, net, objects, mutexes, Live, Threads, TypeOK, MutexInv, LifetimeInv,
      LocalsInv, PoolPC, MonitorPC, DisconnectPC, HoldsSockets, DrainPC
<1> QED
  BY <1>1, <1>2, <1>3, <1>4, <1>5

\* WaitForSignal changes no shared state.
LEMMA WaitStep ==
  ASSUME IInv, Wait
  PROVE  IInv'
<1> USE DEF IInv
<1>1. TypeOK'
  BY RouterAssumption, MonitorIsThread, Labels DEF Wait, Goto, net, objects, mutexes, TypeOK
<1>2. MutexInv'
  BY RouterAssumption
  DEF Wait, Goto, net, objects, mutexes, Live, Threads, TypeOK, MutexInv, PoolPC, MonitorPC,
      DisconnectPC, HoldsSockets
<1>3. LifetimeInv'
  BY RouterAssumption
  DEF Wait, Goto, net, objects, mutexes, Live, Threads, TypeOK, MutexInv, LifetimeInv,
      LocalsInv, PoolPC, MonitorPC, DisconnectPC, HoldsSockets, DrainPC
<1>4. LocalsInv'
  BY RouterAssumption
  DEF Wait, Goto, net, objects, mutexes, Live, Threads, TypeOK, MutexInv, LifetimeInv,
      LocalsInv, PoolPC, MonitorPC, DisconnectPC, HoldsSockets, DrainPC
<1>5. NoStrandedData'
  BY RouterAssumption, NothingStranded
  DEF Wait, Goto, net, objects, mutexes, Live, Threads, TypeOK, MutexInv, LifetimeInv,
      LocalsInv, PoolPC, MonitorPC, DisconnectPC, HoldsSockets, DrainPC
<1> QED
  BY <1>1, <1>2, <1>3, <1>4, <1>5

\* So does a spurious wake-up.
LEMMA SpuriousWakeupStep ==
  ASSUME IInv, SpuriousWakeup
  PROVE  IInv'
<1> USE DEF IInv
<1>1. TypeOK'
  BY RouterAssumption, MonitorIsThread, Labels
  DEF SpuriousWakeup, Goto, net, objects, mutexes, TypeOK
<1>2. MutexInv'
  BY RouterAssumption
  DEF SpuriousWakeup, Goto, net, objects, mutexes, Live, Threads, TypeOK, MutexInv, PoolPC,
      MonitorPC, DisconnectPC, HoldsSockets
<1>3. LifetimeInv'
  BY RouterAssumption
  DEF SpuriousWakeup, Goto, net, objects, mutexes, Live, Threads, TypeOK, MutexInv,
      LifetimeInv, LocalsInv, PoolPC, MonitorPC, DisconnectPC, HoldsSockets, DrainPC
<1>4. LocalsInv'
  BY RouterAssumption
  DEF SpuriousWakeup, Goto, net, objects, mutexes, Live, Threads, TypeOK, MutexInv,
      LifetimeInv, LocalsInv, PoolPC, MonitorPC, DisconnectPC, HoldsSockets, DrainPC
<1>5. NoStrandedData'
  BY RouterAssumption, NothingStranded
  DEF SpuriousWakeup, Goto, net, objects, mutexes, Live, Threads, TypeOK, MutexInv,
      LifetimeInv, LocalsInv, PoolPC, MonitorPC, DisconnectPC, HoldsSockets, DrainPC
<1> QED
  BY <1>1, <1>2, <1>3, <1>4, <1>5

\* m_mutexQueuedData is taken.
LEMMA LockQueueStep ==
  ASSUME IInv, LockQueue
  PROVE  IInv'
<1> USE DEF IInv
<1>1. TypeOK'
  BY RouterAssumption, MonitorIsThread, Labels
  DEF LockQueue, Goto, net, objects, mutexes, TypeOK
<1>2. MutexInv'
  BY RouterAssumption
  DEF LockQueue, Goto, net, objects, mutexes, Live, Threads, TypeOK, MutexInv, PoolPC,
      MonitorPC, DisconnectPC, HoldsSockets
<1>3. LifetimeInv'
  BY RouterAssumption
  DEF LockQueue, Goto, net, objects, mutexes, Live, Threads, TypeOK, MutexInv, LifetimeInv,
      LocalsInv, PoolPC, MonitorPC, DisconnectPC, HoldsSockets, DrainPC
<1>4. LocalsInv'
  BY RouterAssumption
  DEF LockQueue, Goto, net, objects, mutexes, Live, Threads, TypeOK, MutexInv, LifetimeInv,
      LocalsInv, PoolPC, MonitorPC, DisconnectPC, HoldsSockets, DrainPC
<1>5. NoStrandedData'
  BY RouterAssumption, NothingStranded
  DEF LockQueue, Goto, net, objects, mutexes, Live, Threads, TypeOK, MutexInv, LifetimeInv,
      LocalsInv, PoolPC, MonitorPC, DisconnectPC, HoldsSockets, DrainPC
<1> QED
  BY <1>1, <1>2, <1>3, <1>4, <1>5

\* The head of the queue passes into the monitor's care, unless it was torn down.
LEMMA PopQueueStep ==
  ASSUME IInv, PopQueue
  PROVE  IInv'
<1> USE DEF IInv
<1>1. TypeOK'
  <2>1. queue # <<>> /\ Head(queue) \in Conns /\ queue' \in Seq(Conns)
    BY DEF PopQueue, LocalsInv, TypeOK
  <2>2. pc' \in [Threads -> PC]
    BY Labels, MonitorIsThread DEF PopQueue, TypeOK, Goto
  <2>3. cur' \in [Threads -> Conns \cup {Nobody}]
    BY <2>1 DEF PopQueue, TypeOK
  <2> QED
    BY <2>1, <2>2, <2>3 DEF PopQueue, TypeOK, net, objects
<1>2. MutexInv'
  BY RouterAssumption, ZenonT(30)
  DEF PopQueue, Goto, net, objects, mutexes, Live, Threads, TypeOK, MutexInv, PoolPC,
      MonitorPC, DisconnectPC, HoldsSockets
<1>3. LifetimeInv'
  BY RouterAssumption
  DEF PopQueue, Goto, net, objects, mutexes, Live, Threads, TypeOK, MutexInv, LifetimeInv,
      LocalsInv, PoolPC, MonitorPC, DisconnectPC, HoldsSockets, DrainPC
<1>4. LocalsInv'
  <2>1. Head(queue) \in Conns
    BY DEF PopQueue, LocalsInv, TypeOK
  <2>2. \A p \in Pools : pc'[p] = pc[p] /\ cur'[p] = cur[p]
    BY RouterAssumption DEF PopQueue, Goto, TypeOK, Threads
  <2>3. Head(queue) \in sockets => peer[Head(queue)] # "absent"
    BY <2>1 DEF LifetimeInv, Live
  <2>4. \/ pc'[Monitor] = "lock" /\ cur'[Monitor] = Head(queue) /\ Head(queue) \in sockets
        \/ pc'[Monitor] = "check"
    BY MonitorIsThread DEF PopQueue, Goto, TypeOK
  <2> QED
    BY <2>1, <2>2, <2>3, <2>4 DEF PopQueue, LocalsInv, DrainPC, net
<1>5. NoStrandedData'
  <2>1. queue # <<>> /\ Head(queue) \in Conns /\ queue' = Tail(queue) /\ heap' = heap
    BY DEF PopQueue, LocalsInv, TypeOK, objects
  <2>2. ASSUME NEW d, Queued(d), d # Head(queue)
        PROVE  Queued(d)'
    <3>1. PICK i \in DOMAIN queue : queue[i] = d
      BY <2>2 DEF Queued
    <3>2. i - 1 \in DOMAIN queue' /\ queue'[i - 1] = d
      BY <2>1, <2>2, <3>1 DEF TypeOK
    <3> QED
      BY <3>2 DEF Queued
  <2>3. \A p \in Pools : pc'[p] = pc[p] /\ cur'[p] = cur[p]
    BY RouterAssumption DEF PopQueue, Goto, TypeOK, Threads
  <2>4. Live(Head(queue)) => pc'[Monitor] = "lock" /\ cur'[Monitor] = Head(queue)
    BY <2>1, MonitorIsThread DEF PopQueue, Goto, TypeOK, LifetimeInv
  <2>5. pc[Monitor] \notin DrainPC
    BY DEF PopQueue, DrainPC
  <2> QED
    BY <2>1, <2>2, <2>3, <2>4, <2>5 DEF NoStrandedData, Live, DrainPC
<1> QED
  BY <1>1, <1>2, <1>3, <1>4, <1>5

\* Lock() writes m_bLocked alone.
LEMMA LockSocketStep ==
  ASSUME IInv, LockSocket
  PROVE  IInv'
<1> USE DEF IInv
<1>1. TypeOK'
  BY RouterAssumption, MonitorIsThread, Labels, HeapWrite
  DEF LockSocket, Goto, SetLocked, Use, net, objects, mutexes, TypeOK, LocalsInv, DrainPC
<1>2. MutexInv'
  BY RouterAssumption
  DEF LockSocket, Goto, SetLocked, Use, net, objects, mutexes, Live, Threads, TypeOK, MutexInv,
      PoolPC, MonitorPC, DisconnectPC, HoldsSockets
<1>3. LifetimeInv'
  BY RouterAssumption
  DEF LockSocket, Goto, SetLocked, Use, net, objects, mutexes, Live, Threads, TypeOK, MutexInv,
      LifetimeInv, LocalsInv, PoolPC, MonitorPC, DisconnectPC, HoldsSockets, DrainPC
<1>4. LocalsInv'
  BY RouterAssumption
  DEF LockSocket, Goto, SetLocked, Use, net, objects, mutexes, Live, Threads, TypeOK, MutexInv,
      LifetimeInv, LocalsInv, PoolPC, MonitorPC, DisconnectPC, HoldsSockets, DrainPC
<1>5. NoStrandedData'
  BY RouterAssumption, NothingStranded
  DEF LockSocket, Goto, SetLocked, Use, net, objects, mutexes, Live, Threads, TypeOK, MutexInv,
      LifetimeInv, LocalsInv, PoolPC, MonitorPC, DisconnectPC, HoldsSockets, DrainPC
<1> QED
  BY <1>1, <1>2, <1>3, <1>4, <1>5

\* The monitor lets go of a stream only when it saw it empty.
LEMMA ExtractStep ==
  ASSUME IInv, Extract
  PROVE  IInv'
<1> USE DEF IInv
<1>1. TypeOK'
  <2>1. heap[cur[Monitor]].stream \in Seq(Packets)
    BY MonitorSocket DEF Extract, DrainPC
  <2>2. PICK l \in PC : Goto(Monitor, l)
    BY Labels DEF Extract
  <2>3. pc' \in [Threads -> PC]
    BY <2>2 DEF TypeOK, Goto
  <2>4. pkt' \in [Threads -> Packets \cup {Nobody}]
    <3>1. CASE heap[cur[Monitor]].stream = <<>>
      BY <3>1 DEF Extract, TypeOK
    <3>2. CASE heap[cur[Monitor]].stream # <<>>
      <4>1. Head(heap[cur[Monitor]].stream) \in Packets
        BY <2>1, <3>2
      <4> QED
        BY <3>2, <4>1 DEF Extract, TypeOK
    <3> QED
      BY <3>1, <3>2
  <2>5. uaf' \in BOOLEAN
    BY DEF Extract, TypeOK, Use
  <2> QED
    BY <2>3, <2>4, <2>5 DEF Extract, TypeOK, net, objects, mutexes
<1>2. MutexInv'
  BY RouterAssumption, ZenonT(30)
  DEF Extract, Goto, Use, net, objects, mutexes, Live, Threads, TypeOK, MutexInv, PoolPC,
      MonitorPC, DisconnectPC, HoldsSockets
<1>3. LifetimeInv'
  BY RouterAssumption
  DEF Extract, Goto, Use, net, objects, mutexes, Live, Threads, TypeOK, MutexInv, LifetimeInv,
      LocalsInv, PoolPC, MonitorPC, DisconnectPC, HoldsSockets, DrainPC
<1>4. LocalsInv'
  <2>1. heap[cur[Monitor]].stream \in Seq(Packets) /\ cur[Monitor] \in Conns
    BY MonitorSocket DEF Extract, DrainPC
  <2>2. \A p \in Pools : pc'[p] = pc[p] /\ pkt'[p] = pkt[p]
    BY RouterAssumption DEF Extract, Goto, TypeOK, Threads
  <2>3. \/ pc'[Monitor] = "unlock"
        \/ pc'[Monitor] = "delete" /\ pkt'[Monitor] \in Packets
    BY <2>1, MonitorIsThread DEF Extract, Goto, TypeOK
  <2> QED
    BY <2>1, <2>2, <2>3 DEF Extract, LocalsInv, DrainPC, net
<1>5. NoStrandedData'
  <2>1. \A p \in Pools : pc'[p] = pc[p]
    BY RouterAssumption DEF Extract, Goto, TypeOK, Threads
  <2>2. \/ pc'[Monitor] = "unlock" /\ heap[cur[Monitor]].stream = <<>>
        \/ pc'[Monitor] = "delete"
    BY MonitorIsThread DEF Extract, Goto, TypeOK
  <2>3. queue' = queue /\ heap' = heap /\ cur' = cur /\ pc[Monitor] = "extract"
    BY DEF Extract, objects
  <2>4. \A d : Queued(d) => Queued(d)'
    BY <2>3 DEF Queued
  <2> QED
    BY <2>1, <2>2, <2>3, <2>4 DEF NoStrandedData, Live, DrainPC
<1> QED
  BY <1>1, <1>2, <1>3, <1>4, <1>5

\* The monitor deletes what it extracted and keeps the connection.
LEMMA DeletePacketStep ==
  ASSUME IInv, DeletePacket
  PROVE  IInv'
<1> USE DEF IInv
<1>1. TypeOK'
  <2>1. cur[Monitor] \in Conns /\ heap[cur[Monitor]].stream \in Seq(Packets)
    BY MonitorSocket DEF DeletePacket, DrainPC
  <2>2. PICK l \in PC : Goto(Monitor, l)
    BY Labels DEF DeletePacket
  <2>3. pc' \in [Threads -> PC]
    BY <2>2 DEF TypeOK, Goto
  <2>4. heap' \in [Conns -> ClientSocket]
    <3>1. CASE Len(heap[cur[Monitor]].stream) = 1
      BY <3>1 DEF DeletePacket, TypeOK
    <3>2. CASE Len(heap[cur[Monitor]].stream) # 1
      <4> DEFINE s == heap[cur[Monitor]].stream
                 r == IF s = <<>> THEN s ELSE Tail(s)
      <4>1. r \in Seq(Packets)
        BY <2>1
      <4>2. heap' = [heap EXCEPT ![cur[Monitor]].stream = r]
        BY <3>2 DEF DeletePacket
      <4> HIDE DEF r
      <4> QED
        BY <2>1, <4>1, <4>2, HeapWrite DEF TypeOK
    <3> QED
      BY <3>1, <3>2
  <2>5. uaf' \in BOOLEAN
    BY DEF DeletePacket, TypeOK, Use
  <2> QED
    BY <2>3, <2>4, <2>5 DEF DeletePacket, TypeOK, net, mutexes
<1>2. MutexInv'
  BY RouterAssumption, ZenonT(30)
  DEF DeletePacket, Goto, Use, net, objects, mutexes, Live, Threads, TypeOK, MutexInv, PoolPC,
      MonitorPC, DisconnectPC, HoldsSockets
<1>3. LifetimeInv'
  <2>1. cur[Monitor] \in Conns /\ heap[cur[Monitor]] \in ClientSocket /\ heap[cur[Monitor]].mem # "none"
    BY MonitorSocket DEF DeletePacket, DrainPC
  <2>2. PICK l \in {"empty", "handle"} : Goto(Monitor, l)
    BY DEF DeletePacket
  <2>3. \A d \in Conns : /\ heap'[d].mem = heap[d].mem
                         /\ heap'[d].dead = heap[d].dead
                         /\ heap[d].mem = "none" => heap'[d].stream = heap[d].stream
    <3>1. CASE heap' = heap
      BY <3>1
    <3>2. CASE heap' # heap
      <4>1. PICK r : heap' = [heap EXCEPT ![cur[Monitor]].stream = r]
        BY <3>2 DEF DeletePacket
      <4> QED
        BY <4>1, <2>1 DEF TypeOK, ClientSocket
    <3> QED
      BY <3>1, <3>2
  <2>4. \A t \in Threads : pc'[t] \in DisconnectPC => pc[t] = pc'[t]
    BY <2>2 DEF Goto, TypeOK, DisconnectPC
  <2>5. sockets' = sockets /\ cur' = cur /\ peer' = peer
    BY DEF DeletePacket, net
  <2> QED
    BY <2>3, <2>4, <2>5 DEF LifetimeInv, Live, HoldsSockets, DisconnectPC
<1>4. LocalsInv'
  BY RouterAssumption
  DEF DeletePacket, Goto, Use, net, objects, mutexes, Live, Threads, TypeOK, MutexInv,
      LifetimeInv, LocalsInv, PoolPC, MonitorPC, DisconnectPC, HoldsSockets, DrainPC
<1>5. NoStrandedData'
  <2>1. cur[Monitor] \in Conns
    BY MonitorSocket DEF DeletePacket, DrainPC
  <2>2. PICK l \in {"empty", "handle"} : Goto(Monitor, l)
    BY DEF DeletePacket
  <2>3. ASSUME NEW d \in Conns, (Live(d) /\ heap[d].stream # <<>>)'
        PROVE  d = cur[Monitor] \/ (Live(d) /\ heap[d].stream # <<>>)
    BY <2>1, <2>3 DEF DeletePacket, TypeOK, Live
  <2>4. \A p \in Pools : pc'[p] = pc[p]
    BY <2>2, RouterAssumption DEF Goto, TypeOK, Threads
  <2>5. pc'[Monitor] \in DrainPC /\ cur' = cur /\ queue' = queue
    BY <2>2, MonitorIsThread DEF DeletePacket, Goto, TypeOK, DrainPC
  <2>6. \A d : Queued(d) => Queued(d)'
    BY <2>5 DEF Queued
  <2> QED
    BY <2>3, <2>4, <2>5, <2>6 DEF NoStrandedData
<1> QED
  BY <1>1, <1>2, <1>3, <1>4, <1>5

\* Emptying a stream strands nothing.
LEMMA EmptyStreamStep ==
  ASSUME IInv, EmptyStream
  PROVE  IInv'
<1> USE DEF IInv
<1>1. TypeOK'
  <2>1. cur[Monitor] \in Conns
    BY MonitorSocket DEF EmptyStream, DrainPC
  <2>2. <<>> \in Seq(Packets)
    OBVIOUS
  <2>3. heap' \in [Conns -> ClientSocket]
    BY <2>1, <2>2, HeapWrite DEF EmptyStream, TypeOK
  <2>4. pc' \in [Threads -> PC]
    BY Labels DEF EmptyStream, TypeOK, Goto
  <2>5. uaf' \in BOOLEAN
    BY DEF EmptyStream, TypeOK, Use
  <2> QED
    BY <2>3, <2>4, <2>5 DEF EmptyStream, TypeOK, net, mutexes
<1>2. MutexInv'
  BY RouterAssumption
  DEF EmptyStream, Goto, Use, net, objects, mutexes, Live, Threads, TypeOK, MutexInv, PoolPC,
      MonitorPC, DisconnectPC, HoldsSockets
<1>3. LifetimeInv'
  BY RouterAssumption
  DEF EmptyStream, Goto, Use, net, objects, mutexes, Live, Threads, TypeOK, MutexInv,
      LifetimeInv, LocalsInv, PoolPC, MonitorPC, DisconnectPC, HoldsSockets, DrainPC
<1>4. LocalsInv'
  BY RouterAssumption
  DEF EmptyStream, Goto, Use, net, objects, mutexes, Live, Threads, TypeOK, MutexInv,
      LifetimeInv, LocalsInv, PoolPC, MonitorPC, DisconnectPC, HoldsSockets, DrainPC
<1>5. NoStrandedData'
  BY RouterAssumption, NothingStranded
  DEF EmptyStream, Goto, Use, net, objects, mutexes, Live, Threads, TypeOK, MutexInv,
      LifetimeInv, LocalsInv, PoolPC, MonitorPC, DisconnectPC, HoldsSockets, DrainPC
<1> QED
  BY <1>1, <1>2, <1>3, <1>4, <1>5

\* The reply to FCMSG_INFO_SERVER.
LEMMA InfoServerStep ==
  ASSUME IInv, InfoServer
  PROVE  IInv'
<1> USE DEF IInv
<1>1. TypeOK'
  BY RouterAssumption, MonitorIsThread, Labels, DeliverType
  DEF InfoServer, Goto, Use, Handles, Reply, NextPacket, Deliver, net, objects, mutexes,
      TypeOK, Message, LocalsInv, DrainPC
<1>2. MutexInv'
  BY RouterAssumption
  DEF InfoServer, Goto, Use, Handles, Reply, NextPacket, Deliver, net, objects, mutexes, Live,
      Threads, TypeOK, MutexInv, PoolPC, MonitorPC, DisconnectPC, HoldsSockets
<1>3. LifetimeInv'
  BY RouterAssumption
  DEF InfoServer, Goto, Use, Handles, Reply, NextPacket, Deliver, net, objects, mutexes, Live,
      Threads, TypeOK, MutexInv, LifetimeInv, LocalsInv, PoolPC, MonitorPC, DisconnectPC,
      HoldsSockets, DrainPC
<1>4. LocalsInv'
  BY RouterAssumption
  DEF InfoServer, Goto, Use, Handles, Reply, NextPacket, Deliver, net, objects, mutexes, Live,
      Threads, TypeOK, MutexInv, LifetimeInv, LocalsInv, PoolPC, MonitorPC, DisconnectPC,
      HoldsSockets, DrainPC
<1>5. NoStrandedData'
  BY RouterAssumption, NothingStranded
  DEF InfoServer, Goto, Use, Handles, Reply, NextPacket, Deliver, net, objects, mutexes, Live,
      Threads, TypeOK, MutexInv, LifetimeInv, LocalsInv, PoolPC, MonitorPC, DisconnectPC,
      HoldsSockets, DrainPC
<1> QED
  BY <1>1, <1>2, <1>3, <1>4, <1>5

\* The new entry is one of a connection.
LEMMA RegisterServiceStep ==
  ASSUME IInv, RegisterService
  PROVE  IInv'
<1> USE DEF IInv
<1>1. TypeOK'
  BY RouterAssumption, MonitorIsThread, Labels
  DEF RegisterService, Goto, Handles, net, objects, mutexes, TypeOK, Service, LocalsInv, DrainPC
<1>2. MutexInv'
  BY RouterAssumption
  DEF RegisterService, Goto, Handles, net, objects, mutexes, Live, Threads, TypeOK, MutexInv,
      PoolPC, MonitorPC, DisconnectPC, HoldsSockets
<1>3. LifetimeInv'
  BY RouterAssumption
  DEF RegisterService, Goto, Handles, net, objects, mutexes, Live, Threads, TypeOK, MutexInv,
      LifetimeInv, LocalsInv, PoolPC, MonitorPC, DisconnectPC, HoldsSockets, DrainPC
<1>4. LocalsInv'
  BY RouterAssumption
  DEF RegisterService, Goto, Handles, net, objects, mutexes, Live, Threads, TypeOK, MutexInv,
      LifetimeInv, LocalsInv, PoolPC, MonitorPC, DisconnectPC, HoldsSockets, DrainPC
<1>5. NoStrandedData'
  BY RouterAssumption, NothingStranded
  DEF RegisterService, Goto, Handles, net, objects, mutexes, Live, Threads, TypeOK, MutexInv,
      LifetimeInv, LocalsInv, PoolPC, MonitorPC, DisconnectPC, HoldsSockets, DrainPC
<1> QED
  BY <1>1, <1>2, <1>3, <1>4, <1>5

\* The reply to a registration.
LEMMA SendRegisteredStep ==
  ASSUME IInv, SendRegistered
  PROVE  IInv'
<1> USE DEF IInv
<1>1. TypeOK'
  BY RouterAssumption, MonitorIsThread, Labels, DeliverType
  DEF SendRegistered, Goto, Use, Reply, NextPacket, Deliver, net, objects, mutexes, TypeOK,
      Message, LocalsInv, DrainPC
<1>2. MutexInv'
  BY RouterAssumption
  DEF SendRegistered, Goto, Use, Reply, NextPacket, Deliver, net, objects, mutexes, Live,
      Threads, TypeOK, MutexInv, PoolPC, MonitorPC, DisconnectPC, HoldsSockets
<1>3. LifetimeInv'
  BY RouterAssumption
  DEF SendRegistered, Goto, Use, Reply, NextPacket, Deliver, net, objects, mutexes, Live,
      Threads, TypeOK, MutexInv, LifetimeInv, LocalsInv, PoolPC, MonitorPC, DisconnectPC,
      HoldsSockets, DrainPC
<1>4. LocalsInv'
  BY RouterAssumption
  DEF SendRegistered, Goto, Use, Reply, NextPacket, Deliver, net, objects, mutexes, Live,
      Threads, TypeOK, MutexInv, LifetimeInv, LocalsInv, PoolPC, MonitorPC, DisconnectPC,
      HoldsSockets, DrainPC
<1>5. NoStrandedData'
  BY RouterAssumption, NothingStranded
  DEF SendRegistered, Goto, Use, Reply, NextPacket, Deliver, net, objects, mutexes, Live,
      Threads, TypeOK, MutexInv, LifetimeInv, LocalsInv, PoolPC, MonitorPC, DisconnectPC,
      HoldsSockets, DrainPC
<1> QED
  BY <1>1, <1>2, <1>3, <1>4, <1>5

\* A packet for the router is passed over.
LEMMA IgnorePacketStep ==
  ASSUME IInv, IgnorePacket
  PROVE  IInv'
<1> USE DEF IInv
<1>1. TypeOK'
  BY RouterAssumption, MonitorIsThread, Labels
  DEF IgnorePacket, Goto, Handles, NextPacket, net, objects, mutexes, TypeOK
<1>2. MutexInv'
  BY RouterAssumption
  DEF IgnorePacket, Goto, Handles, NextPacket, net, objects, mutexes, Live, Threads, TypeOK,
      MutexInv, PoolPC, MonitorPC, DisconnectPC, HoldsSockets
<1>3. LifetimeInv'
  BY RouterAssumption
  DEF IgnorePacket, Goto, Handles, NextPacket, net, objects, mutexes, Live, Threads, TypeOK,
      MutexInv, LifetimeInv, LocalsInv, PoolPC, MonitorPC, DisconnectPC, HoldsSockets, DrainPC
<1>4. LocalsInv'
  BY RouterAssumption
  DEF IgnorePacket, Goto, Handles, NextPacket, net, objects, mutexes, Live, Threads, TypeOK,
      MutexInv, LifetimeInv, LocalsInv, PoolPC, MonitorPC, DisconnectPC, HoldsSockets, DrainPC
<1>5. NoStrandedData'
  BY RouterAssumption, NothingStranded
  DEF IgnorePacket, Goto, Handles, NextPacket, net, objects, mutexes, Live, Threads, TypeOK,
      MutexInv, LifetimeInv, LocalsInv, PoolPC, MonitorPC, DisconnectPC, HoldsSockets, DrainPC
<1> QED
  BY <1>1, <1>2, <1>3, <1>4, <1>5

\* The service found is an entry of the list.
LEMMA FindServiceStep ==
  ASSUME IInv, FindService
  PROVE  IInv'
<1> USE DEF IInv
<1>1. TypeOK'
  <2>1. PICK l \in PC : Goto(Monitor, l)
    BY Labels DEF FindService
  <2>2. pc' \in [Threads -> PC]
    BY <2>1 DEF TypeOK, Goto
  <2>3. dest' \in Conns \cup {Nobody}
    <3> DEFINE S == EntriesOfType(pkt[Monitor].target)
    <3>1. CASE S = {}
      BY <3>1 DEF FindService, TypeOK
    <3>2. CASE S # {}
      <4>1. services[First(S)] \in Service
        BY <3>2, FirstOfType DEF TypeOK
      <4> QED
        BY <3>2, <4>1 DEF FindService, Service
    <3> QED
      BY <3>1, <3>2
  <2>4. uaf' \in BOOLEAN
    BY DEF FindService, Use, TypeOK
  <2> QED
    BY <2>2, <2>3, <2>4 DEF FindService, TypeOK, net, objects, mutexes
<1>2. MutexInv'
  <2>1. /\ pc' = [pc EXCEPT ![Monitor] = "client"] \/ pc' = [pc EXCEPT ![Monitor] = "send"]
        /\ pc[Monitor] = "handle" /\ UNCHANGED mutexes
    BY DEF FindService, Goto, Handles
  <2>2. pc \in [Threads -> PC] /\ MutexInv
    BY DEF TypeOK
  <2>3. \A t \in Threads : t # Monitor => pc'[t] = pc[t]
    BY <2>1, <2>2
  <2>4. pc'[Monitor] \in MonitorPC \ (HoldsSockets \cup {"find"})
    BY <2>1, <2>2, MonitorIsThread DEF MonitorPC, HoldsSockets
  <2>5. pc[Monitor] \notin HoldsSockets \cup {"find"}
    BY <2>1 DEF HoldsSockets
  <2> HIDE DEF IInv
  <2> QED
    BY <2>1, <2>2, <2>3, <2>4, <2>5, MonitorIsThread, RouterAssumption
    DEF mutexes, MutexInv, HoldsSockets
<1>3. LifetimeInv'
  BY RouterAssumption
  DEF FindService, Goto, Handles, net, objects, mutexes, Live, Threads, TypeOK, MutexInv,
      LifetimeInv, LocalsInv, PoolPC, MonitorPC, DisconnectPC, HoldsSockets, DrainPC
<1>4. LocalsInv'
  <2>1. \A p \in Pools : pc'[p] = pc[p]
    BY RouterAssumption DEF FindService, Goto, TypeOK, Threads
  <2>2. \/ pc'[Monitor] = "client"
        \/ pc'[Monitor] = "send" /\ dest' \in Conns
    <3> DEFINE S == EntriesOfType(pkt[Monitor].target)
    <3>1. CASE S = {}
      BY <3>1, MonitorIsThread DEF FindService, Goto, TypeOK
    <3>2. CASE S # {}
      <4>1. services[First(S)] \in Service
        BY <3>2, FirstOfType DEF TypeOK
      <4> QED
        BY <3>2, <4>1, MonitorIsThread DEF FindService, Goto, TypeOK, Service
    <3> QED
      BY <3>1, <3>2
  <2>3. cur' = cur /\ pkt' = pkt /\ peer' = peer /\ pc[Monitor] = "handle"
    BY DEF FindService, Handles, net
  <2> QED
    BY <2>1, <2>2, <2>3 DEF LocalsInv, DrainPC
<1>5. NoStrandedData'
  BY RouterAssumption, NothingStranded
  DEF FindService, Goto, Handles, net, objects, mutexes, Live, Threads, TypeOK, MutexInv,
      LifetimeInv, LocalsInv, PoolPC, MonitorPC, DisconnectPC, HoldsSockets, DrainPC
<1> QED
  BY <1>1, <1>2, <1>3, <1>4, <1>5

\* The client found is in m_mapSockets.
LEMMA FindClientStep ==
  ASSUME IInv, FindClient
  PROVE  IInv'
<1> USE DEF IInv
<1>1. TypeOK'
  <2>1. PICK l \in PC : Goto(Monitor, l)
    BY Labels DEF FindClient, NextPacket
  <2>2. pc' \in [Threads -> PC]
    BY <2>1 DEF TypeOK, Goto
  <2>3. pkt' \in [Threads -> Packets \cup {Nobody}]
    BY DEF FindClient, TypeOK, NextPacket
  <2>4. dest' \in Conns \cup {Nobody}
    BY DEF FindClient, TypeOK
  <2> QED
    BY <2>2, <2>3, <2>4 DEF FindClient, TypeOK, net, objects, mutexes
<1>2. MutexInv'
  <2>1. /\ pc' = [pc EXCEPT ![Monitor] = "extract"] \/ pc' = [pc EXCEPT ![Monitor] = "send"]
        /\ pc[Monitor] = "client" /\ UNCHANGED mutexes
    BY DEF FindClient, Goto, NextPacket
  <2>2. pc \in [Threads -> PC] /\ MutexInv
    BY DEF TypeOK
  <2>3. \A t \in Threads : t # Monitor => pc'[t] = pc[t]
    BY <2>1, <2>2
  <2>4. pc'[Monitor] \in MonitorPC \ (HoldsSockets \cup {"find"})
    BY <2>1, <2>2, MonitorIsThread DEF MonitorPC, HoldsSockets
  <2>5. pc[Monitor] \notin HoldsSockets \cup {"find"}
    BY <2>1 DEF HoldsSockets
  <2> HIDE DEF IInv
  <2> QED
    BY <2>1, <2>2, <2>3, <2>4, <2>5, MonitorIsThread, RouterAssumption
    DEF mutexes, MutexInv, HoldsSockets
<1>3. LifetimeInv'
  BY RouterAssumption
  DEF FindClient, Goto, NextPacket, net, objects, mutexes, Live, Threads, TypeOK, MutexInv,
      LifetimeInv, LocalsInv, PoolPC, MonitorPC, DisconnectPC, HoldsSockets, DrainPC
<1>4. LocalsInv'
  <2>1. \A p \in Pools : pc'[p] = pc[p] /\ pkt'[p] = pkt[p]
    BY RouterAssumption DEF FindClient, Goto, NextPacket, TypeOK, Threads
  <2>2. \/ pc'[Monitor] = "extract"
        \/ pc'[Monitor] = "send" /\ dest' \in Conns /\ pkt' = pkt
    BY MonitorIsThread DEF FindClient, Goto, NextPacket, TypeOK
  <2>3. cur' = cur /\ peer' = peer /\ pc[Monitor] = "client"
    BY DEF FindClient, net
  <2> QED
    BY <2>1, <2>2, <2>3 DEF LocalsInv, DrainPC
<1>5. NoStrandedData'
  BY RouterAssumption, NothingStranded
  DEF FindClient, Goto, NextPacket, net, objects, mutexes, Live, Threads, TypeOK, MutexInv,
      LifetimeInv, LocalsInv, PoolPC, MonitorPC, DisconnectPC, HoldsSockets, DrainPC
<1> QED
  BY <1>1, <1>2, <1>3, <1>4, <1>5

\* Sending touches the histories alone.
LEMMA SendPacketStep ==
  ASSUME IInv, SendPacket
  PROVE  IInv'
<1> USE DEF IInv
<1>1. TypeOK'
  BY RouterAssumption, MonitorIsThread, Labels, DeliverType
  DEF SendPacket, Goto, Use, NextPacket, Deliver, net, objects, mutexes, TypeOK, Message,
      LocalsInv, DrainPC
<1>2. MutexInv'
  BY RouterAssumption
  DEF SendPacket, Goto, NextPacket, Deliver, net, objects, mutexes, Live, Threads, TypeOK,
      MutexInv, PoolPC, MonitorPC, DisconnectPC, HoldsSockets
<1>3. LifetimeInv'
  BY RouterAssumption
  DEF SendPacket, Goto, NextPacket, Deliver, net, objects, mutexes, Live, Threads, TypeOK,
      MutexInv, LifetimeInv, LocalsInv, PoolPC, MonitorPC, DisconnectPC, HoldsSockets, DrainPC
<1>4. LocalsInv'
  BY RouterAssumption
  DEF SendPacket, Goto, NextPacket, Deliver, net, objects, mutexes, Live, Threads, TypeOK,
      MutexInv, LifetimeInv, LocalsInv, PoolPC, MonitorPC, DisconnectPC, HoldsSockets, DrainPC
<1>5. NoStrandedData'
  BY RouterAssumption, NothingStranded
  DEF SendPacket, Goto, NextPacket, Deliver, net, objects, mutexes, Live, Threads, TypeOK,
      MutexInv, LifetimeInv, LocalsInv, PoolPC, MonitorPC, DisconnectPC, HoldsSockets, DrainPC
<1> QED
  BY <1>1, <1>2, <1>3, <1>4, <1>5

\* Unlock() writes m_bLocked alone.
LEMMA UnlockSocketStep ==
  ASSUME IInv, UnlockSocket
  PROVE  IInv'
<1> USE DEF IInv
<1>1. TypeOK'
  BY RouterAssumption, MonitorIsThread, Labels, HeapWrite
  DEF UnlockSocket, Goto, SetLocked, Use, net, objects, mutexes, TypeOK, LocalsInv, DrainPC
<1>2. MutexInv'
  BY RouterAssumption
  DEF UnlockSocket, Goto, SetLocked, Use, net, objects, mutexes, Live, Threads, TypeOK,
      MutexInv, PoolPC, MonitorPC, DisconnectPC, HoldsSockets
<1>3. LifetimeInv'
  BY RouterAssumption
  DEF UnlockSocket, Goto, SetLocked, Use, net, objects, mutexes, Live, Threads, TypeOK,
      MutexInv, LifetimeInv, LocalsInv, PoolPC, MonitorPC, DisconnectPC, HoldsSockets, DrainPC
<1>4. LocalsInv'
  BY RouterAssumption
  DEF UnlockSocket, Goto, SetLocked, Use, net, objects, mutexes, Live, Threads, TypeOK,
      MutexInv, LifetimeInv, LocalsInv, PoolPC, MonitorPC, DisconnectPC, HoldsSockets, DrainPC
<1>5. NoStrandedData'
  BY RouterAssumption, NothingStranded
  DEF UnlockSocket, Goto, SetLocked, Use, net, objects, mutexes, Live, Threads, TypeOK,
      MutexInv, LifetimeInv, LocalsInv, PoolPC, MonitorPC, DisconnectPC, HoldsSockets, DrainPC
<1> QED
  BY <1>1, <1>2, <1>3, <1>4, <1>5

\* Whatever IsDead() reads of a freed object, the monitor's next call of OnDisconnect
\* is about a closed connection: its own m_bIsDead was set by OnDisconnect, and only a
\* closed connection is freed.
LEMMA TestDeadStep ==
  ASSUME IInv, TestDead
  PROVE  IInv'
<1> USE DEF IInv
<1>1. TypeOK'
  <2>1. PICK l \in PC : Goto(Monitor, l)
    BY Labels DEF TestDead, Return
  <2>2. pc' \in [Threads -> PC]
    BY <2>1 DEF TypeOK, Goto
  <2>3. cur' \in [Threads -> Conns \cup {Nobody}]
    BY DEF TestDead, TypeOK, Return
  <2>4. uaf' \in BOOLEAN
    BY DEF TestDead, TypeOK, Use
  <2> QED
    BY <2>2, <2>3, <2>4 DEF TestDead, TypeOK, net, objects, mutexes
<1>2. MutexInv'
  BY RouterAssumption, ZenonT(30)
  DEF TestDead, Goto, Return, Use, net, objects, mutexes, Live, Threads, TypeOK, MutexInv,
      PoolPC, MonitorPC, DisconnectPC, HoldsSockets
<1>3. LifetimeInv'
  BY RouterAssumption
  DEF TestDead, Goto, Return, Use, net, objects, mutexes, Live, Threads, TypeOK, MutexInv,
      LifetimeInv, LocalsInv, PoolPC, MonitorPC, DisconnectPC, HoldsSockets, DrainPC
<1>4. LocalsInv'
  BY RouterAssumption
  DEF TestDead, Goto, Return, Use, net, objects, mutexes, Live, Threads, TypeOK, MutexInv,
      LifetimeInv, LocalsInv, PoolPC, MonitorPC, DisconnectPC, HoldsSockets, DrainPC
<1>5. NoStrandedData'
  BY RouterAssumption, NothingStranded
  DEF TestDead, Goto, Return, Use, net, objects, mutexes, Live, Threads, TypeOK, MutexInv,
      LifetimeInv, LocalsInv, PoolPC, MonitorPC, DisconnectPC, HoldsSockets, DrainPC
<1> QED
  BY <1>1, <1>2, <1>3, <1>4, <1>5
-----------------------------------------------------------------------------
\* Before the first connection nothing is allocated, held or queued.
LEMMA InitInv == Init => IInv
<1> SUFFICES ASSUME Init PROVE IInv
  OBVIOUS
<1>1. TypeOK
  <2>1. heap \in [Conns -> ClientSocket]
    <3>1. <<>> \in Seq(Packets)
      OBVIOUS
    <3> QED
      BY <3>1 DEF Init, ClientSocket
  <2>2. out \in [Conns -> Seq(Message)] /\ services \in Seq(Service) /\ queue \in Seq(Conns)
    BY DEF Init
  <2>3. peer \in [Conns -> {"absent", "open", "closed"}] /\ received \in [Conns -> 0 .. MaxSend]
    BY RouterAssumption DEF Init
  <2>4. pc \in [Threads -> PC]
    BY Labels DEF Init
  <2>5. cur \in [Threads -> Conns \cup {Nobody}] /\ pkt \in [Threads -> Packets \cup {Nobody}]
    BY DEF Init
  <2>6. sockets \subseteq Conns /\ dest \in Conns \cup {Nobody} /\ next \in Nat \ {0}
    BY DEF Init
  <2>7. /\ mutexSockets \in Threads \cup {Nobody}
        /\ mutexQueue \in Threads \cup {Nobody}
        /\ mutexServices \in Threads \cup {Nobody}
    BY DEF Init
  <2>8. uaf \in BOOLEAN
    BY DEF Init
  <2> QED
    BY <2>1, <2>2, <2>3, <2>4, <2>5, <2>6, <2>7, <2>8 DEF TypeOK
<1>2. MutexInv
  BY RouterAssumption DEF Init, MutexInv, Threads, PoolPC, MonitorPC, DisconnectPC, HoldsSockets
<1>3. LifetimeInv
  BY DEF Init, LifetimeInv, Live, DisconnectPC, HoldsSockets
<1>4. LocalsInv
  BY RouterAssumption DEF Init, LocalsInv, Threads, DrainPC
<1>5. NoStrandedData
  BY DEF Init, NoStrandedData, Live
<1> QED
  BY <1>1, <1>2, <1>3, <1>4, <1>5 DEF IInv

\* A step that changes nothing, or only what the invariant does not mention.
LEMMA StutterInv == IInv /\ UNCHANGED vars => IInv'
BY DEF IInv, vars, net, objects, mutexes, TypeOK, MutexInv, LifetimeInv, LocalsInv,
       NoStrandedData, Live, Queued

\* OnDisconnect, by whichever thread runs it.
LEMMA OnDisconnectInv ==
  ASSUME IInv, NEW t \in Threads, OnDisconnect(t)
  PROVE  IInv'
BY DisconnectStep, MarkDeadStep, UnregisterStep, NotifyStep, NotifyNextStep,
   NotifyDoneStep, EraseStep DEF OnDisconnect

\* HandlePacket.
LEMMA HandlePacketInv == IInv /\ HandlePacket => IInv'
BY InfoServerStep, RegisterServiceStep, SendRegisteredStep, IgnorePacketStep,
   FindServiceStep, FindClientStep, SendPacketStep DEF HandlePacket

\* thrdSocketMonitor.
LEMMA MonitorInv == IInv /\ MonitorStep => IInv'
BY CheckStep, WaitStep, LockQueueStep, PopQueueStep, LockSocketStep, ExtractStep,
   DeletePacketStep, EmptyStreamStep, HandlePacketInv, UnlockSocketStep, TestDeadStep,
   OnDisconnectInv, MonitorIsThread DEF MonitorStep

\* Every step of the router preserves the invariant.
LEMMA NextInv == IInv /\ [Next]_vars => IInv'
<1> SUFFICES ASSUME IInv, [Next]_vars PROVE IInv'
  OBVIOUS
<1>1. CASE \E c \in Conns : Connect(c)
  BY <1>1, ConnectStep
<1>2. CASE \E p \in Pools, c \in Conns, k \in Packets : Receive(p, c, k)
  BY <1>2, ReceiveStep
<1>3. CASE \E p \in Pools, c \in Conns : Close(p, c)
  BY <1>3, CloseStep
<1>4. CASE \E p \in Pools : PoolStep(p)
  BY <1>4, AddDataStep, QueueSocketStep, OnDisconnectInv, MonitorIsThread DEF PoolStep
<1>5. CASE MonitorStep
  BY <1>5, MonitorInv
<1>6. CASE SpuriousWakeup
  BY <1>6, SpuriousWakeupStep
<1>7. CASE UNCHANGED vars
  BY <1>7, StutterInv
<1> QED
  BY <1>1, <1>2, <1>3, <1>4, <1>5, <1>6, <1>7 DEF Next

\* The invariant holds in every reachable state, for any number of
\* connections, pool threads, service types and packets.
THEOREM Invariance == Spec => []IInv
<1>1. Init => IInv
  BY InitInv
<1>2. IInv /\ [Next]_vars => IInv'
  BY NextInv
<1> QED
  BY <1>1, <1>2, PTL DEF Spec

-----------------------------------------------------------------------------
\* Every variable of the router keeps its type; in particular a mutex is
\* only ever owned by a thread or free, and the queue and the list of
\* services only hold connections.
THEOREM TypeCorrect == Spec => []TypeOK
<1>1. IInv => TypeOK
  BY DEF IInv
<1> QED
  BY <1>1, Invariance, PTL

\* m_mapSockets and the heap agree, and no connection whose peer is still
\* there is torn down by OnDisconnect, whichever thread runs it and
\* whatever the monitor read from a freed ClientSocket.
THEOREM OpenPeerSafe == Spec => []OpenPeerKeepsItsSocket
<1>1. IInv => OpenPeerKeepsItsSocket
  BY DEF IInv, LifetimeInv, OpenPeerKeepsItsSocket
<1> QED
  BY <1>1, Invariance, PTL

\* The pointer OnDataReceived takes from m_mapSockets without a mutex never
\* dangles in AddData or in the push to m_arrQueuedData.
THEOREM PoolPointersSafe == Spec => []PoolPointersAreLive
<1>1. IInv => PoolPointersAreLive
  BY DEF IInv, LifetimeInv, LocalsInv, PoolPointersAreLive
<1> QED
  BY <1>1, Invariance, PTL

\* Data that OnDataReceived added to a stream is always in the care of the
\* queue, of the pool thread about to queue it, or of the monitor.
THEOREM DataNotStranded == Spec => []NoStrandedData
<1>1. IInv => NoStrandedData
  BY DEF IInv
<1> QED
  BY <1>1, Invariance, PTL

\* The invariant orders the waits: the owner of m_mutexQueuedData waits for
\* m_mutexSockets at most; the owner of m_mutexSockets waits for nobody,
\* because a thread that keeps m_mutexServices owns m_mutexSockets too.
LEMMA WaitsAreOrdered == IInv => NoCircularWait
<1> SUFFICES ASSUME IInv, NEW t \in Threads
             PROVE  Blocker(Blocker(Blocker(t))) = Nobody
  BY DEF NoCircularWait
<1> USE DEF IInv
<1>1. Blocker(Nobody) = Nobody
  BY DEF Blocker
<1>2. ASSUME NEW u \in Threads
      PROVE  Blocker(u) \in {mutexQueue, mutexSockets, mutexServices, Nobody}
  BY DEF Blocker
<1>3. mutexServices # Nobody => Blocker(mutexServices) = Nobody
  BY RouterAssumption DEF Blocker, MutexInv, TypeOK
<1>4. mutexSockets # Nobody => Blocker(mutexSockets) = Nobody
  <2>1. mutexServices # Nobody => mutexServices = mutexSockets
    BY DEF MutexInv, TypeOK, HoldsSockets
  <2> QED
    BY <2>1, RouterAssumption DEF Blocker, MutexInv, TypeOK, HoldsSockets
<1>5. mutexQueue # Nobody => Blocker(mutexQueue) = mutexSockets
  BY RouterAssumption DEF Blocker, MutexInv, TypeOK
<1>6. ASSUME NEW u \in Threads, Blocker(u) = mutexQueue
      PROVE  Blocker(Blocker(Blocker(u))) = Nobody
  <2>1. CASE mutexQueue = Nobody
    BY <1>1, <1>6, <2>1
  <2>2. CASE mutexQueue # Nobody
    <3>1. Blocker(Blocker(u)) = mutexSockets
      BY <1>5, <1>6, <2>2
    <3>2. mutexQueue = Monitor /\ pc[Monitor] = "find"
      BY <2>2 DEF MutexInv, TypeOK
    <3> QED
      BY <3>1, <3>2, <1>1, <1>4
  <2> QED
    BY <2>1, <2>2
<1> QED
  BY <1>1, <1>2, <1>3, <1>4, <1>6

\* The router's threads never wait for each other's mutexes in a circle.
THEOREM DeadlockFree == Spec => []NoCircularWait
  BY WaitsAreOrdered, Invariance, PTL

-----------------------------------------------------------------------------
\* The entries of s that were told of the disconnect being announced.
Before(s) == {i \in EntriesOf(s) : i < next}

\* Nobody has begun to announce that c is gone.
Untold(c) ==
  /\ heap[c].mem # "freed"
  /\ \A t \in Threads : pc[t] \in {"notifying", "erase"} => cur[t] # c

\* Of a connection nobody announces there is no notice; of the one that is
\* being announced a service has a notice per entry that was passed, at most.
NoticeInv ==
  /\ \A s \in Conns : heap[s].mem = "none" => out[s] = <<>>
  /\ \A s, c \in Conns : Untold(c) => Notices(s, c) = 0
  /\ \A s \in Conns, t \in Threads :
       pc[t] = "notifying" /\ Live(s) => Notices(s, cur[t]) <= Cardinality(Before(s))

\* The sets that are counted are finite.
LEMMA EntriesFinite ==
  ASSUME NEW q \in Seq(Service), NEW s, NEW n
  PROVE  LET E == {i \in DOMAIN q : q[i].socket = s}
             B == {i \in E : i < n}
         IN IsFiniteSet(E) /\ IsFiniteSet(B) /\ Cardinality(E) \in Nat /\ Cardinality(B) \in Nat
<1> DEFINE E == {i \in DOMAIN q : q[i].socket = s}
           B == {i \in E : i < n}
<1>1. DOMAIN q = 1..Len(q) /\ Len(q) \in Nat
  OBVIOUS
<1>2. IsFiniteSet(DOMAIN q) /\ E \in SUBSET (DOMAIN q) /\ B \in SUBSET (DOMAIN q)
  BY <1>1, FS_Interval
<1>3. IsFiniteSet(E) /\ IsFiniteSet(B)
  BY <1>2, FS_Subset
<1> QED BY <1>3, FS_CardinalityType

LEMMA NoticeTypes ==
  ASSUME TypeOK, NEW s \in Conns
  PROVE  /\ \A c : Notices(s, c) \in Nat
         /\ IsFiniteSet(EntriesOf(s)) /\ IsFiniteSet(Before(s))
         /\ Cardinality(EntriesOf(s)) \in Nat /\ Cardinality(Before(s)) \in Nat
<1>1. ASSUME NEW c PROVE Notices(s, c) \in Nat
  <2> DEFINE T == {i \in DOMAIN out[s] : out[s][i] = Gone(c)}
  <2>1. out[s] \in Seq(Message)
    BY DEF TypeOK
  <2>2. DOMAIN out[s] = 1..Len(out[s]) /\ Len(out[s]) \in Nat
    BY <2>1
  <2>3. IsFiniteSet(DOMAIN out[s]) /\ T \in SUBSET (DOMAIN out[s])
    BY <2>2, FS_Interval
  <2>4. IsFiniteSet(T)
    BY <2>3, FS_Subset
  <2> QED BY <2>4, FS_CardinalityType DEF Notices
<1>2. services \in Seq(Service)
  BY DEF TypeOK
<1> QED BY <1>1, <1>2, EntriesFinite DEF EntriesOf, Before

\* What a Send adds to the notices.
LEMMA SendCounts ==
  ASSUME TypeOK, NEW d \in Conns, NEW m \in Message, out' = Deliver(d, m),
         NEW s \in Conns, NEW c \in Conns
  PROVE  Notices(s, c)' = IF Live(d) /\ s = d /\ m = Gone(c)
                          THEN Notices(s, c) + 1 ELSE Notices(s, c)
<1>1. CASE ~(Live(d) /\ s = d)
  <2>1. out'[s] = out[s]
    BY <1>1 DEF Deliver, TypeOK
  <2> QED BY <1>1, <2>1 DEF Notices
<1>2. CASE Live(d) /\ s = d
  <2> DEFINE q == out[s]
             n == Len(q) + 1
             T == {i \in DOMAIN q : q[i] = Gone(c)}
             U == {i \in DOMAIN out'[s] : out'[s][i] = Gone(c)}
  <2>1. q \in Seq(Message) /\ out'[s] = Append(q, m)
    BY <1>2 DEF Deliver, TypeOK
  <2>2. /\ DOMAIN q = 1..Len(q) /\ Len(q) \in Nat /\ DOMAIN out'[s] = 1..n
        /\ \A i \in DOMAIN q : out'[s][i] = q[i]
        /\ out'[s][n] = m
    BY <2>1
  <2>3. n \notin T /\ U = IF m = Gone(c) THEN T \cup {n} ELSE T
    BY <2>2
  <2>4. IsFiniteSet(DOMAIN q) /\ T \in SUBSET (DOMAIN q)
    BY <2>2, FS_Interval
  <2>5. IsFiniteSet(T)
    BY <2>4, FS_Subset
  <2>6. Cardinality(T \cup {n}) = Cardinality(T) + 1
    BY <2>3, <2>5, FS_AddElement
  <2>7. Notices(s, c) = Cardinality(T) /\ Notices(s, c)' = Cardinality(U)
    BY DEF Notices
  <2> QED BY <1>2, <2>3, <2>6, <2>7
<1> QED BY <1>1, <1>2

\* A step that makes no object and begins no announcement.
Quiet ==
  /\ \A s \in Conns : /\ heap'[s].mem = "none" => heap[s].mem = "none"
                      /\ heap'[s].mem = "live" => heap[s].mem = "live"
                      /\ heap[s].mem = "freed" => heap'[s].mem = "freed"
  /\ \A t \in Threads : pc[t] \in {"notifying", "erase"} =>
       \/ pc'[t] \in {"notifying", "erase"} /\ cur'[t] = cur[t]
       \/ heap'[cur[t]].mem = "freed"
  /\ \A t \in Threads : pc'[t] = "notifying" =>
       pc[t] = "notifying" /\ cur'[t] = cur[t] /\ next' = next /\ services' = services

LEMMA NoticeKept ==
  ASSUME IInv, NoticeInv,
         \A s, c \in Conns : Notices(s, c)' = Notices(s, c),
         \A s \in Conns : heap[s].mem = "none" => out'[s] = out[s], Quiet
  PROVE  NoticeInv'
<1>1. \A s \in Conns : (heap[s].mem = "none" => out[s] = <<>>)'
  BY DEF NoticeInv, Quiet
<1>2. ASSUME NEW s \in Conns, NEW c \in Conns, Untold(c)'
      PROVE  Notices(s, c)' = 0
  <2>1. Untold(c)
    BY <1>2 DEF Untold, Quiet
  <2> QED BY <2>1 DEF NoticeInv
<1>3. ASSUME NEW s \in Conns, NEW t \in Threads, pc'[t] = "notifying", Live(s)'
      PROVE  (Notices(s, cur[t]) <= Cardinality(Before(s)))'
  <2>1. pc[t] = "notifying" /\ Live(s) /\ Before(s)' = Before(s)
    BY <1>3 DEF Live, Before, EntriesOf, Quiet
  <2>2. PICK c \in Conns : c = cur[t] /\ c = cur'[t]
    BY <1>3, <2>1, DisconnectSocket DEF DisconnectPC, Quiet
  <2>3. Notices(s, c) <= Cardinality(Before(s))
    BY <2>1, <2>2 DEF NoticeInv
  <2> QED BY <2>1, <2>2, <2>3
<1> QED BY <1>1, <1>2, <1>3 DEF NoticeInv

\* A thread announces alone: it holds m_mutexSockets.
LEMMA OneAnnounces ==
  ASSUME IInv, NEW t \in Threads, NEW u \in Threads,
         pc[t] \in HoldsSockets, pc[u] \in HoldsSockets
  PROVE  t = u
BY DEF IInv, MutexInv

LEMMA OutSame ==
  ASSUME out' = out
  PROVE  \A s, c : Notices(s, c)' = Notices(s, c)
BY DEF Notices

\* OnConnect: a new object had no notices, and its entries were those of an
\* object that is gone.
LEMMA ConnectNotices ==
  ASSUME IInv, NoticeInv, NEW c \in Conns, Connect(c)
  PROVE  NoticeInv'
<1>0. services' \in Seq(Service)
  BY ConnectStep DEF IInv, TypeOK
<1>1. PICK d \in Conns : (d = c \/ heap[d].mem = "freed") /\ Repoint(d, c)
  BY DEF Connect
<1>2. /\ heap[c].mem = "none" /\ heap' = [heap EXCEPT ![c].mem = "live"]
      /\ UNCHANGED <<pc, next, out>> /\ heap \in [Conns -> ClientSocket]
  BY DEF Connect, IInv, LifetimeInv, TypeOK
<1>3. /\ heap'[c].mem = "live"
      /\ \A s \in Conns \ {c} : heap'[s] = heap[s]
  BY <1>2 DEF ClientSocket
<1>4. \A t \in Threads : pc[t] \in {"notifying", "erase"} => cur'[t] = cur[t]
  BY <1>1 DEF Repoint, PointerPC, DrainPC
<1>5. \A s \in Conns : (heap[s].mem = "none" => out[s] = <<>>)'
  BY <1>2, <1>3 DEF NoticeInv
<1>6. ASSUME NEW s \in Conns, NEW x \in Conns, Untold(x)'
      PROVE  Notices(s, x)' = 0
  <2>1. Untold(x)
    BY <1>2, <1>3, <1>4, <1>6 DEF Untold
  <2> QED BY <1>2, <2>1, OutSame DEF NoticeInv
<1>7. ASSUME NEW s \in Conns, NEW t \in Threads, pc'[t] = "notifying", Live(s)'
      PROVE  (Notices(s, cur[t]) <= Cardinality(Before(s)))'
  <2>1. PICK x \in Conns : x = cur[t] /\ x = cur'[t]
    BY <1>2, <1>4, <1>7, DisconnectSocket DEF DisconnectPC
  <2>2. CASE s = c
    <3>1. Notices(s, x) = 0
      <4>1. out[s] = <<>>
        BY <1>2, <2>2 DEF NoticeInv
      <4>2. {i \in DOMAIN out[s] : out[s][i] = Gone(x)} = {}
        BY <4>1
      <4> QED BY <4>2, FS_EmptySet DEF Notices
    <3>2. Cardinality(Before(s))' \in Nat
      BY <1>0, EntriesFinite DEF Before, EntriesOf
    <3> QED BY <1>2, <2>1, <3>1, <3>2, OutSame
  <2>3. CASE s # c
    <3>1. Live(s) /\ s # d
      BY <1>1, <1>2, <1>3, <1>7, <2>3 DEF Live
    <3>2. /\ DOMAIN services' = DOMAIN services
          /\ \A i \in DOMAIN services :
               services'[i].socket = IF services[i].socket = d THEN c ELSE services[i].socket
      <4>1. \A i \in DOMAIN services : services[i] \in Service
        BY DEF IInv, TypeOK
      <4> QED BY <1>1, <4>1 DEF Repoint, Service
    <3>3. Before(s)' = Before(s)
      BY <1>2, <2>3, <3>1, <3>2 DEF Before, EntriesOf
    <3>4. Notices(s, x) <= Cardinality(Before(s))
      BY <1>2, <1>7, <2>1, <3>1 DEF NoticeInv
    <3> QED BY <1>2, <2>1, <3>3, <3>4, OutSame
  <2> QED BY <2>2, <2>3
<1> QED BY <1>5, <1>6, <1>7 DEF NoticeInv

\* NotifyServicesOfClientDisconnect begins before any notice was sent.
LEMMA NotifyNotices ==
  ASSUME IInv, NoticeInv, NEW t \in Threads, Notify(t)
  PROVE  NoticeInv'
<1>0. services' \in Seq(Service)
  BY NotifyStep DEF IInv, TypeOK
<1>1. /\ pc[t] = "notify" /\ pc' = [pc EXCEPT ![t] = "notifying"]
      /\ UNCHANGED <<heap, services, cur, out>> /\ pc \in [Threads -> PC]
  BY DEF Notify, Goto, objects, IInv, TypeOK
<1>2. \A s, c \in Conns : Notices(s, c)' = Notices(s, c)
  BY <1>1, OutSame
<1>3. PICK c \in Conns : c = cur[t] /\ heap[c].mem = "live"
  BY <1>1, DisconnectSocket DEF DisconnectPC, HoldsSockets, IInv, LifetimeInv, Live
<1>4. \A u \in Threads : u # t => pc[u] \notin {"notifying", "erase"}
  BY <1>1, OneAnnounces DEF HoldsSockets
<1>5. Untold(c)
  BY <1>1, <1>3, <1>4 DEF Untold
<1>6. \A s \in Conns : (heap[s].mem = "none" => out[s] = <<>>)'
  BY <1>1 DEF NoticeInv
<1>7. ASSUME NEW s \in Conns, NEW x \in Conns, Untold(x)'
      PROVE  Notices(s, x)' = 0
  <2>1. Untold(x)
    BY <1>1, <1>7 DEF Untold
  <2> QED BY <1>2, <2>1 DEF NoticeInv
<1>8. ASSUME NEW s \in Conns, NEW u \in Threads, pc'[u] = "notifying", Live(s)'
      PROVE  (Notices(s, cur[u]) <= Cardinality(Before(s)))'
  <2>1. u = t
    BY <1>1, <1>4, <1>8
  <2>2. Notices(s, c)' = 0
    BY <1>2, <1>5 DEF NoticeInv
  <2>3. Cardinality(Before(s))' \in Nat
    BY <1>0, EntriesFinite DEF Before, EntriesOf
  <2> QED BY <1>1, <1>3, <2>1, <2>2, <2>3
<1> QED BY <1>6, <1>7, <1>8 DEF NoticeInv

\* Sending to the next entry: what changes.
LEMMA NextNotice ==
  ASSUME IInv, NEW t \in Threads, NotifyNext(t)
  PROVE  \E d \in Conns, c \in Conns :
           /\ c = cur[t] /\ d = services[next].socket
           /\ UNCHANGED <<heap, services, pc, cur>> /\ next' = next + 1 /\ next \in EntriesOf(d)
           /\ out' = Deliver(d, Gone(c))
           /\ \A s, x \in Conns : Notices(s, x)' = IF Live(d) /\ s = d /\ x = c
                                                 THEN Notices(s, x) + 1 ELSE Notices(s, x)
           /\ \A s \in Conns : Before(s)' = IF s = d THEN Before(s) \cup {next} ELSE Before(s)
<1>1. PICK c \in Conns : c = cur[t]
  BY DisconnectSocket DEF NotifyNext, DisconnectPC
<1>2. next \in DOMAIN services /\ services[next] \in Service /\ next \in Nat
  BY DEF NotifyNext, IInv, TypeOK
<1>3. PICK d \in Conns : d = services[next].socket
  BY <1>2 DEF Service
<1>4. /\ UNCHANGED <<heap, services, pc, cur>> /\ next' = next + 1
      /\ out' = Deliver(d, Gone(c)) /\ Gone(c) \in Message
  BY <1>1, <1>3 DEF NotifyNext, objects, Gone, Message
<1>5. \A x \in Conns : Gone(c) = Gone(x) <=> x = c
  BY DEF Gone
<1>6. \A s, x \in Conns : Notices(s, x)' = IF Live(d) /\ s = d /\ x = c
                                         THEN Notices(s, x) + 1 ELSE Notices(s, x)
  <2> TAKE s, x \in Conns
  <2>1. Notices(s, x)' = IF Live(d) /\ s = d /\ Gone(c) = Gone(x)
                         THEN Notices(s, x) + 1 ELSE Notices(s, x)
    BY <1>4, SendCounts DEF IInv
  <2> QED BY <1>5, <2>1
<1>7. next \in EntriesOf(d)
  BY <1>2, <1>3 DEF EntriesOf
<1>8. ASSUME NEW s \in Conns
      PROVE  Before(s)' = IF s = d THEN Before(s) \cup {next} ELSE Before(s)
  <2>1. \A i \in EntriesOf(s) : i \in Nat
    BY DEF EntriesOf, IInv, TypeOK
  <2>2. \A i \in EntriesOf(s) : i < next + 1 <=> i < next \/ i = next
    BY <1>2, <2>1
  <2>3. EntriesOf(s)' = EntriesOf(s) /\ (next \in EntriesOf(s) <=> s = d)
    BY <1>2, <1>3, <1>4 DEF EntriesOf
  <2> QED BY <1>4, <2>2, <2>3 DEF Before
<1> QED BY <1>1, <1>3, <1>4, <1>6, <1>7, <1>8

LEMMA NotifyNextNotices ==
  ASSUME IInv, NoticeInv, NEW t \in Threads, NotifyNext(t)
  PROVE  NoticeInv'
<1>1. PICK d \in Conns, c \in Conns :
           /\ c = cur[t] /\ d = services[next].socket
           /\ UNCHANGED <<heap, services, pc, cur>> /\ next' = next + 1 /\ next \in EntriesOf(d)
           /\ out' = Deliver(d, Gone(c))
           /\ \A s, x \in Conns : Notices(s, x)' = IF Live(d) /\ s = d /\ x = c
                                                 THEN Notices(s, x) + 1 ELSE Notices(s, x)
           /\ \A s \in Conns : Before(s)' = IF s = d THEN Before(s) \cup {next} ELSE Before(s)
  BY NextNotice
<1>2. pc[t] = "notifying"
  BY DEF NotifyNext
<1>3. \A s \in Conns : (heap[s].mem = "none" => out[s] = <<>>)'
  BY <1>1 DEF NoticeInv, Deliver, Live, IInv, TypeOK
<1>4. ASSUME NEW s \in Conns, NEW x \in Conns, Untold(x)'
      PROVE  Notices(s, x)' = 0
  <2>1. Untold(x) /\ x # c
    BY <1>1, <1>2, <1>4 DEF Untold
  <2> QED BY <1>1, <2>1 DEF NoticeInv
<1>5. ASSUME NEW s \in Conns, NEW u \in Threads, pc'[u] = "notifying", Live(s)'
      PROVE  (Notices(s, cur[u]) <= Cardinality(Before(s)))'
  <2>1. u = t
    BY <1>1, <1>2, <1>5, OneAnnounces DEF HoldsSockets
  <2>2. Live(s) /\ Notices(s, c) <= Cardinality(Before(s))
    BY <1>1, <1>2, <1>5 DEF NoticeInv, Live
  <2>3. Notices(s, c) \in Nat /\ Cardinality(Before(s)) \in Nat /\ IsFiniteSet(Before(s))
    BY NoticeTypes DEF IInv
  <2>4. Cardinality(Before(s) \cup {next}) = Cardinality(Before(s)) + 1
    <3>1. next \notin Before(s)
      BY DEF Before, IInv, TypeOK
    <3> QED BY <2>3, <3>1, FS_AddElement
  <2>5. Notices(s, c)' <= Cardinality(Before(s)')
    BY <1>1, <2>2, <2>3, <2>4
  <2> QED BY <1>1, <2>1, <2>5
<1> QED BY <1>3, <1>4, <1>5 DEF NoticeInv

\* The notice that is sent is not the last one an entry is worth.
LEMMA NoticeHasEntry ==
  ASSUME IInv, NoticeInv, NEW t \in Threads, NotifyNext(t), NEW s \in Conns, NEW x \in Conns,
         Notices(s, x)' > Notices(s, x)
  PROVE  Notices(s, x) < Cardinality(EntriesOf(s))
<1>1. PICK d \in Conns, c \in Conns :
           /\ c = cur[t] /\ next \in EntriesOf(d)
           /\ Notices(s, x)' = IF Live(d) /\ s = d /\ x = c
                               THEN Notices(s, x) + 1 ELSE Notices(s, x)
  BY NextNotice
<1>2. Notices(s, x) \in Nat /\ IsFiniteSet(EntriesOf(s)) /\ Cardinality(EntriesOf(s)) \in Nat
  BY NoticeTypes DEF IInv
<1>3. Live(s) /\ s = d /\ x = cur[t]
  BY <1>1, <1>2
<1>4. Notices(s, x) <= Cardinality(Before(s))
  BY <1>3 DEF NoticeInv, NotifyNext
<1>5. Before(s) \in SUBSET EntriesOf(s) /\ Before(s) # EntriesOf(s)
  BY <1>1, <1>3 DEF Before, IInv, TypeOK
<1>6. Cardinality(Before(s)) <= Cardinality(EntriesOf(s)) /\ Cardinality(Before(s)) # Cardinality(EntriesOf(s))
  BY <1>2, <1>5, FS_Subset
<1>7. Cardinality(Before(s)) \in Nat
  BY NoticeTypes DEF IInv
<1> QED BY <1>2, <1>4, <1>6, <1>7

\* The steps of OnDisconnect that send nothing.
LEMMA QuietDisconnect ==
  ASSUME IInv, NEW t \in Threads,
         \/ Disconnect(t) \/ MarkDead(t) \/ Unregister(t) \/ NotifyDone(t) \/ Erase(t)
  PROVE  Quiet /\ out' = out
<1> USE DEF net, objects, mutexes, Goto, Return, IInv, TypeOK, ClientSocket, Quiet
<1>1. CASE Disconnect(t)
  BY <1>1 DEF Disconnect
<1>2. CASE MarkDead(t)
  BY <1>2 DEF MarkDead
<1>3. CASE Unregister(t)
  <2>1. \A u \in Threads : pc[u] # "notifying"
    BY <1>3, RouterAssumption DEF Unregister, MutexInv
  <2>2. /\ pc' = [pc EXCEPT ![t] = "notify"] \/ pc' = [pc EXCEPT ![t] = "erase"]
        /\ pc[t] = "unregister" /\ UNCHANGED <<heap, cur, out>>
    BY <1>3 DEF Unregister
  <2> QED BY <2>1, <2>2
<1>4. CASE NotifyDone(t)
  BY <1>4 DEF NotifyDone
<1>5. CASE Erase(t)
  <2>1. cur[t] \in Conns
    BY <1>5, DisconnectSocket DEF Erase, DisconnectPC
  <2> QED BY <1>5, <2>1 DEF Erase
<1> QED BY <1>1, <1>2, <1>3, <1>4, <1>5

\* OnDataReceived.
LEMMA QuietPool ==
  ASSUME IInv, NEW p \in Pools,
         \/ \E c \in Conns, k \in Packets : Receive(p, c, k)
         \/ \E c \in Conns : Close(p, c)
         \/ AddData(p) \/ QueueSocket(p)
  PROVE  Quiet /\ out' = out
<1> USE MonitorIsThread DEF net, objects, mutexes, Goto, IInv, TypeOK, ClientSocket, Quiet
<1>1. ASSUME NEW c \in Conns, NEW k \in Packets, Receive(p, c, k)
      PROVE  Quiet /\ out' = out
  BY <1>1 DEF Receive
<1>2. ASSUME NEW c \in Conns, Close(p, c)
      PROVE  Quiet /\ out' = out
  BY <1>2 DEF Close
<1>3. CASE AddData(p)
  BY <1>3 DEF AddData
<1>4. CASE QueueSocket(p)
  BY <1>4 DEF QueueSocket
<1> QED BY <1>1, <1>2, <1>3, <1>4

\* A write to m_bLocked or to the stream leaves the object where it is.
LEMMA MemKept ==
  ASSUME heap \in [Conns -> ClientSocket], NEW c \in Conns, NEW b, NEW s
  PROVE  /\ \A x \in Conns : [heap EXCEPT ![c].locked = b][x].mem = heap[x].mem
         /\ \A x \in Conns : [heap EXCEPT ![c].stream = s][x].mem = heap[x].mem
BY DEF ClientSocket

\* The monitor, while it sends nothing.
LEMMA QuietMonitor ==
  ASSUME IInv,
         \/ Check \/ Wait \/ SpuriousWakeup \/ LockQueue \/ PopQueue \/ LockSocket \/ Extract
         \/ DeletePacket \/ EmptyStream \/ UnlockSocket \/ TestDead
         \/ RegisterService \/ IgnorePacket \/ FindService \/ FindClient
  PROVE  Quiet /\ out' = out
<1> USE MonitorIsThread DEF net, objects, mutexes, Goto, Return, NextPacket, IInv, TypeOK,
                            ClientSocket, Quiet
<1>1. CASE Check \/ Wait \/ SpuriousWakeup \/ LockQueue
  BY <1>1 DEF Check, Wait, SpuriousWakeup, LockQueue
<1>2. CASE PopQueue
  BY <1>2 DEF PopQueue
<1>3. CASE LockSocket \/ UnlockSocket
  <2>1. pc[Monitor] \in DrainPC \cup {"unlock", "isDead"}
    BY <1>3 DEF LockSocket, UnlockSocket, DrainPC
  <2>2. cur[Monitor] \in Conns
    BY <2>1, MonitorSocket
  <2>3. \A s \in Conns : heap'[s].mem = heap[s].mem
    <3>1. \/ heap' = heap
          \/ \E b \in BOOLEAN : heap' = [heap EXCEPT ![cur[Monitor]].locked = b]
      BY <1>3 DEF LockSocket, UnlockSocket, SetLocked
    <3>2. ASSUME NEW b \in BOOLEAN, heap' = [heap EXCEPT ![cur[Monitor]].locked = b]
          PROVE  \A s \in Conns : heap'[s].mem = heap[s].mem
      <4>1. heap \in [Conns -> ClientSocket]
        BY DEF IInv, TypeOK
      <4> HIDE DEF IInv, TypeOK, ClientSocket
      <4> QED BY <2>2, <3>2, <4>1, MemKept
    <3> QED BY <3>1, <3>2
  <2> QED BY <1>3, <2>3 DEF LockSocket, UnlockSocket
<1>4. CASE Extract
  BY <1>4 DEF Extract
<1>5. CASE DeletePacket \/ EmptyStream
  <2>1. pc[Monitor] \in DrainPC \cup {"unlock", "isDead"}
    BY <1>5 DEF DeletePacket, EmptyStream, DrainPC
  <2>2. cur[Monitor] \in Conns
    BY <2>1, MonitorSocket
  <2>3. \A s \in Conns : heap'[s].mem = heap[s].mem
    <3>1. \/ heap' = heap
          \/ \E q : heap' = [heap EXCEPT ![cur[Monitor]].stream = q]
      BY <1>5 DEF DeletePacket, EmptyStream
    <3>2. ASSUME NEW q, heap' = [heap EXCEPT ![cur[Monitor]].stream = q]
          PROVE  \A s \in Conns : heap'[s].mem = heap[s].mem
      <4>1. heap \in [Conns -> ClientSocket]
        BY DEF IInv, TypeOK
      <4> HIDE DEF IInv, TypeOK, ClientSocket
      <4> QED BY <2>2, <3>2, <4>1, MemKept
    <3> QED BY <3>1, <3>2
  <2>4. /\ pc' = [pc EXCEPT ![Monitor] = "empty"] \/ pc' = [pc EXCEPT ![Monitor] = "handle"]
        /\ pc[Monitor] \in {"delete", "empty"} /\ UNCHANGED <<cur, out, next, services>>
    BY <1>5 DEF DeletePacket, EmptyStream
  <2> QED BY <2>3, <2>4
<1>6. CASE TestDead
  BY <1>6 DEF TestDead
<1>7. CASE RegisterService
  BY <1>7 DEF RegisterService, Handles, MutexInv
<1>8. CASE IgnorePacket
  BY <1>8 DEF IgnorePacket, Handles
<1>9. CASE FindService
  BY <1>9 DEF FindService, Handles
<1>10. CASE FindClient
  BY <1>10 DEF FindClient
<1> QED BY <1>1, <1>2, <1>3, <1>4, <1>5, <1>6, <1>7, <1>8, <1>9, <1>10

\* What the monitor sends for a packet is no notice.
LEMMA PacketNotices ==
  ASSUME IInv, NoticeInv, InfoServer \/ SendRegistered \/ SendPacket
  PROVE  NoticeInv' /\ \A s, c \in Conns : Notices(s, c)' = Notices(s, c)
<1>1. /\ pc[Monitor] \in {"handle", "registered", "send"}
      /\ pc' = [pc EXCEPT ![Monitor] = "extract"] /\ UNCHANGED <<heap, services, cur, next>>
  BY DEF InfoServer, SendRegistered, SendPacket, Handles, Reply, NextPacket, Goto, objects
<1>2. Quiet
  BY <1>1, MonitorIsThread DEF Quiet, IInv, TypeOK
<1>3. cur[Monitor] \in Conns
  BY <1>1, MonitorSocket DEF DrainPC
<1>4. PICK d \in Conns, k \in {"info", "registered", "forward"} :
        out' = Deliver(d, [kind |-> k, about |-> cur[Monitor]])
  BY <1>3 DEF InfoServer, SendRegistered, SendPacket, Reply, IInv, LocalsInv
<1>5. PICK m \in Message : m.kind # "gone" /\ out' = Deliver(d, m)
  BY <1>3, <1>4 DEF Message
<1>6. \A c : m # Gone(c)
  BY <1>5 DEF Gone
<1>7. \A s, c \in Conns : Notices(s, c)' = Notices(s, c)
  BY <1>5, <1>6, SendCounts DEF IInv
<1>8. \A s \in Conns : heap[s].mem = "none" => out'[s] = out[s]
  BY <1>5 DEF Deliver, Live, IInv, TypeOK
<1> QED BY <1>2, <1>7, <1>8, NoticeKept

\* One step: the notices stay in order, and none is one too many.
LEMMA NoticeStep ==
  ASSUME IInv, NoticeInv, [Next]_vars
  PROVE  /\ NoticeInv'
         /\ \A s, c \in Conns : Notices(s, c)' > Notices(s, c) =>
              Notices(s, c) < Cardinality(EntriesOf(s))
<1> DEFINE Same == \A s, c \in Conns : Notices(s, c)' = Notices(s, c)
           Few == \A s, c \in Conns : Notices(s, c)' > Notices(s, c) =>
                    Notices(s, c) < Cardinality(EntriesOf(s))
<1>1. Same => Few
  <2>1. \A s, c \in Conns : Notices(s, c) \in Nat
    BY NoticeTypes DEF IInv
  <2> QED BY <2>1
<1>2. Quiet /\ out' = out => NoticeInv' /\ Same
  BY OutSame, NoticeKept
<1>3. ASSUME NEW t \in Threads, OnDisconnect(t)
      PROVE  NoticeInv' /\ Few
  <2>1. CASE Notify(t)
    <3>1. Same
      BY <2>1, OutSame DEF Notify
    <3> QED BY <1>1, <2>1, <3>1, NotifyNotices
  <2>2. CASE NotifyNext(t)
    BY <2>2, NotifyNextNotices, NoticeHasEntry
  <2> QED BY <1>1, <1>2, <1>3, <2>1, <2>2, QuietDisconnect DEF OnDisconnect
<1>4. ASSUME NEW c \in Conns, Connect(c)
      PROVE  NoticeInv' /\ Few
  <2>1. Same
    BY <1>4, OutSame DEF Connect
  <2> QED BY <1>1, <1>4, <2>1, ConnectNotices
<1>5. ASSUME NEW p \in Pools, \/ \E c \in Conns, k \in Packets : Receive(p, c, k)
                              \/ \E c \in Conns : Close(p, c)
                              \/ PoolStep(p)
      PROVE  NoticeInv' /\ Few
  BY <1>1, <1>2, <1>3, <1>5, QuietPool, MonitorIsThread DEF PoolStep
<1>6. ASSUME HandlePacket PROVE NoticeInv' /\ Few
  BY <1>1, <1>2, <1>6, QuietMonitor, PacketNotices DEF HandlePacket
<1>7. ASSUME MonitorStep \/ SpuriousWakeup PROVE NoticeInv' /\ Few
  BY <1>1, <1>2, <1>3, <1>6, <1>7, QuietMonitor, MonitorIsThread DEF MonitorStep
<1>8. CASE UNCHANGED vars
  <2>1. Quiet /\ out' = out
    BY <1>8 DEF vars, net, objects, mutexes, Quiet
  <2> QED BY <1>1, <1>2, <2>1
<1> QED BY <1>3, <1>4, <1>5, <1>7, <1>8 DEF Next

\* A service never gets more notices of the end of a connection than it has
\* entries in m_arrServices, whichever threads are sent into OnDisconnect,
\* whatever is registered, removed or allocated in between.
THEOREM NoticesNotRepeated == Spec => NoticeIsNotRepeated
<1>1. Init => NoticeInv
  <2> SUFFICES ASSUME Init PROVE NoticeInv
    OBVIOUS
  <2>1. \A s \in Conns : out[s] = <<>>
    BY DEF Init
  <2>2. ASSUME NEW s \in Conns, NEW c \in Conns PROVE Notices(s, c) = 0
    <3>1. {i \in DOMAIN out[s] : out[s][i] = Gone(c)} = {}
      BY <2>1
    <3> QED BY <3>1, FS_EmptySet DEF Notices
  <2>3. \A t \in Threads : pc[t] # "notifying"
    BY DEF Init
  <2> QED BY <2>1, <2>2, <2>3 DEF NoticeInv
<1>2. IInv /\ NoticeInv /\ [Next]_vars => NoticeInv'
  BY NoticeStep
<1>3. IInv /\ NoticeInv /\ [Next]_vars =>
        [\A s, c \in Conns : Notices(s, c)' > Notices(s, c) =>
           Notices(s, c) < Cardinality(EntriesOf(s))]_vars
  BY NoticeStep
<1> QED BY <1>1, <1>2, <1>3, Invariance, PTL DEF Spec, NoticeIsNotRepeated
=============================================================================
