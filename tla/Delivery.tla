------------------------------ MODULE Delivery ------------------------------
(***************************************************************************)
(* A packet on its way from the World or the Chat service to the router.   *)
(* Threads of the service queue it (PacketDispatcher), a worker sends its  *)
(* data block (BaseSocket::Send), the network delivers it in fragments, a  *)
(* pool thread of the router adds them to the connection's stream, and the *)
(* monitor extracts the packets.  A data block is a sequence of units: a   *)
(* head, that of a packet names it, and the data whose length it gives.    *)
(***************************************************************************)
EXTENDS Integers, SequencesExt, TLC

CONSTANTS
  Threads,  \* threads of the service that queue packets
  Packets,
  Program,  \* the packets that each thread queues
  HeadLen,  \* units up to the field "data"
  DataLen,  \* units in the data of each packet
  None

ASSUME DeliveryAssumption ==
  /\ Program \in [Threads -> Seq(Packets)]
  /\ HeadLen \in Nat \ {0} /\ DataLen \in [Packets -> Nat \ {0}]
  /\ None \notin Threads \cup Packets

Lists == Threads  \* a PacketList is named by the thread that created it
Units == Packets \X (1..HeadLen + 1)

VARIABLES
  todo,      \* packets each thread has not queued yet
  tpc,       \* what each thread does next
  list,      \* the list its addSocketToDispatchMap returned
  dispatch,  \* m_mapDispatch, for this socket
  packets,   \* the packets in each list
  wpc,       \* what the worker of each list does next
  rest,      \* what its send loop has not sent
  order,     \* history: the packets in the order in which they were queued
  wire,      \* units under way
  added,     \* the pool thread is between AddData and the queue of sockets
  queue,     \* how often the connection is in m_arrQueuedData
  stream,    \* m_stream of the connection
  mpc,       \* what the monitor does next
  block,     \* the data block of the packet that Extract returned
  handled,   \* the packets given to HandlePacket
  raced      \* a second list was made, or data was added under Extract

service == <<todo, tpc, list, dispatch, packets, wpc, rest, order>>
pool    == <<added, queue>>
monitor == <<mpc, block, handled>>
vars    == <<service, wire, pool, stream, monitor, raced>>

Init ==
  /\ todo = Program
  /\ tpc = [t \in Threads |-> "idle"]
  /\ list = [t \in Threads |-> None]
  /\ dispatch = None
  /\ packets = [l \in Lists |-> <<>>]
  /\ wpc = [l \in Lists |-> "none"] /\ rest = [l \in Lists |-> <<>>]
  /\ order = <<>> /\ wire = <<>>
  /\ added = FALSE /\ queue = 0 /\ stream = <<>>
  /\ mpc = "check" /\ block = <<>> /\ handled = <<>>
  /\ raced = FALSE

\* CreatePacket and SetPacketData.
Block(k) == [i \in 1..HeadLen + DataLen[k] |-> <<k, IF i > HeadLen THEN HeadLen + 1 ELSE i>>]

Drop(s, n) == SubSeq(s, n + 1, Len(s))

-----------------------------------------------------------------------------
(* queuePacket                                                             *)

\* addSocketToDispatchMap looks the socket up, without a lock.
Find(t) ==
  /\ tpc[t] = "idle" /\ todo[t] # <<>>
  /\ list' = [list EXCEPT ![t] = dispatch]
  /\ tpc' = [tpc EXCEPT ![t] = IF dispatch = None THEN "create" ELSE "push"]
  /\ UNCHANGED <<todo, dispatch, packets, wpc, rest, order, wire, pool, stream,
                 monitor, raced>>

\* There is no list for the socket yet: a list and its thread.
Create(t) ==
  /\ tpc[t] = "create"
  /\ list' = [list EXCEPT ![t] = t]
  /\ dispatch' = t
  /\ wpc' = [wpc EXCEPT ![t] = "test"]
  /\ tpc' = [tpc EXCEPT ![t] = "push"]
  /\ raced' = (raced \/ dispatch # None)
  /\ UNCHANGED <<todo, packets, rest, order, wire, pool, stream, monitor>>

\* The list after push_back.
Pushed(t) == Append(packets[list[t]], Head(todo[t]))

Push(t) ==
  /\ tpc[t] = "push"
  /\ packets' = [packets EXCEPT ![list[t]] = Pushed(t)]
  /\ order' = Append(order, Head(todo[t]))
  /\ todo' = [todo EXCEPT ![t] = Tail(@)]
  /\ tpc' = [tpc EXCEPT ![t] = "signal"]
  /\ UNCHANGED <<list, dispatch, wpc, rest, wire, pool, stream, monitor, raced>>

\* The signal is lost unless the worker is in pthread_cond_wait.
Signal(t) ==
  /\ tpc[t] = "signal"
  /\ wpc' = [wpc EXCEPT ![list[t]] = IF @ = "sleep" THEN "test" ELSE @]
  /\ tpc' = [tpc EXCEPT ![t] = "idle"]
  /\ UNCHANGED <<todo, list, dispatch, packets, rest, order, wire, pool, stream,
                 monitor, raced>>

-----------------------------------------------------------------------------
(* thrdPacketDispatcher.  A list has one worker (initialise(1)), so what it *)
(* has counted it finds when it takes a packet.                            *)

Take(l) ==
  /\ wpc[l] = "test" /\ packets[l] # <<>>
  /\ rest' = [rest EXCEPT ![l] = Block(Head(packets[l]))]
  /\ packets' = [packets EXCEPT ![l] = Tail(@)]
  /\ wpc' = [wpc EXCEPT ![l] = "send"]
  /\ UNCHANGED <<todo, tpc, list, dispatch, order, wire, pool, stream, monitor,
                 raced>>

\* BaseSocket::Send: one call of send().
Send(l) ==
  /\ wpc[l] = "send"
  /\ \E n \in 1..Len(rest[l]) :
       /\ wire' = wire \o SubSeq(rest[l], 1, n)
       /\ rest' = [rest EXCEPT ![l] = Drop(@, n)]
       /\ wpc' = [wpc EXCEPT ![l] = IF n = Len(rest[l]) THEN "test" ELSE "send"]
  /\ UNCHANGED <<todo, tpc, list, dispatch, packets, order, pool, stream, monitor,
                 raced>>

\* The list was empty; WaitForSignal comes later.
Leave(l) ==
  /\ wpc[l] = "test" /\ packets[l] = <<>>
  /\ wpc' = [wpc EXCEPT ![l] = "wait"]
  /\ UNCHANGED <<todo, tpc, list, dispatch, packets, rest, order, wire, pool, stream,
                 monitor, raced>>

Wait(l) ==
  /\ wpc[l] = "wait"
  /\ wpc' = [wpc EXCEPT ![l] = "sleep"]
  /\ UNCHANGED <<todo, tpc, list, dispatch, packets, rest, order, wire, pool, stream,
                 monitor, raced>>

-----------------------------------------------------------------------------
(* The pool thread: OnDataReceived of the socket server and of the router  *)

\* recv() and CBinStream::Concat.  The monitor reads the stream in Extract,
\* and compares its length in Delete, without the stream's mutex.
AddData ==
  /\ ~added
  /\ \E n \in 1..Len(wire) :
       /\ stream' = stream \o SubSeq(wire, 1, n)
       /\ wire' = Drop(wire, n)
  /\ added' = TRUE
  /\ raced' = (raced \/ mpc \in {"extract", "empty"})
  /\ UNCHANGED <<service, queue, monitor>>

\* Under m_mutexQueuedData; the signal is lost unless the monitor waits.
QueueSocket ==
  /\ added
  /\ added' = FALSE
  /\ queue' = queue + 1
  /\ mpc' = IF mpc = "sleep" THEN "check" ELSE mpc
  /\ UNCHANGED <<service, wire, stream, block, handled, raced>>

-----------------------------------------------------------------------------
(* thrdSocketMonitor                                                       *)

Goto(l) == mpc' = l

\* Mutant of Check: the queue is not tested.
CheckNot ==
  /\ mpc = "check"
  /\ Goto("pop")
  /\ UNCHANGED <<service, wire, pool, stream, block, handled, raced>>

Check ==
  /\ mpc = "check"
  /\ Goto(IF queue = 0 THEN "wait" ELSE "pop")
  /\ UNCHANGED <<service, wire, pool, stream, block, handled, raced>>

WaitForSignal ==
  /\ mpc = "wait"
  /\ Goto("sleep")
  /\ UNCHANGED <<service, wire, pool, stream, block, handled, raced>>

Pop ==
  /\ mpc = "pop"
  /\ queue' = queue - 1
  /\ Goto("fetch")
  /\ UNCHANGED <<service, wire, added, stream, block, handled, raced>>

\* The arguments of Extract: the stream's data and its length.
Fetch ==
  /\ mpc = "fetch"
  /\ Goto("extract")
  /\ UNCHANGED <<service, wire, pool, stream, block, handled, raced>>

\* Mutant of Complete: the packet that ends the stream is left.
CompleteLess(s) == Len(s) > HeadLen /\ Len(s) > HeadLen + DataLen[s[HeadLen][1]]

\* All fields of the first packet are in the stream; the last unit of the head
\* gives the length of the data.
Complete(s) == Len(s) > HeadLen /\ Len(s) >= HeadLen + DataLen[s[HeadLen][1]]

Extract ==
  /\ mpc = "extract"
  /\ IF Complete(stream)
     THEN /\ block' = SubSeq(stream, 1, HeadLen + DataLen[stream[HeadLen][1]])
          /\ Goto("delete")
     ELSE Goto("check") /\ UNCHANGED block
  /\ UNCHANGED <<service, wire, pool, stream, handled, raced>>

\* Mutant of Deleted: the unit after the packet goes too.
DeletedMore == Drop(stream, Len(block) + 1)

Deleted == Drop(stream, Len(block))

\* CBinStream::Delete: the whole stream is emptied in a second step.
Delete ==
  /\ mpc = "delete"
  /\ IF Len(stream) = Len(block)
     THEN Goto("empty") /\ UNCHANGED stream
     ELSE Goto("handle") /\ stream' = Deleted
  /\ UNCHANGED <<service, wire, pool, block, handled, raced>>

Empty ==
  /\ mpc = "empty"
  /\ stream' = <<>>
  /\ Goto("handle")
  /\ UNCHANGED <<service, wire, pool, block, handled, raced>>

HandlePacket ==
  /\ mpc = "handle"
  /\ handled' = Append(handled, block)
  /\ block' = <<>>
  /\ Goto("fetch")
  /\ UNCHANGED <<service, wire, pool, stream, raced>>

-----------------------------------------------------------------------------
Thread(t) == Find(t) \/ Create(t) \/ Push(t) \/ Signal(t)
Worker(l) == Take(l) \/ Send(l) \/ Leave(l) \/ Wait(l)
Pool      == AddData \/ QueueSocket
Monitor   == \/ Check \/ WaitForSignal \/ Pop \/ Fetch \/ Extract \/ Delete
             \/ Empty \/ HandlePacket

\* What follows a race is undefined (Extract may read freed memory) or lacks
\* the lost data; no property is about it, and the model ends there.
Next ==
  /\ ~raced
  /\ (\E t \in Threads : Thread(t) \/ Worker(t)) \/ Pool \/ Monitor

Spec == Init /\ [][Next]_vars

\* Every thread runs; a service may stop queueing.
FairSpec ==
  /\ Spec
  /\ \A t \in Threads : /\ WF_vars(~raced /\ tpc[t] # "idle" /\ Thread(t))
                       /\ WF_vars(~raced /\ Worker(t))
  /\ WF_vars(~raced /\ Pool) /\ WF_vars(~raced /\ Monitor)

-----------------------------------------------------------------------------
(* Properties *)

\* The type of every variable.
TypeOK ==
  /\ todo \in [Threads -> Seq(Packets)]
  /\ tpc \in [Threads -> {"idle", "create", "push", "signal"}]
  /\ list \in [Threads -> Lists \cup {None}] /\ dispatch \in Lists \cup {None}
  /\ packets \in [Lists -> Seq(Packets)]
  /\ wpc \in [Lists -> {"none", "test", "send", "wait", "sleep"}]
  /\ rest \in [Lists -> Seq(Units)]
  /\ order \in Seq(Packets) /\ wire \in Seq(Units)
  /\ added \in BOOLEAN /\ queue \in Nat /\ stream \in Seq(Units)
  /\ mpc \in {"check", "wait", "sleep", "pop", "fetch", "extract", "delete", "empty",
              "handle"}
  /\ block \in Seq(Units) /\ handled \in Seq(Seq(Units))
  /\ raced \in BOOLEAN

Bytes(s) == [i \in DOMAIN s |-> Block(s[i])]

\* The router handles the packets that were queued, whole and in the order in
\* which they were queued, however the network cuts them and the threads
\* interleave; unless two threads queue the first packet of the socket at the
\* same time, or data arrives while the monitor extracts a packet.
DeliveredInOrder == ~raced => IsPrefix(handled, Bytes(order))

\* A worker, or the monitor, waits for a signal that was given too early.
Overslept ==
  \/ \E l \in Lists : wpc[l] = "sleep" /\ packets[l] # <<>>
  \/ mpc = "sleep" /\ queue > 0

\* With the same exceptions a packet that is queued is handled, and not when
\* the next one comes: it stays behind only if a signal fell between the test
\* of a queue and the wait, and nothing gives another one.
QueuedIsDelivered ==
  \A k \in Packets :
    (\E i \in DOMAIN order : order[i] = k)
      ~> Contains(handled, Block(k)) \/ raced \/ []Overslept
=============================================================================
