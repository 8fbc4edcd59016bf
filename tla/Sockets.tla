------------------------------- MODULE Sockets -------------------------------
(***************************************************************************)
(* BSDSocketServer.  The listener accepts connections and puts each into a *)
(* slot of a pool; every pool has a thread that waits for its descriptors, *)
(* reads them and gives the slots back.  They share the list of pools, the *)
(* slots, the set of descriptors and the number of sockets, without a      *)
(* mutex: the list locks its changes (DataMgr.h), not its reads.  An       *)
(* accepted descriptor is never closed, so no number returns.              *)
(***************************************************************************)
EXTENDS Integers, FiniteSets, SequencesExt

CONSTANTS
  Conns,   \* descriptors, in the order in which they are accepted
  Width,   \* MAX_WAIT_SOCKETS
  Word,    \* the number of values of an FCDWORD
  MaxData  \* bound: packets that the peers send

ASSUME SocketAssumption ==
  /\ IsFiniteSet(Conns) /\ Conns \subseteq Nat \ {0}
  /\ Width \in Nat \ {0} /\ Word \in Nat /\ Word > Width /\ MaxData \in Nat

None  == 0
Slots == 1..Width
Pools == Conns  \* a pool is named by the connection it was made for

VARIABLES
  peer,     \* what each peer did: nothing, connect, close; or its connection was lost
  data,     \* packets that have arrived and were not read
  sent,     \* the number of packets sent, bounded
  closed,   \* how often the sinks were told of a disconnect
  slot,     \* m_sockets of each pool
  fds,      \* m_fdsSockets
  size,     \* m_dwSocketCount
  pools,    \* m_socketPools
  freed,    \* pools that were deleted; a thread whose select() fails is "broken"
  lpc,      \* what the listener does next
  lconn,    \* the connection it has accepted
  lindex,   \* the pool in the list it looks at
  lpool,    \* the pool it adds the connection to
  tpc,      \* what the thread of each pool does next
  ready,    \* the descriptors its select returned
  found,    \* pSocket: the slot its last search ended at
  stale,    \* fds and size as the listener, and each pool thread, read them
  raced,    \* history: two threads were in one pool, or in the list
  crashed   \* a deleted pool was used

peers    == <<peer, data, sent>>
pool     == <<slot, fds, size>>
listener == <<lpc, lconn, lindex, lpool>>
threads  == <<tpc, ready, found>>
vars     == <<peers, closed, pool, pools, freed, listener, threads, stale, raced, crashed>>

Init ==
  /\ peer = [c \in Conns |-> "new"]
  /\ data = [c \in Conns |-> 0] /\ sent = 0
  /\ closed = [c \in Conns |-> 0]
  /\ slot = [p \in Pools |-> [j \in Slots |-> None]]
  /\ fds = [p \in Pools |-> {}] /\ size = [p \in Pools |-> 0]
  /\ pools = <<>> /\ freed = {}
  /\ lpc = "accept" /\ lconn = None /\ lindex = 1 /\ lpool = None
  /\ tpc = [p \in Pools |-> "none"] /\ ready = [p \in Pools |-> {}]
  /\ found = [p \in Pools |-> None]
  /\ stale = [t \in Pools \cup {None} |-> [fds |-> {}, size |-> 0]]
  /\ raced = FALSE /\ crashed = FALSE

Least(S) == CHOOSE c \in S : \A d \in S : c <= d

\* A thread other than that of p is about to take its pool from the list.
Changing(p) == \E q \in Pools \ {p} : tpc[q] = "destroy" /\ size[q] = 0

\* The use of a deleted pool, or of the list's array while another thread
\* replaces it, may bring the process down; or what was there is read.
Touch(bad) == crashed' \in (IF bad THEN BOOLEAN ELSE {FALSE})

-----------------------------------------------------------------------------
(* The peers                                                               *)

Connect(c) ==
  /\ peer[c] = "new" /\ \A d \in Conns : d < c => peer[d] # "new"
  /\ peer' = [peer EXCEPT ![c] = "open"]
  /\ UNCHANGED <<data, sent, closed, pool, pools, freed, listener, threads, stale,
                 raced, crashed>>

Send(c) ==
  /\ peer[c] = "open" /\ sent < MaxData
  /\ sent' = sent + 1
  /\ data' = [data EXCEPT ![c] = @ + 1]
  /\ UNCHANGED <<peer, closed, pool, pools, freed, listener, threads, stale, raced, crashed>>

Close(c) ==
  /\ peer[c] = "open"
  /\ peer' = [peer EXCEPT ![c] = "closed"]
  /\ UNCHANGED <<data, sent, closed, pool, pools, freed, listener, threads, stale,
                 raced, crashed>>

-----------------------------------------------------------------------------
(* The listener                                                            *)

\* The kernel's queue gives out connections in order.
Waiting == {c \in Conns : peer[c] \in {"open", "closed"} /\ (lconn = None \/ c > lconn)}

\* AcceptConnection, with OnConnect.
Accept ==
  /\ lpc = "accept" /\ Waiting # {}
  /\ lconn' = Least(Waiting)
  /\ lindex' = 1
  /\ lpc' = "look"
  /\ UNCHANGED <<peers, closed, pool, pools, freed, lpool, threads, stale, raced, crashed>>

\* accept() returns -1 for a connection that was lost in the queue.
AcceptFails ==
  /\ lpc = "accept" /\ Waiting # {}
  /\ peer' = [peer EXCEPT ![Least(Waiting)] = "lost"]
  /\ UNCHANGED <<data, sent, closed, pool, pools, freed, listener, threads, stale, raced,
                 crashed>>

\* The listener's select() returns -1, and its thread ends.
ListenFails ==
  /\ lpc = "accept"
  /\ lpc' = "ended"
  /\ UNCHANGED <<peers, closed, pool, pools, freed, lconn, lindex, lpool, threads, stale,
                 raced, crashed>>

Free(p) == {j \in Slots : slot[p][j] = None}

Full(p) == size[p] = Width

\* AddConnectionToPool, for one pool of the list: AddSocket takes its first
\* free slot.  A pool that was deleted may look full, or as it was.
LookAt(p) ==
  /\ Touch(p \in freed \/ Changing(None))
  /\ \/ /\ Full(p) \/ Free(p) = {} \/ p \in freed
        /\ lindex' = lindex + 1
        /\ UNCHANGED <<slot, lpool, lpc, stale>>
     \/ /\ ~Full(p) /\ Free(p) # {}
        /\ slot' = [slot EXCEPT ![p][Least(Free(p))] = lconn]
        /\ stale' = [stale EXCEPT ![None] = [fds |-> fds[p], size |-> size[p]]]
        /\ lpool' = p
        /\ lpc' = "count"
        /\ UNCHANGED lindex
  /\ raced' = (raced \/ tpc[p] \in {"remove", "destroy"} \/ Changing(p))
  /\ UNCHANGED <<peers, closed, fds, size, pools, freed, lconn, threads>>

Look == lpc = "look" /\ lindex <= Len(pools) /\ LookAt(pools[lindex])

\* FD_SET and m_dwSocketCount++ read and write the two words; a write of the
\* pool's thread in between may be lost.
Count ==
  /\ lpc = "count"
  /\ Touch(lpool \in freed)
  /\ \E f \in {fds[lpool], stale[None].fds}, n \in {size[lpool], stale[None].size} :
       /\ fds' = [fds EXCEPT ![lpool] = f \cup {lconn}]
       /\ size' = [size EXCEPT ![lpool] = (n + 1) % Word]
  /\ lpool' = None
  /\ lpc' = "accept"
  /\ UNCHANGED <<peers, closed, slot, pools, freed, lconn, lindex, threads, stale, raced>>

\* No pool has a slot: a new one gets the connection and a thread, unless
\* pthread_create() fails, which nobody looks at ...
NewPool ==
  /\ lpc = "look" /\ lindex > Len(pools)
  /\ slot' = [slot EXCEPT ![lconn][1] = lconn]
  /\ fds' = [fds EXCEPT ![lconn] = {lconn}]
  /\ size' = [size EXCEPT ![lconn] = 1]
  /\ \E s \in {"test", "missing"} : tpc' = [tpc EXCEPT ![lconn] = s]
  /\ lpool' = lconn
  /\ lpc' = "list"
  /\ UNCHANGED <<peers, closed, pools, freed, lconn, lindex, ready, found, stale, raced,
                 crashed>>

\* ... and is told its thread and comes into the list when that is running.
List ==
  /\ lpc = "list"
  /\ Touch(lpool \in freed)
  /\ pools' = Append(pools, lpool)
  /\ lpool' = None
  /\ lpc' = "accept"
  /\ UNCHANGED <<peers, closed, pool, freed, lconn, lindex, threads, stale, raced>>

-----------------------------------------------------------------------------
(* The thread of a pool                                                    *)

Readable(c) == data[c] > 0 \/ peer[c] = "closed"

\* The loop's condition; select returns when a descriptor can be read.
Select(p) ==
  /\ tpc[p] = "test" /\ size[p] # 0
  /\ ready' = [ready EXCEPT ![p] = {c \in fds[p] : Readable(c)}]
  /\ ready'[p] # {}
  /\ tpc' = [tpc EXCEPT ![p] = "serve"]
  /\ UNCHANGED <<peers, closed, pool, pools, freed, listener, found, stale, raced, crashed>>

\* select() returns -1: the thread ends and deletes its pool, which has
\* connections and stays in the list.
SelectFails(p) ==
  /\ tpc[p] = "test" /\ size[p] # 0
  /\ freed' = freed \cup {p}
  /\ tpc' = [tpc EXCEPT ![p] = "broken"]
  /\ raced' = (raced \/ lpool = p)
  /\ UNCHANGED <<peers, closed, pool, pools, listener, ready, found, stale, crashed>>

\* Mutant of Matches: every slot is looked at but the last.
MatchesShort(p, c) == {j \in Slots : j < size[p] /\ slot[p][j] = c}

\* The slots are searched up to the number of sockets.
Matches(p, c) == {j \in Slots : j <= size[p] /\ slot[p][j] = c}

\* A search of no slot at all leaves pSocket as the last search left it.
Search(p, c) ==
  IF size[p] = 0 THEN found[p]
  ELSE IF Matches(p, c) = {} THEN None ELSE Least(Matches(p, c))

Rest(p, c) ==
  /\ ready' = [ready EXCEPT ![p] = @ \ {c}]
  /\ tpc' = [tpc EXCEPT ![p] = IF ready[p] = {c} THEN "test" ELSE "serve"]

\* OnDataReceived, with the sinks, for the socket s of a slot.
Receive(s) ==
  /\ s # None /\ data[s] > 0
  /\ data' = [data EXCEPT ![s] = 0]
  /\ UNCHANGED <<closed, stale, raced>>

\* OnClientSocketClosed: the sinks are told first.  The socket of a slot that
\* was given back is 0, which is no connection.
Closed(p, s) ==
  /\ s # None => data[s] = 0 /\ peer[s] = "closed"
  /\ closed' = [c \in Conns |-> IF c = s THEN closed[c] + 1 ELSE closed[c]]
  /\ stale' = [stale EXCEPT ![p] = [fds |-> fds[p], size |-> size[p]]]
  /\ tpc' = [tpc EXCEPT ![p] = "remove"]
  /\ raced' = (raced \/ lpool = p \/ lpc = "look")
  /\ UNCHANGED <<data, ready>>

\* The descriptors of the select, in order.  recv() waits for a socket that
\* has nothing to read.
Serve(p) ==
  /\ tpc[p] = "serve"
  /\ LET c == Least(ready[p])
         j == Search(p, c)
     IN /\ found' = [found EXCEPT ![p] = j]
        /\ \/ j = None /\ Rest(p, c) /\ UNCHANGED <<data, closed, stale, raced>>
           \/ j # None /\ Receive(slot[p][j]) /\ Rest(p, c)
           \/ j # None /\ Closed(p, slot[p][j])
  /\ UNCHANGED <<peer, sent, pool, pools, freed, listener, crashed>>

\* Mutant of Emptied: the slot is not given back.
EmptiedNot(p) == slot

Emptied(p) == [slot EXCEPT ![p][found[p]] = None]

\* RemoveSocket: FD_CLR, the slot, m_dwSocketCount--.
RemoveSocket(p) ==
  /\ tpc[p] = "remove"
  /\ \E f \in {fds[p], stale[p].fds}, n \in {size[p], stale[p].size} :
       /\ fds' = [fds EXCEPT ![p] = f \ {slot[p][found[p]]}]
       /\ size' = [size EXCEPT ![p] = (n - 1) % Word]
  /\ slot' = Emptied(p)
  /\ tpc' = [tpc EXCEPT ![p] = "destroy"]
  /\ raced' = (raced \/ lpool = p \/ lpc = "look")
  /\ UNCHANGED <<peers, closed, pools, freed, listener, ready, found, stale, crashed>>

\* Mutant of Unlisted: the pool stays in the list.
UnlistedNot(p) == pools

\* Mutant of Unlisted: the entry is cleared.
UnlistedBlank(p) == [i \in DOMAIN pools |-> IF pools[i] = p THEN None ELSE pools[i]]

At(p) == {i \in DOMAIN pools : pools[i] = p}

Unlisted(p) == IF At(p) = {} THEN pools ELSE RemoveAt(pools, Least(At(p)))

\* DestroyPool, if the pool is empty.  The index that it finds may be that of
\* another pool when a second thread shortens the list before RemoveAt.
Destroy(p) ==
  /\ tpc[p] = "destroy"
  /\ IF size[p] = 0
     THEN /\ \E q \in {p} \cup (IF Changing(p) THEN Pools ELSE {}) : pools' = Unlisted(q)
          /\ Touch(Changing(p) \/ lpc = "list")
          /\ raced' = (raced \/ lpool = p \/ lpc \in {"look", "list"} \/ Changing(p))
     ELSE UNCHANGED <<pools, crashed, raced>>
  /\ Rest(p, Least(ready[p]))
  /\ UNCHANGED <<peers, closed, pool, freed, listener, found, stale>>

\* The loop ends with the last socket: delete pPool.
Exit(p) ==
  /\ tpc[p] = "test" /\ size[p] = 0
  /\ freed' = freed \cup {p}
  /\ tpc' = [tpc EXCEPT ![p] = "ended"]
  /\ raced' = (raced \/ lpool = p)
  /\ UNCHANGED <<peers, closed, pool, pools, listener, ready, found, stale, crashed>>

-----------------------------------------------------------------------------
Placing       == Look \/ Count \/ NewPool \/ List
Listener      == Accept \/ AcceptFails \/ ListenFails \/ Placing
Running(p)    == Select(p) \/ RemoveSocket(p) \/ Destroy(p) \/ Exit(p)
PoolThread(p) == Running(p) \/ SelectFails(p) \/ Serve(p)

Next ==
  /\ ~crashed
  /\ \/ \E c \in Conns : Connect(c) \/ Send(c) \/ Close(c)
     \/ Listener
     \/ \E p \in Pools : PoolThread(p)

Spec == Init /\ [][Next]_vars

\* The threads run.  A peer may do nothing more, accept() fail for ever, and
\* recv() and the calls of the sinks may not return.
FairSpec ==
  /\ Spec
  /\ WF_vars(~crashed /\ Placing)
  /\ \A p \in Pools : WF_vars(~crashed /\ Running(p))

-----------------------------------------------------------------------------
(* Properties *)

\* The type of every variable.
TypeOK ==
  /\ peer \in [Conns -> {"new", "open", "closed", "lost"}]
  /\ data \in [Conns -> 0..MaxData] /\ sent \in 0..MaxData
  /\ closed \in [Conns -> Nat]
  /\ slot \in [Pools -> [Slots -> Conns \cup {None}]]
  /\ fds \in [Pools -> SUBSET Conns] /\ size \in [Pools -> 0..Word - 1]
  /\ pools \in Seq(Pools) /\ freed \subseteq Pools
  /\ lpc \in {"accept", "look", "count", "list", "ended"}
  /\ lconn \in Conns \cup {None} /\ lindex \in Nat \ {0} /\ lpool \in Pools \cup {None}
  /\ tpc \in [Pools -> {"none", "test", "serve", "remove", "destroy", "ended", "broken",
                        "missing"}]
  /\ ready \in [Pools -> SUBSET Conns] /\ found \in [Pools -> Slots \cup {None}]
  /\ stale \in [Pools \cup {None} -> [fds : SUBSET Conns, size : 0..Word - 1]]
  /\ raced \in BOOLEAN /\ crashed \in BOOLEAN

\* The sinks are told of a disconnect once, and not before everything the peer
\* sent was passed on: neither a lost FD_CLR, which lets select return the
\* descriptor for ever, nor a search of no slots, which serves the slot of the
\* one before again, reaches OnDisconnect a second time.
DisconnectsOnce ==
  \A c \in Conns : closed[c] > 0 => closed[c] = 1 /\ peer[c] = "closed" /\ data[c] = 0

\* The connections in the slots of a pool.
Held(p) == {slot[p][j] : j \in Slots} \ {None}

\* The pool is in the list.
Listed(p) == \E i \in DOMAIN pools : pools[i] = p

\* Unless the listener used a pool, or the list, while a thread was removing a
\* socket from it, or two threads changed the list together: the number of
\* sockets and the descriptors of a pool agree with its slots whenever neither
\* is in the middle of a change, and the list holds the pools that have
\* sockets.  A failed select() is the only other way to a deleted pool in the
\* list, where it stays for good, and to the use of one.
PoolsAgree ==
  ~raced =>
    /\ \A p \in Pools \ freed : lpool # p /\ tpc[p] # "remove" =>
         size[p] = Cardinality(Held(p)) /\ fds[p] = Held(p)
    /\ \A p \in Pools : tpc[p] \in {"test", "serve", "missing"} /\ lpool # p =>
         (Held(p) # {} <=> Listed(p))
    /\ \A p \in freed : Listed(p) <=> tpc[p] = "broken"
    /\ crashed => \E p \in Pools : tpc[p] = "broken"

\* The search of thrdClientServer comes to the slot of c, and its select waits
\* for c.  Neither is so when the slot's number is above the number of sockets
\* in the pool, when a race lost the slot or the descriptor, and when the pool
\* has no thread.
Reached(c) ==
  \E p \in Pools, j \in Slots :
    /\ slot[p][j] = c /\ j <= size[p] /\ c \in fds[p]
    /\ tpc[p] \notin {"ended", "broken", "missing"}

Served(c) == data[c] = 0 /\ (peer[c] = "closed" => closed[c] = 1)

\* The thread of its pool is in recv(), or in the call of a sink.
Busy(c) == \E p \in Pools : c \in Held(p) /\ tpc[p] = "serve"

\* What arrives, the end of a connection included, is passed on as long as the
\* thread can reach the connection, whatever the races left behind: a
\* descriptor that select returns for ever, or a count that does not agree,
\* does not keep the thread from the others.  Only a call that never returns
\* does.
ArrivalsAreServed ==
  \A c \in Conns :
    \/ Readable(c) /\ Reached(c) ~> Served(c) \/ ~Reached(c) \/ crashed
    \/ <>[]Busy(c)
=============================================================================
