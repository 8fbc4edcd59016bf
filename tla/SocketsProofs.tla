---------------------------- MODULE SocketsProofs ----------------------------
(***************************************************************************)
(* For any connections, width of a pool and size of a word: the variables  *)
(* have their types and a disconnect is told once, although listener and   *)
(* pool threads use the pools without a lock; and the pools agree with     *)
(* their slots until two of the threads have used one together.            *)
(***************************************************************************)
EXTENDS Sockets, SequenceTheorems, FiniteSetTheorems, WellFoundedInduction, TLAPS

\* The connections that are in a slot, or have been: those accepted, without
\* the one the listener is still finding a slot for.
Placed(c) == c <= lconn /\ (lpc = "look" => c < lconn)

\* What the listener has in its hands while it works on a connection, and what
\* arrived was sent.
ListenerInv ==
  /\ lpc \notin {"accept", "ended"} => lconn \in Conns
  /\ lpc \in {"count", "list"} => lpool \in Pools
  /\ \A c \in Conns : data[c] <= sent

\* The pool of a connection still to be placed has no thread.
ThreadInv == \A p \in Pools : tpc[p] # "none" => Placed(p)

\* A connection has one slot.
SlotInv ==
  /\ \A p \in Pools, j \in Slots : slot[p][j] # None => Placed(slot[p][j])
  /\ \A p, q \in Pools, i, j \in Slots :
       slot[p][i] = slot[q][j] /\ slot[p][i] # None => p = q /\ i = j

\* A connection whose end was told is in no slot but the one that its thread is
\* about to give back.
ClosedInv ==
  \A c \in Conns : closed[c] > 0 =>
    /\ Placed(c)
    /\ \A p \in Pools, j \in Slots :
         slot[p][j] = c => tpc[p] = "remove" /\ found[p] = j

\* What the thread of a pool does next.
Tasks == {"none", "test", "serve", "remove", "destroy", "ended", "broken", "missing"}

\* The inductive invariant, which survives the races.
IInv == TypeOK /\ ListenerInv /\ ThreadInv /\ SlotInv /\ ClosedInv /\ DisconnectsOnce

\* A set of numbers that is not empty has a least one.
LEMMA LeastIsIn ==
  ASSUME NEW S \in SUBSET Nat, S # {}
  PROVE  Least(S) \in S
<1>1. PICK x \in S : \A y \in S : ~(<<y, x>> \in OpToRel(<, Nat))
  BY NatLessThanWellFounded, WFMin
<1>2. ASSUME NEW y \in S
      PROVE  x <= y
  <2>1. ~(y < x)
    BY <1>1 DEF OpToRel
  <2> QED BY <2>1
<1> QED BY <1>2 DEF Least

\* DestroyPool leaves a list of pools.
LEMMA UnlistedType ==
  ASSUME TypeOK, NEW p
  PROVE  Unlisted(p) \in Seq(Pools)
<1>1. CASE At(p) = {}
  BY <1>1 DEF Unlisted, TypeOK
<1>2. CASE At(p) # {}
  <2> DEFINE i == Least(At(p))
  <2>1. pools \in Seq(Pools) /\ DOMAIN pools = 1..Len(pools) /\ Len(pools) \in Nat
    BY DEF TypeOK
  <2>2. i \in 1..Len(pools)
    <3>1. At(p) \subseteq 1..Len(pools) /\ At(p) \in SUBSET Nat
      BY <2>1 DEF At
    <3>2. Least(At(p)) \in At(p)
      BY <3>1, <1>2, LeastIsIn
    <3> QED BY <3>1, <3>2
  <2> HIDE DEF i
  <2>3. \A k \in 1..Len(pools) : pools[k] \in Pools
    BY <2>1, ElementOfSeq
  <2>4. SubSeq(pools, 1, i - 1) \in Seq(Pools)
    BY <2>1, <2>2, <2>3, SubSeqProperties
  <2>5. SubSeq(pools, i + 1, Len(pools)) \in Seq(Pools)
    BY <2>1, <2>2, <2>3, SubSeqProperties
  <2>6. Unlisted(p) = RemoveAt(pools, i)
    BY <1>2 DEF Unlisted, i
  <2> QED BY <2>4, <2>5, <2>6, ConcatProperties DEF RemoveAt
<1> QED BY <1>1, <1>2

\* What the assumption and the definitions say of descriptors and slots.
LEMMA Numbers ==
  /\ Conns \subseteq Nat /\ None = 0 /\ None \notin Conns /\ Pools = Conns
  /\ Slots = 1..Width /\ Slots \in SUBSET Nat /\ 1 \in Slots /\ None \notin Slots
  /\ Word \in Nat /\ Word > 1 /\ MaxData \in Nat
BY SocketAssumption DEF None, Slots, Pools

\* A number that fits a word is its own remainder.
LEMMA SmallWord ==
  ASSUME NEW x \in 0..Word - 1
  PROVE  x % Word = x
BY SocketAssumption

\* What a slot holds and the listener's connection are numbers.
LEMMA SlotType ==
  ASSUME TypeOK
  PROVE  /\ lconn \in Nat
         /\ \A p \in Pools, j \in Slots :
              slot[p][j] \in Conns \cup {None} /\ slot[p][j] \in Nat
<1>1. lconn \in Conns \cup {None} /\ slot \in [Pools -> [Slots -> Conns \cup {None}]]
  BY DEF TypeOK
<1>2. Conns \cup {None} \subseteq Nat
  BY Numbers
<1>3. \A p \in Pools, j \in Slots : slot[p][j] \in Conns \cup {None}
  BY <1>1
<1> QED BY <1>1, <1>2, <1>3

\* A connection has one slot.
LEMMA OneSlot ==
  ASSUME SlotInv, NEW p \in Pools, NEW q \in Pools, NEW i \in Slots, NEW j \in Slots
  PROVE  slot[p][i] = slot[q][j] /\ slot[p][i] # None => p = q /\ i = j
BY DEF SlotInv

\* The initial state.
LEMMA InitInv == Init => IInv
<1> SUFFICES ASSUME Init PROVE IInv
  OBVIOUS
<1>1. TypeOK
  <2>1. pools \in Seq(Pools)
    BY EmptySeq DEF Init
  <2>2. stale \in [Pools \cup {None} -> [fds : SUBSET Conns, size : 0..Word - 1]]
    BY Numbers DEF Init
  <2>3. slot \in [Pools -> [Slots -> Conns \cup {None}]]
    BY DEF Init
  <2>4. size \in [Pools -> 0..Word - 1] /\ data \in [Conns -> 0..MaxData] /\ sent \in 0..MaxData
    BY Numbers DEF Init
  <2>5. /\ lindex \in Nat \ {0} /\ lconn \in Conns \cup {None} /\ lpool \in Pools \cup {None}
        /\ found \in [Pools -> Slots \cup {None}] /\ closed \in [Conns -> Nat]
    BY DEF Init
  <2> QED BY <2>1, <2>2, <2>3, <2>4, <2>5 DEF Init, TypeOK
<1>2. ListenerInv /\ ThreadInv /\ SlotInv /\ ClosedInv /\ DisconnectsOnce
  BY Numbers DEF Init, ListenerInv, ThreadInv, SlotInv, ClosedInv, DisconnectsOnce
<1> QED BY <1>1, <1>2 DEF IInv

\* The peers.
LEMMA PeerStep ==
  ASSUME IInv, NEW c \in Conns, Connect(c) \/ Send(c) \/ Close(c)
  PROVE  IInv'
<1> USE Numbers DEF IInv
<1>1. TypeOK'
  <2>1. CASE Connect(c)
    BY <2>1 DEF TypeOK, Connect, pool, listener, threads
  <2>2. CASE Send(c)
    <3>1. data' \in [Conns -> 0..MaxData] /\ sent' \in 0..MaxData
      <4>1. data[c] \in 0..MaxData /\ sent \in 0..MaxData /\ data[c] <= sent
        BY DEF TypeOK, ListenerInv
      <4>2. sent < MaxData /\ sent' = sent + 1 /\ data' = [data EXCEPT ![c] = data[c] + 1]
        BY <2>2 DEF Send
      <4>3. data[c] + 1 \in 0..MaxData /\ sent + 1 \in 0..MaxData
        BY <4>1, <4>2
      <4> QED BY <4>2, <4>3 DEF TypeOK
    <3> QED BY <2>2, <3>1 DEF TypeOK, Send, pool, listener, threads
  <2>3. CASE Close(c)
    BY <2>3 DEF TypeOK, Close, pool, listener, threads
  <2> QED BY <2>1, <2>2, <2>3
<1>2. ListenerInv'
  <2>1. data \in [Conns -> 0..MaxData] /\ sent \in 0..MaxData
    BY DEF TypeOK
  <2>2. CASE Connect(c) \/ Close(c)
    BY <2>2 DEF ListenerInv, Connect, Close, listener
  <2>3. CASE Send(c)
    BY <2>1, <2>3 DEF ListenerInv, Send, listener
  <2> QED BY <2>2, <2>3
<1>3. ThreadInv'
  BY DEF ThreadInv, Placed, Connect, Send, Close, pool, listener, threads
<1>4. SlotInv'
  BY DEF SlotInv, Placed, Connect, Send, Close, pool, listener, threads
<1>5. ClosedInv'
  BY DEF ClosedInv, Placed, Connect, Send, Close, pool, listener, threads
<1>6. DisconnectsOnce'
  BY DEF DisconnectsOnce, TypeOK, Connect, Send, Close
<1> QED BY <1>1, <1>2, <1>3, <1>4, <1>5, <1>6

\* The listener accepts a connection above all others.
LEMMA AcceptStep ==
  ASSUME IInv, Accept
  PROVE  IInv'
<1> USE Numbers DEF IInv
<1>1. lconn' \in Conns /\ lconn' > lconn
  <2>1. Waiting \in SUBSET Nat /\ Waiting # {}
    BY DEF Waiting, Accept
  <2>2. Least(Waiting) \in Waiting
    BY <2>1, LeastIsIn
  <2>3. lconn \in Nat
    BY DEF TypeOK
  <2>4. \A c \in Waiting : c \in Conns /\ c > lconn
    BY <2>3 DEF Waiting
  <2> QED BY <2>2, <2>4 DEF Accept
<1>2. lpc = "accept" /\ lpc' = "look"
  BY DEF Accept
<1>3. \A x \in Nat : Placed(x) => Placed(x)'
  <2>1. lconn \in Nat /\ lconn' \in Nat
    BY <1>1 DEF TypeOK
  <2> QED BY <1>1, <1>2, <2>1 DEF Placed
<1>4. TypeOK'
  BY <1>1 DEF TypeOK, Accept, peers, pool, threads
<1>5. ListenerInv'
  BY <1>1, <1>2 DEF ListenerInv, Accept, peers
<1>6. ThreadInv'
  BY <1>3 DEF ThreadInv, Accept, threads
<1>7. SlotInv'
  <2>1. slot' = slot /\ \A p \in Pools, j \in Slots : slot[p][j] \in Nat
    BY SlotType DEF Accept, pool
  <2>2. \A p \in Pools, j \in Slots : slot'[p][j] # None => Placed(slot[p][j])'
    BY <1>3, <2>1 DEF SlotInv
  <2>3. \A p, q \in Pools, i, j \in Slots :
          slot'[p][i] = slot'[q][j] /\ slot'[p][i] # None => p = q /\ i = j
    <3> TAKE p, q \in Pools, i, j \in Slots
    <3>1. slot'[p][i] = slot[p][i] /\ slot'[q][j] = slot[q][j]
      BY <2>1
    <3>2. slot[p][i] = slot[q][j] /\ slot[p][i] # None => p = q /\ i = j
      <4>1. SlotInv
        OBVIOUS
      <4> HIDE DEF IInv
      <4> QED BY <4>1, OneSlot
    <3> QED BY <3>1, <3>2
  <2> QED BY <2>1, <2>2, <2>3 DEF SlotInv
<1>8. ClosedInv'
  <2> SUFFICES ASSUME NEW c \in Conns, closed'[c] > 0
               PROVE  /\ Placed(c)'
                      /\ \A p \in Pools, j \in Slots :
                           slot'[p][j] = c => tpc'[p] = "remove" /\ found'[p] = j
    BY DEF ClosedInv
  <2>1. UNCHANGED <<closed, slot, tpc, found>> /\ c \in Nat
    BY DEF Accept, pool, threads
  <2>2. /\ Placed(c)
        /\ \A p \in Pools, j \in Slots : slot[p][j] = c => tpc[p] = "remove" /\ found[p] = j
    BY <2>1 DEF ClosedInv
  <2> QED BY <1>3, <2>1, <2>2
<1>9. DisconnectsOnce'
  BY DEF DisconnectsOnce, Accept, peers
<1> QED BY <1>4, <1>5, <1>6, <1>7, <1>8, <1>9

\* A connection is lost in the queue, or the listener ends.
LEMMA ListenFailsStep ==
  ASSUME IInv, AcceptFails \/ ListenFails
  PROVE  IInv'
<1> USE DEF IInv
<1>1. /\ lpc = "accept" /\ lpc' \in {"accept", "ended"} /\ lconn' = lconn
      /\ UNCHANGED <<data, sent, closed, pool, pools, freed, threads, stale, raced, crashed>>
  BY DEF AcceptFails, ListenFails, peers, listener
<1>2. TypeOK'
  <2>1. CASE AcceptFails
    <3>1. peer' \in [Conns -> {"new", "open", "closed", "lost"}]
      BY <2>1 DEF AcceptFails, TypeOK
    <3> QED BY <1>1, <2>1, <3>1 DEF AcceptFails, TypeOK, pool, listener, threads
  <2>2. CASE ListenFails
    BY <2>2 DEF ListenFails, TypeOK, peers, pool, threads
  <2> QED BY <2>1, <2>2
<1>3. \A c : Placed(c)' = Placed(c)
  BY <1>1 DEF Placed
<1>4. ListenerInv' /\ ThreadInv'
  BY <1>1, <1>3 DEF ListenerInv, ThreadInv, threads
<1>5. SlotInv' /\ ClosedInv'
  BY <1>1, <1>3 DEF SlotInv, ClosedInv, pool, threads
<1>6. DisconnectsOnce'
  <2>1. \A c \in Conns : peer[c] = "closed" /\ closed[c] > 0 => peer'[c] = "closed"
    <3>1. CASE AcceptFails
      <4>1. PICK d : peer' = [peer EXCEPT ![d] = "lost"] /\ d = Least(Waiting)
        BY <3>1 DEF AcceptFails
      <4>2. d \in Waiting
        <5>1. Waiting \in SUBSET Nat /\ Waiting # {}
          BY <3>1, Numbers DEF Waiting, AcceptFails
        <5> QED BY <4>1, <5>1, LeastIsIn
      <4>3. d \in Conns /\ ~Placed(d)
        BY <4>2, Numbers DEF Waiting, TypeOK, Placed
      <4>4. \A c \in Conns : closed[c] > 0 => Placed(c)
        BY DEF ClosedInv
      <4> QED BY <4>1, <4>3, <4>4 DEF TypeOK
    <3>2. CASE ListenFails
      BY <3>2 DEF ListenFails, peers
    <3> QED BY <3>1, <3>2
  <2> QED BY <1>1, <2>1 DEF DisconnectsOnce
<1> QED BY <1>2, <1>4, <1>5, <1>6

\* A placed connection stays placed while the listener works on the next one.
LEMMA PlacedStays ==
  ASSUME lconn' = lconn, lpc = "look" \/ lpc' # "look", NEW c
  PROVE  Placed(c) => Placed(c)'
BY DEF Placed

\* Only the connection in the listener's hands has no slot, no thread and no
\* notice yet.
LEMMA FreshConnection ==
  ASSUME IInv, lpc = "look"
  PROVE  /\ lconn \in Conns /\ lconn # None /\ tpc[lconn] = "none" /\ closed[lconn] = 0
         /\ \A p \in Pools, j \in Slots : slot[p][j] # lconn
<1>1. lconn \in Conns /\ lconn \in Nat /\ lconn # None
  BY Numbers DEF IInv, ListenerInv
<1>2. ~Placed(lconn)
  BY <1>1 DEF Placed
<1>3. tpc[lconn] = "none"
  BY <1>1, <1>2, Numbers DEF IInv, ThreadInv
<1>4. closed[lconn] = 0
  BY <1>1, <1>2 DEF IInv, ClosedInv, TypeOK
<1>5. \A p \in Pools, j \in Slots : slot[p][j] # lconn
  BY <1>1, <1>2 DEF IInv, SlotInv
<1> QED BY <1>1, <1>3, <1>4, <1>5

\* A slot given to the fresh connection keeps a connection in one slot, and the
\* connections whose end was told out of the slots.
LEMMA SlotGiven ==
  ASSUME IInv, lpc = "look", NEW p \in Pools, NEW j \in Slots,
         slot' = [slot EXCEPT ![p][j] = lconn],
         lconn' = lconn, lpc' # "look", UNCHANGED <<closed, found>>,
         \A q \in Pools : tpc[q] = "remove" => tpc'[q] = "remove"
  PROVE  SlotInv' /\ ClosedInv'
<1>1. /\ lconn \in Conns /\ lconn # None /\ closed[lconn] = 0
      /\ \A q \in Pools, i \in Slots : slot[q][i] # lconn
  BY FreshConnection
<1>2. \A q \in Pools, i \in Slots :
        slot'[q][i] = IF q = p /\ i = j THEN lconn ELSE slot[q][i]
  BY DEF IInv, TypeOK
<1>3. \A c : Placed(c) => Placed(c)'
  BY PlacedStays
<1>4. Placed(lconn)'
  BY <1>1, Numbers DEF Placed
<1>5. SlotInv'
  <2>1. \A q \in Pools, i \in Slots : slot'[q][i] # None => Placed(slot[q][i])'
    <3> TAKE q \in Pools, i \in Slots
    <3>1. CASE q = p /\ i = j
      BY <1>2, <1>4, <3>1
    <3>2. CASE ~(q = p /\ i = j)
      <4> DEFINE x == slot[q][i]
      <4>1. x # None => Placed(x)
        BY DEF IInv, SlotInv
      <4>2. slot'[q][i] = slot[q][i]
        BY <1>2, <3>2
      <4> QED BY <1>3, <4>1, <4>2, Zenon
    <3> QED BY <3>1, <3>2
  <2>2. \A q, r \in Pools, i, k \in Slots :
          slot'[q][i] = slot'[r][k] /\ slot'[q][i] # None => q = r /\ i = k
    BY <1>1, <1>2 DEF IInv, SlotInv
  <2> QED BY <2>1, <2>2 DEF SlotInv
<1>6. ClosedInv'
  <2> SUFFICES ASSUME NEW c \in Conns, closed[c] > 0
               PROVE  /\ Placed(c)'
                      /\ \A q \in Pools, i \in Slots :
                           slot'[q][i] = c => tpc'[q] = "remove" /\ found[q] = i
    BY DEF ClosedInv
  <2>1. c # lconn
    BY <1>1
  <2> QED BY <2>1, <1>2, <1>3 DEF IInv, ClosedInv
<1> QED BY <1>5, <1>6

\* The listener looks at a pool.
LEMMA LookStep ==
  ASSUME IInv, Look
  PROVE  IInv'
<1> DEFINE p == pools[lindex]
<1>1. lpc = "look" /\ LookAt(p) /\ p \in Pools
  <2>1. pools \in Seq(Pools) /\ lindex \in 1..Len(pools)
    BY DEF Look, IInv, TypeOK
  <2> QED BY <2>1, ElementOfSeq DEF Look
<1> HIDE DEF p
<1>2. UNCHANGED <<peers, closed, fds, size, pools, freed, lconn, threads>>
  BY <1>1 DEF LookAt
<1>3. crashed' \in BOOLEAN /\ raced' \in BOOLEAN
  BY <1>1 DEF LookAt, Touch, IInv, TypeOK
<1>4. DisconnectsOnce'
  BY <1>2 DEF IInv, DisconnectsOnce, peers
<1>5. CASE lindex' = lindex + 1 /\ UNCHANGED <<slot, lpool, lpc, stale>>
  <2>1. TypeOK'
    BY <1>2, <1>3, <1>5 DEF IInv, TypeOK, peers, threads
  <2>2. ListenerInv' /\ ThreadInv' /\ SlotInv' /\ ClosedInv'
    BY <1>2, <1>5 DEF IInv, ListenerInv, ThreadInv, SlotInv, ClosedInv, Placed, peers, threads
  <2> QED BY <1>4, <2>1, <2>2 DEF IInv
<1>6. CASE /\ Free(p) # {} /\ slot' = [slot EXCEPT ![p][Least(Free(p))] = lconn]
           /\ stale' = [stale EXCEPT ![None] = [fds |-> fds[p], size |-> size[p]]]
           /\ lpool' = p /\ lpc' = "count" /\ lindex' = lindex
  <2> DEFINE j == Least(Free(p))
  <2>1. j \in Slots /\ slot[p][j] = None
    <3>1. Free(p) \in SUBSET Nat
      BY Numbers DEF Free
    <3>2. j \in Free(p)
      BY <1>6, <3>1, LeastIsIn
    <3> QED BY <3>2 DEF Free
  <2>2. slot' = [slot EXCEPT ![p][j] = lconn]
    BY <1>6
  <2> HIDE DEF j
  <2>3. lconn \in Conns
    BY <1>1, FreshConnection
  <2>4. SlotInv' /\ ClosedInv'
    BY <1>1, <1>2, <1>6, <2>1, <2>2, SlotGiven DEF threads
  <2>5. TypeOK'
    <3>1. slot' \in [Pools -> [Slots -> Conns \cup {None}]]
      BY <1>1, <2>1, <2>2, <2>3 DEF IInv, TypeOK
    <3>2. stale' \in [Pools \cup {None} -> [fds : SUBSET Conns, size : 0..Word - 1]]
      BY <1>1, <1>6 DEF IInv, TypeOK
    <3> QED BY <1>1, <1>2, <1>3, <1>6, <3>1, <3>2 DEF IInv, TypeOK, peers, threads
  <2>6. ListenerInv'
    BY <1>1, <1>2, <1>6, <2>3 DEF IInv, ListenerInv, peers
  <2>7. ThreadInv'
    BY <1>1, <1>2, <1>6 DEF IInv, ThreadInv, Placed, threads
  <2> QED BY <1>4, <2>4, <2>5, <2>6, <2>7 DEF IInv
<1> QED BY <1>1, <1>5, <1>6 DEF LookAt

\* Steps that leave the slots, and every thread that is giving one back.
LEMMA SlotsStay ==
  ASSUME IInv, UNCHANGED <<slot, closed, found, lconn>>, lpc = "look" \/ lpc' # "look",
         \A q \in Pools : /\ tpc'[q] # "none" => tpc[q] # "none"
                          /\ tpc[q] = "remove" => tpc'[q] = "remove"
  PROVE  ThreadInv' /\ SlotInv' /\ ClosedInv'
<1>1. \A c : Placed(c) => Placed(c)'
  BY PlacedStays
<1>2. ThreadInv'
  BY <1>1 DEF IInv, ThreadInv
<1>3. SlotInv'
  <2>1. \A p \in Pools, j \in Slots : slot'[p][j] # None => Placed(slot[p][j])'
    BY <1>1 DEF IInv, SlotInv
  <2> QED BY <2>1 DEF IInv, SlotInv
<1>4. ClosedInv'
  BY <1>1 DEF IInv, ClosedInv
<1> QED BY <1>2, <1>3, <1>4

\* A count of sockets is a word.
LEMMA WordType ==
  ASSUME NEW n \in Int
  PROVE  n % Word \in 0..Word - 1
BY Numbers

\* The listener counts the connection in.
LEMMA CountStep ==
  ASSUME IInv, Count
  PROVE  IInv'
<1>1. /\ lpc = "count" /\ lpc' = "accept" /\ lpool \in Pools /\ lconn \in Conns
      /\ UNCHANGED <<peers, closed, slot, pools, freed, lconn, lindex, threads, stale, raced>>
      /\ lpool' = None
  BY DEF Count, IInv, ListenerInv
<1>2. PICK f \in {fds[lpool], stale[None].fds}, n \in {size[lpool], stale[None].size} :
        /\ fds' = [fds EXCEPT ![lpool] = f \cup {lconn}]
        /\ size' = [size EXCEPT ![lpool] = (n + 1) % Word]
  BY DEF Count
<1>3. f \in SUBSET Conns /\ n \in 0..Word - 1
  BY <1>1, <1>2 DEF IInv, TypeOK
<1>4. (n + 1) % Word \in 0..Word - 1
  <2>1. n + 1 \in Int
    BY <1>3
  <2> QED BY <2>1, WordType
<1>5. fds' \in [Pools -> SUBSET Conns] /\ size' \in [Pools -> 0..Word - 1]
  BY <1>1, <1>2, <1>3, <1>4 DEF IInv, TypeOK
<1>6. crashed' \in BOOLEAN
  BY DEF Count, Touch
<1>7. TypeOK'
  BY <1>1, <1>5, <1>6 DEF IInv, TypeOK, peers, threads
<1>8. ThreadInv' /\ SlotInv' /\ ClosedInv'
  BY <1>1, SlotsStay DEF threads
<1>9. ListenerInv' /\ DisconnectsOnce'
  BY <1>1 DEF IInv, ListenerInv, DisconnectsOnce, peers
<1> QED BY <1>7, <1>8, <1>9 DEF IInv

\* The listener makes a pool.
LEMMA NewPoolStep ==
  ASSUME IInv, NewPool
  PROVE  IInv'
<1>1. PICK s \in {"test", "missing"} :
      /\ lpc = "look" /\ lpc' = "list" /\ lpool' = lconn
      /\ slot' = [slot EXCEPT ![lconn][1] = lconn]
      /\ fds' = [fds EXCEPT ![lconn] = {lconn}] /\ size' = [size EXCEPT ![lconn] = 1]
      /\ tpc' = [tpc EXCEPT ![lconn] = s]
      /\ UNCHANGED <<peers, closed, pools, freed, lconn, lindex, ready, found, stale, raced,
                     crashed>>
  BY DEF NewPool
<1>2. lconn \in Conns /\ lconn \in Pools /\ tpc[lconn] = "none"
  BY <1>1, FreshConnection, Numbers
<1>3. TypeOK'
  <2>1. slot' \in [Pools -> [Slots -> Conns \cup {None}]]
    BY <1>1, <1>2, Numbers DEF IInv, TypeOK
  <2>2. size' \in [Pools -> 0..Word - 1]
    BY <1>1, <1>2, Numbers DEF IInv, TypeOK
  <2>3. fds' \in [Pools -> SUBSET Conns]
    BY <1>1, <1>2 DEF IInv, TypeOK
  <2> QED BY <1>1, <1>2, <2>1, <2>2, <2>3 DEF IInv, TypeOK, peers
<1>4. SlotInv' /\ ClosedInv'
  <2>1. \A q \in Pools : tpc[q] = "remove" => tpc'[q] = "remove"
    BY <1>1, <1>2 DEF IInv, TypeOK
  <2> QED BY <1>1, <1>2, <2>1, Numbers, SlotGiven
<1>5. ThreadInv'
  <2>1. \A q \in Pools : tpc'[q] # "none" => q = lconn \/ tpc[q] # "none"
    BY <1>1, <1>2 DEF IInv, TypeOK
  <2>2. \A q \in Pools : Placed(q) \/ q = lconn => Placed(q)'
    BY <1>1, <1>2, Numbers DEF Placed
  <2> QED BY <2>1, <2>2 DEF IInv, ThreadInv
<1>6. ListenerInv' /\ DisconnectsOnce'
  BY <1>1, <1>2 DEF IInv, ListenerInv, DisconnectsOnce, peers
<1> QED BY <1>3, <1>4, <1>5, <1>6 DEF IInv

\* The listener puts the new pool into the list.
LEMMA ListStep ==
  ASSUME IInv, List
  PROVE  IInv'
<1>1. /\ lpc = "list" /\ lpc' = "accept" /\ lpool \in Pools /\ lpool' = None
      /\ pools' = Append(pools, lpool) /\ crashed' \in BOOLEAN
      /\ UNCHANGED <<peers, closed, pool, freed, lconn, lindex, threads, stale, raced>>
  BY DEF List, Touch, IInv, ListenerInv
<1>2. pools' \in Seq(Pools)
  BY <1>1, AppendProperties DEF IInv, TypeOK
<1>3. TypeOK'
  BY <1>1, <1>2 DEF IInv, TypeOK, peers, pool, threads
<1>4. ThreadInv' /\ SlotInv' /\ ClosedInv'
  BY <1>1, SlotsStay DEF pool, threads
<1>5. ListenerInv' /\ DisconnectsOnce'
  BY <1>1 DEF IInv, ListenerInv, DisconnectsOnce, peers
<1> QED BY <1>3, <1>4, <1>5 DEF IInv

\* The thread of a pool takes what select returns.
LEMMA SelectStep ==
  ASSUME IInv, NEW p \in Pools, Select(p)
  PROVE  IInv'
<1>1. /\ tpc[p] = "test" /\ tpc' = [tpc EXCEPT ![p] = "serve"]
      /\ ready' = [ready EXCEPT ![p] = {c \in fds[p] : Readable(c)}]
      /\ UNCHANGED <<peers, closed, pool, pools, freed, listener, found, stale, raced, crashed>>
  BY DEF Select
<1>2. TypeOK'
  <2>1. {c \in fds[p] : Readable(c)} \in SUBSET Conns
    BY DEF IInv, TypeOK
  <2> QED BY <1>1, <2>1 DEF IInv, TypeOK, peers, pool, listener
<1>3. ThreadInv' /\ SlotInv' /\ ClosedInv'
  <2>1. \A q \in Pools : /\ tpc'[q] # "none" => tpc[q] # "none"
                         /\ tpc[q] = "remove" => tpc'[q] = "remove"
    BY <1>1 DEF IInv, TypeOK
  <2> QED BY <1>1, <2>1, SlotsStay DEF pool, listener
<1>4. ListenerInv' /\ DisconnectsOnce'
  BY <1>1 DEF IInv, ListenerInv, DisconnectsOnce, peers, listener
<1> QED BY <1>2, <1>3, <1>4 DEF IInv

\* The thread goes on to the next descriptor.
LEMMA RestType ==
  ASSUME TypeOK, NEW p \in Pools, NEW c, Rest(p, c)
  PROVE  /\ ready' \in [Pools -> SUBSET Conns]
         /\ tpc' \in [Pools -> Tasks]
         /\ \A q \in Pools : tpc'[q] = IF q # p THEN tpc[q]
                                       ELSE IF ready[p] = {c} THEN "test" ELSE "serve"
BY DEF Rest, TypeOK, Tasks

\* A search ends at a slot or at none.
LEMMA SearchType ==
  ASSUME TypeOK, NEW p \in Pools, NEW c
  PROVE  Search(p, c) \in Slots \cup {None}
<1>1. found[p] \in Slots \cup {None}
  BY DEF TypeOK
<1>2. Matches(p, c) # {} => Least(Matches(p, c)) \in Slots
  <2>1. Matches(p, c) \in SUBSET Nat /\ Matches(p, c) \subseteq Slots
    BY Numbers DEF Matches
  <2> QED BY <2>1, LeastIsIn
<1> QED BY <1>1, <1>2 DEF Search

\* A thread that is not giving a slot back has no connection whose end was told.
LEMMA OwnSlots ==
  ASSUME IInv, NEW p \in Pools, tpc[p] # "remove", NEW j \in Slots, slot[p][j] # None
  PROVE  /\ slot[p][j] \in Conns /\ closed[slot[p][j]] = 0 /\ Placed(slot[p][j])
         /\ \A q \in Pools, i \in Slots : slot[q][i] = slot[p][j] => q = p /\ i = j
<1>1. slot[p][j] \in Conns
  BY SlotType DEF IInv
<1>2. closed[slot[p][j]] = 0
  <2>1. closed[slot[p][j]] \in Nat
    BY <1>1 DEF IInv, TypeOK
  <2>2. ~(closed[slot[p][j]] > 0)
    BY <1>1 DEF IInv, ClosedInv
  <2> QED BY <2>1, <2>2
<1> QED BY <1>1, <1>2 DEF IInv, SlotInv

\* The thread serves a descriptor.
LEMMA ServeStep ==
  ASSUME IInv, NEW p \in Pools, Serve(p)
  PROVE  IInv'
<1> DEFINE c == Least(ready[p])
           j == Search(p, c)
           s == slot[p][j]
<1>1. tpc[p] = "serve" /\ found' = [found EXCEPT ![p] = j]
      /\ UNCHANGED <<peer, sent, pool, pools, freed, listener, crashed>>
  BY DEF Serve
<1>2. \/ j = None /\ Rest(p, c) /\ UNCHANGED <<data, closed, stale, raced>>
      \/ j # None /\ Receive(s) /\ Rest(p, c)
      \/ j # None /\ Closed(p, s)
  BY DEF Serve
<1>3. j \in Slots \cup {None}
  BY SearchType DEF IInv
<1> HIDE DEF c, j
<1>4. /\ found' \in [Pools -> Slots \cup {None}]
      /\ \A q \in Pools : found'[q] = IF q = p THEN j ELSE found[q]
  BY <1>1, <1>3 DEF IInv, TypeOK
<1>5. \A x : Placed(x) => Placed(x)'
  BY <1>1, PlacedStays DEF listener
<1>6. SlotInv'
  <2>1. \A q \in Pools, i \in Slots : slot'[q][i] # None => Placed(slot[q][i])'
    BY <1>1, <1>5 DEF IInv, SlotInv, pool
  <2> QED BY <1>1, <2>1 DEF IInv, SlotInv, pool
<1>7. CASE Rest(p, c) /\ UNCHANGED <<closed, stale, raced>>
            /\ (data' = data \/ (s \in Conns /\ data' = [data EXCEPT ![s] = 0]))
  <2>1. /\ ready' \in [Pools -> SUBSET Conns]
        /\ tpc' \in [Pools -> Tasks]
        /\ \A q \in Pools : q # p => tpc'[q] = tpc[q]
        /\ tpc'[p] \in {"test", "serve"}
    BY <1>7, RestType DEF IInv
  <2>2. /\ data' \in [Conns -> 0..MaxData]
        /\ \A x \in Conns : data'[x] = data[x] \/ data'[x] = 0
    <3>1. data \in [Conns -> 0..MaxData] /\ 0 \in 0..MaxData
      BY Numbers DEF IInv, TypeOK
    <3>2. CASE data' = data
      BY <3>1, <3>2
    <3>3. CASE s \in Conns /\ data' = [data EXCEPT ![s] = 0]
      BY <3>1, <3>3
    <3> QED BY <1>7, <3>2, <3>3
  <2>3. TypeOK'
    BY <1>1, <1>4, <1>7, <2>1, <2>2 DEF IInv, TypeOK, Tasks, pool, listener
  <2>4. ThreadInv'
    BY <1>1, <1>5, <2>1 DEF IInv, ThreadInv
  <2>5. ClosedInv'
    BY <1>1, <1>4, <1>5, <1>7, <2>1 DEF IInv, ClosedInv, pool
  <2>6. ListenerInv'
    <3>1. \A x \in Conns : data'[x] <= sent
      <4>1. sent \in 0..MaxData /\ \A x \in Conns : data[x] <= sent
        BY DEF IInv, ListenerInv, TypeOK
      <4>2. 0 <= sent
        BY <4>1, Numbers
      <4> QED BY <2>2, <4>1, <4>2
    <3> QED BY <1>1, <3>1 DEF IInv, ListenerInv, listener
  <2>7. DisconnectsOnce'
    BY <1>1, <1>7, <2>2 DEF IInv, DisconnectsOnce
  <2> QED BY <1>6, <2>3, <2>4, <2>5, <2>6, <2>7 DEF IInv
<1>8. CASE j # None /\ Closed(p, s)
  <2>1. /\ s # None => data[s] = 0 /\ peer[s] = "closed"
        /\ closed' = [x \in Conns |-> IF x = s THEN closed[x] + 1 ELSE closed[x]]
        /\ stale' = [stale EXCEPT ![p] = [fds |-> fds[p], size |-> size[p]]]
        /\ tpc' = [tpc EXCEPT ![p] = "remove"]
        /\ raced' = (raced \/ lpool = p \/ lpc = "look")
        /\ UNCHANGED <<data, ready>>
    BY <1>8 DEF Closed
  <2>2. j \in Slots
    BY <1>3, <1>8
  <2>3. s # None => /\ s \in Conns /\ closed[s] = 0 /\ Placed(s)
                    /\ \A q \in Pools, i \in Slots : slot[q][i] = s => q = p /\ i = j
    BY <1>1, <2>2, OwnSlots
  <2>4. \A x \in Conns : closed'[x] > 0 => x = s \/ closed[x] > 0
    BY <2>1 DEF IInv, TypeOK
  <2>5. \A q \in Pools : tpc'[q] = IF q = p THEN "remove" ELSE tpc[q]
    BY <2>1 DEF IInv, TypeOK
  <2>6. TypeOK'
    <3>1. closed' \in [Conns -> Nat]
      BY <2>1 DEF IInv, TypeOK
    <3>2. stale' \in [Pools \cup {None} -> [fds : SUBSET Conns, size : 0..Word - 1]]
      BY <2>1 DEF IInv, TypeOK
    <3> QED BY <1>1, <1>4, <2>1, <3>1, <3>2 DEF IInv, TypeOK, pool, listener
  <2>7. ThreadInv'
    BY <1>1, <1>5, <2>5 DEF IInv, ThreadInv
  <2>8. ClosedInv'
    <3> SUFFICES ASSUME NEW x \in Conns, closed'[x] > 0
                 PROVE  /\ Placed(x)'
                        /\ \A q \in Pools, i \in Slots :
                             slot'[q][i] = x => tpc'[q] = "remove" /\ found'[q] = i
      BY DEF ClosedInv
    <3>1. slot' = slot /\ x # None
      BY <1>1, Numbers DEF pool
    <3>2. CASE x = s
      BY <1>4, <1>5, <2>3, <2>5, <3>1, <3>2
    <3>3. CASE x # s
      <4>1. closed[x] > 0
        BY <2>4, <3>3
      <4> QED BY <1>1, <1>4, <1>5, <2>5, <3>1, <4>1 DEF IInv, ClosedInv
    <3> QED BY <3>2, <3>3
  <2>9. DisconnectsOnce'
    <3> SUFFICES ASSUME NEW x \in Conns, closed'[x] > 0
                 PROVE  closed'[x] = 1 /\ peer'[x] = "closed" /\ data'[x] = 0
      BY DEF DisconnectsOnce
    <3>1. x # None
      BY Numbers
    <3> QED BY <1>1, <2>1, <2>3, <2>4, <3>1 DEF IInv, DisconnectsOnce
  <2>10. ListenerInv'
    BY <1>1, <2>1 DEF IInv, ListenerInv, listener
  <2> QED BY <1>6, <2>6, <2>7, <2>8, <2>9, <2>10 DEF IInv
<1>9. j # None /\ Receive(s) => s \in Conns
  BY <1>3, SlotType DEF Receive, IInv
<1>10. CASE j # None /\ Receive(s) /\ Rest(p, c)
  <2>1. data' = [data EXCEPT ![s] = 0] /\ UNCHANGED <<closed, stale, raced>>
    BY <1>10 DEF Receive
  <2> QED BY <1>7, <1>9, <1>10, <2>1
<1>11. CASE Rest(p, c) /\ UNCHANGED <<data, closed, stale, raced>>
  <2>1. UNCHANGED <<closed, stale, raced>>
        /\ (data' = data \/ (s \in Conns /\ data' = [data EXCEPT ![s] = 0]))
    BY <1>11
  <2> QED BY <1>7, <1>11, <2>1
<1> QED BY <1>2, <1>8, <1>10, <1>11

\* The thread gives the slot back.
LEMMA RemoveSocketStep ==
  ASSUME IInv, NEW p \in Pools, RemoveSocket(p)
  PROVE  IInv'
<1>1. /\ tpc[p] = "remove" /\ tpc' = [tpc EXCEPT ![p] = "destroy"]
      /\ slot' = [slot EXCEPT ![p][found[p]] = None]
      /\ raced' = (raced \/ lpool = p \/ lpc = "look")
      /\ UNCHANGED <<peers, closed, pools, freed, listener, ready, found, stale, crashed>>
  BY DEF RemoveSocket, Emptied
<1>2. PICK f \in {fds[p], stale[p].fds}, n \in {size[p], stale[p].size} :
        /\ fds' = [fds EXCEPT ![p] = f \ {slot[p][found[p]]}]
        /\ size' = [size EXCEPT ![p] = (n - 1) % Word]
  BY DEF RemoveSocket
<1>3. f \in SUBSET Conns /\ n \in 0..Word - 1
  BY <1>2 DEF IInv, TypeOK
<1>4. (n - 1) % Word \in 0..Word - 1
  <2>1. n - 1 \in Int
    BY <1>3
  <2> QED BY <2>1, WordType
<1>5. fds' \in [Pools -> SUBSET Conns] /\ size' \in [Pools -> 0..Word - 1]
  BY <1>2, <1>3, <1>4 DEF IInv, TypeOK
<1>6. \A q \in Pools : tpc'[q] = IF q = p THEN "destroy" ELSE tpc[q]
  BY <1>1 DEF IInv, TypeOK
<1>7. /\ slot' \in [Pools -> [Slots -> Conns \cup {None}]]
      /\ \A q \in Pools, i \in Slots :
           slot'[q][i] = IF q = p /\ i = found[p] THEN None ELSE slot[q][i]
  BY <1>1 DEF IInv, TypeOK
<1>8. TypeOK'
  BY <1>1, <1>5, <1>7 DEF IInv, TypeOK, peers, listener
<1>9. \A x : Placed(x) => Placed(x)'
  BY <1>1, PlacedStays DEF listener
<1>10. ThreadInv'
  BY <1>1, <1>6, <1>9 DEF IInv, ThreadInv
<1>11. SlotInv'
  <2>1. \A q \in Pools, i \in Slots : slot'[q][i] # None => Placed(slot[q][i])'
    <3> TAKE q \in Pools, i \in Slots
    <3> DEFINE x == slot[q][i]
    <3>1. x # None => Placed(x)
      BY DEF IInv, SlotInv
    <3>2. slot'[q][i] # None => slot'[q][i] = slot[q][i]
      BY <1>7
    <3> QED BY <1>9, <3>1, <3>2, Zenon
  <2>2. \A q, r \in Pools, i, k \in Slots :
          slot'[q][i] = slot'[r][k] /\ slot'[q][i] # None => q = r /\ i = k
    BY <1>7 DEF IInv, SlotInv
  <2> QED BY <2>1, <2>2 DEF SlotInv
<1>12. ClosedInv'
  <2> SUFFICES ASSUME NEW x \in Conns, closed[x] > 0
               PROVE  /\ Placed(x)'
                      /\ \A q \in Pools, i \in Slots :
                           slot'[q][i] = x => tpc'[q] = "remove" /\ found[q] = i
    BY <1>1 DEF ClosedInv
  <2>1. x # None
    BY Numbers
  <2> QED BY <1>6, <1>7, <1>9, <2>1 DEF IInv, ClosedInv
<1>13. ListenerInv' /\ DisconnectsOnce'
  BY <1>1 DEF IInv, ListenerInv, DisconnectsOnce, peers, listener
<1> QED BY <1>8, <1>10, <1>11, <1>12, <1>13 DEF IInv

\* The thread takes an empty pool from the list.
LEMMA DestroyStep ==
  ASSUME IInv, NEW p \in Pools, Destroy(p)
  PROVE  IInv'
<1>1. /\ tpc[p] = "destroy" /\ Rest(p, Least(ready[p]))
      /\ UNCHANGED <<peers, closed, pool, freed, listener, found, stale>>
  BY DEF Destroy
<1>2. pools' \in Seq(Pools) /\ crashed' \in BOOLEAN /\ raced' \in BOOLEAN
  <2>1. CASE size[p] = 0
    <3>1. PICK q \in {p} \cup (IF Changing(p) THEN Pools ELSE {}) : pools' = Unlisted(q)
      BY <2>1 DEF Destroy
    <3>2. pools' \in Seq(Pools)
      BY <3>1, UnlistedType DEF IInv
    <3> QED BY <2>1, <3>2 DEF Destroy, Touch, IInv, TypeOK
  <2>2. CASE size[p] # 0
    BY <2>2 DEF Destroy, IInv, TypeOK
  <2> QED BY <2>1, <2>2
<1>3. /\ ready' \in [Pools -> SUBSET Conns]
      /\ tpc' \in [Pools -> Tasks]
      /\ \A q \in Pools : /\ tpc'[q] # "none" => tpc[q] # "none"
                          /\ tpc[q] = "remove" => tpc'[q] = "remove"
  BY <1>1, RestType DEF IInv
<1>4. TypeOK'
  BY <1>1, <1>2, <1>3 DEF IInv, TypeOK, Tasks, peers, pool, listener
<1>5. ThreadInv' /\ SlotInv' /\ ClosedInv'
  BY <1>1, <1>3, SlotsStay DEF pool, listener
<1>6. ListenerInv' /\ DisconnectsOnce'
  BY <1>1 DEF IInv, ListenerInv, DisconnectsOnce, peers, listener
<1> QED BY <1>4, <1>5, <1>6 DEF IInv

\* The thread ends, of an empty pool or of one whose select() failed.
LEMMA ExitStep ==
  ASSUME IInv, NEW p \in Pools, Exit(p) \/ SelectFails(p)
  PROVE  IInv'
<1>1. PICK s \in {"ended", "broken"} :
      /\ tpc[p] = "test" /\ tpc' = [tpc EXCEPT ![p] = s] /\ freed' = freed \cup {p}
      /\ raced' = (raced \/ lpool = p)
      /\ UNCHANGED <<peers, closed, pool, pools, listener, ready, found, stale, crashed>>
  BY DEF Exit, SelectFails
<1>2. TypeOK'
  BY <1>1 DEF IInv, TypeOK, peers, pool, listener
<1>3. ThreadInv' /\ SlotInv' /\ ClosedInv'
  <2>1. \A q \in Pools : /\ tpc'[q] # "none" => tpc[q] # "none"
                         /\ tpc[q] = "remove" => tpc'[q] = "remove"
    BY <1>1 DEF IInv, TypeOK
  <2> QED BY <1>1, <2>1, SlotsStay DEF pool, listener
<1>4. ListenerInv' /\ DisconnectsOnce'
  BY <1>1 DEF IInv, ListenerInv, DisconnectsOnce, peers, listener
<1> QED BY <1>2, <1>3, <1>4 DEF IInv

\* A step in which nothing happens.
LEMMA StutterStep ==
  ASSUME IInv, UNCHANGED vars
  PROVE  IInv'
<1> USE DEF vars, peers, pool, listener, threads
<1>1. TypeOK'
  BY DEF IInv, TypeOK
<1>2. ThreadInv' /\ SlotInv' /\ ClosedInv'
  BY SlotsStay
<1>3. ListenerInv' /\ DisconnectsOnce'
  BY DEF IInv, ListenerInv, DisconnectsOnce
<1> QED BY <1>1, <1>2, <1>3 DEF IInv

\* Every step keeps the invariant.
LEMMA StepInv == IInv /\ [Next]_vars => IInv'
<1> SUFFICES ASSUME IInv, [Next]_vars PROVE IInv'
  OBVIOUS
<1>1. ASSUME NEW c \in Conns, Connect(c) \/ Send(c) \/ Close(c) PROVE IInv'
  BY <1>1, PeerStep
<1>2. CASE Listener
  BY <1>2, AcceptStep, ListenFailsStep, LookStep, CountStep, NewPoolStep, ListStep
     DEF Listener, Placing
<1>3. ASSUME NEW p \in Pools, PoolThread(p) PROVE IInv'
  BY <1>3, SelectStep, ServeStep, RemoveSocketStep, DestroyStep, ExitStep
     DEF PoolThread, Running
<1>4. CASE UNCHANGED vars
  BY <1>4, StutterStep
<1> QED BY <1>1, <1>2, <1>3, <1>4 DEF Next

\* The inductive invariant holds in every reachable state.
THEOREM Invariance == Spec => []IInv
BY InitInv, StepInv, PTL DEF Spec

\* Every variable keeps its type: the list of pools holds pools, whichever
\* entry DestroyPool takes from it, and the count of sockets stays a word.
THEOREM TypeCorrect == Spec => []TypeOK
<1>1. IInv => TypeOK
  BY DEF IInv
<1> QED BY <1>1, Invariance, PTL

\* OnDisconnect is called at most once for a connection, and after all its
\* data was passed on, whatever the unlocked threads do to each other.
THEOREM DisconnectToldOnce == Spec => []DisconnectsOnce
<1>1. IInv => DisconnectsOnce
  BY DEF IInv
<1> QED BY <1>1, Invariance, PTL

-----------------------------------------------------------------------------
(* The pools agree with their slots                                        *)


\* The connection that has a slot of the pool and was not counted yet.
Uncounted(p) == IF lpc = "count" /\ lpool = p THEN {lconn} ELSE {}

\* What the numbers and descriptors of the pools say.
CountInv ==
  /\ \A p \in Pools : fds[p] = Held(p) \ Uncounted(p) /\ size[p] = Cardinality(fds[p])
  /\ lpc = "count" => /\ stale[None] = [fds |-> fds[lpool], size |-> size[lpool]]
                      /\ lconn \in Held(lpool)
  /\ \A p \in Pools : tpc[p] = "remove" =>
       /\ stale[p] = [fds |-> fds[p], size |-> size[p]]
       /\ found[p] \in Slots /\ slot[p][found[p]] = Least(ready[p])

\* A thread serves descriptors of its pool; the one whose socket it has just
\* removed is still in its set.
ReadyInv ==
  \A p \in Pools :
    /\ tpc[p] \in {"serve", "remove", "destroy"} => ready[p] # {}
    /\ tpc[p] \in {"serve", "remove"} => ready[p] \subseteq fds[p]
    /\ tpc[p] = "destroy" => ready[p] \ {Least(ready[p])} \subseteq fds[p]

\* The listener adds to no pool whose thread removes a socket, or has ended
\* with the last socket.
AloneInv ==
  /\ lpc \notin {"count", "list"} => lpool = None
  /\ \A p \in Pools : lpool = p => tpc[p] \in {"test", "serve", "broken", "missing"}
  /\ \A p \in Pools : tpc[p] \in {"none", "ended"} => Held(p) = {}
  /\ \A p \in Pools : p \in freed <=> tpc[p] \in {"ended", "broken"}

\* The list has every pool that has sockets once, but for the one that is not
\* in it yet; and one without them only until its thread has looked.  A pool
\* whose select() failed stays.
ListedInv ==
  /\ \A i, j \in DOMAIN pools : pools[i] = pools[j] => i = j
  /\ lpc = "list" => Held(lpool) # {}
  /\ \A p \in Pools :
       Listed(p) <=> ~(lpc = "list" /\ lpool = p) /\ (Held(p) # {} \/ tpc[p] = "destroy")
  /\ \A p \in Pools : tpc[p] = "broken" => Listed(p)

\* A deleted pool was used only if a select() had failed.
CrashInv == crashed => \E p \in Pools : tpc[p] = "broken"

\* What holds of the pools until two threads have used one together.
Sound == CountInv /\ ReadyInv /\ AloneInv /\ ListedInv /\ CrashInv

PoolInv == ~raced => Sound

\* The types of what the pools are made of.
LEMMA PoolTypes ==
  ASSUME IInv
  PROVE  /\ fds \in [Pools -> SUBSET Conns] /\ size \in [Pools -> 0..Word - 1]
         /\ tpc \in [Pools -> Tasks]
         /\ ready \in [Pools -> SUBSET Conns] /\ found \in [Pools -> Slots \cup {None}]
         /\ slot \in [Pools -> [Slots -> Conns \cup {None}]]
         /\ stale \in [Pools \cup {None} -> [fds : SUBSET Conns, size : 0..Word - 1]]
         /\ pools \in Seq(Pools) /\ DOMAIN pools = 1..Len(pools) /\ Len(pools) \in Nat
         /\ lpool \in Pools \cup {None} /\ lconn \in Conns \cup {None}
         /\ None \notin Pools /\ freed \subseteq Pools
         /\ lpc \in {"accept", "look", "count", "list", "ended"} /\ raced \in BOOLEAN
BY Numbers DEF IInv, TypeOK, Tasks

\* A pool holds as many connections as it has slots, at most.
LEMMA HeldType ==
  ASSUME IInv, NEW p \in Pools
  PROVE  /\ Held(p) \subseteq Conns /\ IsFiniteSet(Held(p)) /\ Cardinality(Held(p)) <= Width
         /\ \A c : c \in Held(p) <=> c # None /\ \E j \in Slots : slot[p][j] = c
<1> DEFINE S == {slot[p][j] : j \in Slots}
           f == [j \in Slots |-> slot[p][j]]
<1>1. Held(p) \subseteq Conns
  BY PoolTypes DEF Held
<1>2. f \in Surjection(Slots, S)
  BY DEF Surjection
<1>3. IsFiniteSet(Slots) /\ Cardinality(Slots) = Width
  BY SocketAssumption, FS_Interval DEF Slots
<1>4. IsFiniteSet(S) /\ Cardinality(S) <= Width
  BY <1>2, <1>3, FS_Surjection
<1>5. Held(p) \in SUBSET S
  BY DEF Held
<1>6. IsFiniteSet(Held(p)) /\ Cardinality(Held(p)) <= Cardinality(S) /\ Cardinality(Held(p)) \in Nat
      /\ Cardinality(S) \in Nat
  BY <1>4, <1>5, FS_Subset, FS_CardinalityType
<1>7. Cardinality(Held(p)) <= Width
  BY <1>4, <1>6, SocketAssumption
<1> QED BY <1>1, <1>6, <1>7 DEF Held

\* Descriptors of a pool are connections, and a count of none is no descriptor.
LEMMA DescriptorType ==
  ASSUME IInv, NEW p \in Pools
  PROVE  /\ IsFiniteSet(fds[p]) /\ Cardinality(fds[p]) \in Nat
         /\ (Cardinality(fds[p]) = 0 <=> fds[p] = {})
<1>1. fds[p] \in SUBSET Conns
  BY PoolTypes
<1>2. IsFiniteSet(fds[p])
  BY <1>1, SocketAssumption, FS_Subset
<1> QED BY <1>2, FS_CardinalityType, FS_EmptySet

\* The least of a thread's descriptors is one of them.
LEMMA LeastReady ==
  ASSUME IInv, NEW p \in Pools, ready[p] # {}
  PROVE  Least(ready[p]) \in ready[p] /\ Least(ready[p]) \in Conns
<1>1. ready[p] \in SUBSET Conns /\ ready[p] \in SUBSET Nat
  BY PoolTypes, Numbers
<1>2. Least(ready[p]) \in ready[p]
  BY <1>1, LeastIsIn
<1> QED BY <1>1, <1>2

\* The initial state.
LEMMA InitPools == Init => PoolInv
<1> SUFFICES ASSUME Init PROVE Sound
  BY DEF PoolInv
<1>1. \A p \in Pools : Held(p) = {} /\ fds[p] = {} /\ size[p] = 0 /\ tpc[p] = "none"
  BY DEF Init, Held
<1>2. lpc = "accept" /\ lpool = None /\ freed = {} /\ pools = <<>> /\ crashed = FALSE
  BY DEF Init
<1>3. DOMAIN pools = {}
  BY <1>2
<1>4. CountInv
  BY <1>1, <1>2, FS_EmptySet DEF CountInv, Uncounted
<1>5. ReadyInv
  BY <1>1 DEF ReadyInv
<1>6. AloneInv
  BY <1>1, <1>2, Numbers DEF AloneInv
<1>7. ListedInv
  BY <1>1, <1>2, <1>3 DEF ListedInv, Listed
<1> QED BY <1>2, <1>4, <1>5, <1>6, <1>7 DEF Sound, CrashInv

\* Steps that leave the pools and the threads.
LEMMA PoolsStay ==
  ASSUME Sound, UNCHANGED <<pool, pools, freed, lpool, tpc, ready, found, stale, crashed>>,
         {lpc, lpc'} \subseteq {"accept", "look", "ended"} \/ UNCHANGED <<lpc, lconn>>
  PROVE  Sound'
<1> USE DEF pool
<1>1. \A p : Held(p)' = Held(p) /\ Uncounted(p)' = Uncounted(p) /\ Listed(p)' = Listed(p)
  BY DEF Held, Uncounted, Listed
<1>2. CountInv'
  BY <1>1 DEF Sound, CountInv
<1>3. ReadyInv'
  BY DEF Sound, ReadyInv
<1>4. AloneInv'
  BY <1>1 DEF Sound, AloneInv
<1>5. ListedInv'
  BY <1>1 DEF Sound, ListedInv
<1>6. CrashInv'
  BY DEF Sound, CrashInv
<1> QED BY <1>2, <1>3, <1>4, <1>5, <1>6 DEF Sound

\* The peers and the listener before it has found a pool.
LEMMA QuietPools ==
  ASSUME Sound, \/ \E c \in Conns : Connect(c) \/ Send(c) \/ Close(c)
                \/ Accept \/ AcceptFails \/ ListenFails
                \/ UNCHANGED vars
  PROVE  Sound'
BY PoolsStay DEF Connect, Send, Close, Accept, AcceptFails, ListenFails, vars, pool, threads,
                 listener

\* No pool is being taken from the list, as far as the listener can see, unless
\* it meets the thread that does.
LEMMA NotChanging ==
  ASSUME NEW p \in Pools, None \notin Pools, ~Changing(p), tpc[p] # "destroy"
  PROVE  ~Changing(None)
BY DEF Changing

\* A pool in the list has a thread, which may be taking it out of the list, or
\* none because a call failed.
LEMMA ListedRuns ==
  ASSUME IInv, Sound, NEW p \in Pools, Listed(p)
  PROVE  /\ tpc[p] \in {"test", "serve", "remove", "destroy", "broken", "missing"}
         /\ p \in freed <=> tpc[p] = "broken"
<1>1. Held(p) # {} \/ tpc[p] = "destroy"
  BY DEF Sound, ListedInv
<1>2. tpc[p] \notin {"none", "ended"}
  BY <1>1 DEF Sound, AloneInv
<1> QED BY <1>2, PoolTypes DEF Sound, AloneInv, Tasks

\* The listener looks at a pool and takes a slot.
LEMMA LookPools ==
  ASSUME IInv, Sound, Look, ~raced'
  PROVE  Sound'
<1> USE Numbers
<1>1. PICK p \in Pools : lpc = "look" /\ LookAt(p) /\ Listed(p)
  <2>1. pools \in Seq(Pools) /\ lindex \in 1..Len(pools) /\ DOMAIN pools = 1..Len(pools)
    BY PoolTypes DEF Look, IInv, TypeOK
  <2>2. pools[lindex] \in Pools /\ Listed(pools[lindex])
    BY <2>1, ElementOfSeq DEF Listed
  <2> QED BY <2>2 DEF Look
<1>2. /\ UNCHANGED <<peers, closed, fds, size, pools, freed, lconn, threads>>
      /\ ~raced /\ tpc[p] \notin {"remove", "destroy"} /\ ~Changing(p)
  BY <1>1 DEF LookAt
<1>3. tpc[p] \in {"test", "serve", "broken", "missing"} /\ (p \in freed <=> tpc[p] = "broken")
  BY <1>1, <1>2, ListedRuns
<1>4. CrashInv'
  <2>1. ~Changing(None)
    BY <1>1, <1>2, <1>3, NotChanging, PoolTypes
  <2>2. crashed' => p \in freed
    BY <1>1, <2>1 DEF LookAt, Touch
  <2> QED BY <1>2, <1>3, <2>2 DEF CrashInv, threads
<1>5. CASE lindex' = lindex + 1 /\ UNCHANGED <<slot, lpool, lpc, stale>>
  <2> USE DEF pool, threads
  <2>1. \A q : Held(q)' = Held(q) /\ Uncounted(q)' = Uncounted(q) /\ Listed(q)' = Listed(q)
    BY <1>2, <1>5 DEF Held, Uncounted, Listed
  <2>2. CountInv' /\ ReadyInv'
    BY <1>2, <1>5, <2>1 DEF Sound, CountInv, ReadyInv
  <2>3. AloneInv' /\ ListedInv'
    BY <1>2, <1>5, <2>1 DEF Sound, AloneInv, ListedInv
  <2> QED BY <1>4, <2>2, <2>3 DEF Sound
<1>6. CASE /\ Free(p) # {} /\ slot' = [slot EXCEPT ![p][Least(Free(p))] = lconn]
           /\ stale' = [stale EXCEPT ![None] = [fds |-> fds[p], size |-> size[p]]]
           /\ lpool' = p /\ lpc' = "count" /\ lindex' = lindex
  <2> DEFINE j == Least(Free(p))
  <2>1. j \in Slots /\ slot[p][j] = None
    <3>1. Free(p) \in SUBSET Nat
      BY DEF Free
    <3>2. j \in Free(p)
      BY <1>6, <3>1, LeastIsIn
    <3> QED BY <3>2 DEF Free
  <2>2. slot' = [slot EXCEPT ![p][j] = lconn]
    BY <1>6
  <2> HIDE DEF j
  <2>3. lconn \in Conns /\ lconn # None /\ \A q \in Pools, i \in Slots : slot[q][i] # lconn
    BY <1>1, FreshConnection
  <2>4. \A q \in Pools, i \in Slots : slot'[q][i] = IF q = p /\ i = j THEN lconn ELSE slot[q][i]
    BY <1>1, <2>1, <2>2, PoolTypes
  <2>5. Held(p)' = Held(p) \cup {lconn}
    BY <1>1, <2>1, <2>3, <2>4 DEF Held
  <2>6. \A q \in Pools \ {p} : Held(q)' = Held(q)
    <3> TAKE q \in Pools \ {p}
    <3>1. \A i \in Slots : slot'[q][i] = slot[q][i]
      BY <2>4
    <3> QED BY <3>1 DEF Held
  <2>7. lconn \notin Held(p)
    BY <1>1, <2>3 DEF Held
  <2>8. \A q \in Pools : Uncounted(q) = {} /\ Uncounted(q)' = IF q = p THEN {lconn} ELSE {}
    BY <1>1, <1>2, <1>6 DEF Uncounted
  <2>9. stale'[None] = [fds |-> fds[p], size |-> size[p]] /\ \A q \in Pools : stale'[q] = stale[q]
    BY <1>6, PoolTypes
  <2>10. CountInv'
    <3>0. \A q \in Pools : fds[q] = Held(q) \ Uncounted(q) /\ size[q] = Cardinality(fds[q])
      BY DEF Sound, CountInv
    <3>1. \A q \in Pools : fds[q] = Held(q) /\ size[q] = Cardinality(fds[q])
      BY <2>8, <3>0
    <3>2. \A q \in Pools : fds'[q] = Held(q)' \ Uncounted(q)' /\ size'[q] = Cardinality(fds'[q])
      BY <1>2, <2>5, <2>6, <2>7, <2>8, <3>1
    <3>3. stale'[None] = [fds |-> fds'[lpool'], size |-> size'[lpool']] /\ lconn' \in Held(p)'
      BY <1>2, <1>6, <2>5, <2>9
    <3>4. ASSUME NEW q \in Pools, tpc'[q] = "remove"
          PROVE  /\ stale'[q] = [fds |-> fds'[q], size |-> size'[q]]
                 /\ found'[q] \in Slots /\ slot'[q][found'[q]] = Least(ready'[q])
      <4>1. tpc[q] = "remove" /\ q # p /\ found' = found /\ ready' = ready
        BY <1>2, <3>4 DEF threads
      <4> QED BY <1>2, <2>4, <2>9, <4>1 DEF Sound, CountInv
    <3> QED BY <1>6, <3>2, <3>3, <3>4 DEF CountInv
  <2>11. ReadyInv'
    BY <1>2 DEF Sound, ReadyInv, threads
  <2>12. AloneInv'
    BY <1>2, <1>3, <1>6, <2>6 DEF Sound, AloneInv, threads
  <2>13. ListedInv'
    <3>1. \A q : Listed(q)' = Listed(q)
      BY <1>2 DEF Listed
    <3> QED BY <1>1, <1>2, <1>6, <2>5, <2>6, <3>1 DEF Sound, ListedInv, threads
  <2> QED BY <1>4, <2>10, <2>11, <2>12, <2>13 DEF Sound
<1> QED BY <1>1, <1>5, <1>6 DEF LookAt

\* The listener counts the connection in: no thread has written the descriptors
\* or the number since it took the slot, and the number stays below a word.
LEMMA CountPools ==
  ASSUME IInv, Sound, Count
  PROVE  Sound'
<1> USE Numbers
<1>0. PICK p \in Pools : lpool = p
  BY DEF Count, IInv, ListenerInv
<1>1. /\ lpc = "count" /\ lpc' = "accept" /\ lconn \in Conns /\ lpool' = None
      /\ UNCHANGED <<peers, closed, slot, pools, freed, lconn, lindex, threads, stale, raced>>
  BY DEF Count, IInv, ListenerInv
<1>2. /\ fds[p] = Held(p) \ {lconn} /\ size[p] = Cardinality(fds[p]) /\ lconn \in Held(p)
      /\ stale[None] = [fds |-> fds[p], size |-> size[p]]
      /\ \A q \in Pools \ {p} : fds[q] = Held(q) /\ size[q] = Cardinality(fds[q])
  <2>1. CountInv
    BY DEF Sound
  <2>2. lconn \in Held(p) /\ stale[None] = [fds |-> fds[p], size |-> size[p]]
    BY <1>0, <1>1, <2>1 DEF CountInv
  <2>3. \A q \in Pools : Uncounted(q) = IF q = p THEN {lconn} ELSE {}
    BY <1>0, <1>1 DEF Uncounted
  <2>4. \A q \in Pools : fds[q] = Held(q) \ Uncounted(q) /\ size[q] = Cardinality(fds[q])
    BY <2>1 DEF CountInv
  <2> QED BY <2>2, <2>3, <2>4
<1>3. fds' = [fds EXCEPT ![p] = fds[p] \cup {lconn}] /\ size' = [size EXCEPT ![p] = (size[p] + 1) % Word]
  <2>1. PICK f \in {fds[p], stale[None].fds}, n \in {size[p], stale[None].size} :
          /\ fds' = [fds EXCEPT ![p] = f \cup {lconn}]
          /\ size' = [size EXCEPT ![p] = (n + 1) % Word]
    BY <1>0 DEF Count
  <2>2. f = fds[p] /\ n = size[p]
    BY <1>2, <2>1
  <2> QED BY <2>1, <2>2
<1>4. fds[p] \cup {lconn} = Held(p)
  BY <1>2
<1>5. (size[p] + 1) % Word = Cardinality(Held(p))
  <2>1. IsFiniteSet(fds[p]) /\ Cardinality(fds[p]) \in Nat
    BY <1>1, DescriptorType
  <2>2. lconn \notin fds[p]
    BY <1>2
  <2>3. Cardinality(Held(p)) = Cardinality(fds[p]) + 1
    BY <1>4, <2>1, <2>2, FS_AddElement
  <2>4. Cardinality(Held(p)) <= Width
    BY <1>1, HeldType
  <2>5. size[p] + 1 \in 0..Word - 1
    BY <1>2, <2>1, <2>3, <2>4, SocketAssumption
  <2>6. (size[p] + 1) % Word = size[p] + 1
    BY <2>5
  <2> QED BY <1>2, <2>3, <2>6
<1>6. tpc[p] \in {"test", "serve", "broken", "missing"} /\ (p \in freed <=> tpc[p] = "broken")
  BY <1>0 DEF Sound, AloneInv
<1>7. CrashInv'
  BY <1>0, <1>1, <1>6 DEF Count, Touch, CrashInv, threads
<1>8. \A q \in Pools : /\ fds'[q] = IF q = p THEN Held(p) ELSE fds[q]
                       /\ size'[q] = IF q = p THEN Cardinality(Held(p)) ELSE size[q]
  BY <1>1, <1>3, <1>4, <1>5, PoolTypes
<1>9. \A q : Held(q)' = Held(q) /\ Listed(q)' = Listed(q) /\ Uncounted(q)' = {}
  BY <1>1 DEF Held, Listed, Uncounted
<1>10. CountInv'
  <2>1. \A q \in Pools : fds'[q] = Held(q)' \ Uncounted(q)' /\ size'[q] = Cardinality(fds'[q])
    BY <1>2, <1>8, <1>9
  <2>2. ASSUME NEW q \in Pools, tpc'[q] = "remove"
        PROVE  /\ stale'[q] = [fds |-> fds'[q], size |-> size'[q]]
               /\ found'[q] \in Slots /\ slot'[q][found'[q]] = Least(ready'[q])
    <3>1. tpc[q] = "remove" /\ q # p
      BY <1>1, <1>6, <2>2 DEF threads
    <3> QED BY <1>1, <1>8, <3>1 DEF Sound, CountInv, threads
  <2> QED BY <1>1, <2>1, <2>2 DEF CountInv
<1>11. ReadyInv'
  <2>1. \A q \in Pools : fds[q] \subseteq fds'[q]
    BY <1>2, <1>8
  <2> QED BY <1>1, <2>1 DEF Sound, ReadyInv, threads
<1>12. AloneInv'
  BY <1>1, <1>9 DEF Sound, AloneInv, threads
<1>13. ListedInv'
  BY <1>1, <1>9 DEF Sound, ListedInv, threads
<1> QED BY <1>7, <1>10, <1>11, <1>12, <1>13 DEF Sound

\* The listener makes a pool, whose thread starts before it is in the list.
LEMMA NewPoolPools ==
  ASSUME IInv, Sound, NewPool
  PROVE  Sound'
<1> USE Numbers
<1>0. PICK p \in Pools : lconn = p
  BY FreshConnection DEF NewPool
<1>1. PICK s \in {"test", "missing"} :
      /\ lpc = "look" /\ lpc' = "list" /\ lpool' = p
      /\ slot' = [slot EXCEPT ![p][1] = p]
      /\ fds' = [fds EXCEPT ![p] = {p}] /\ size' = [size EXCEPT ![p] = 1]
      /\ tpc' = [tpc EXCEPT ![p] = s]
      /\ UNCHANGED <<peers, closed, pools, freed, lconn, lindex, ready, found, stale, raced,
                     crashed>>
  BY <1>0 DEF NewPool
<1>2. p # None /\ tpc[p] = "none"
  BY <1>0, <1>1, FreshConnection
<1>3. Held(p) = {} /\ ~Listed(p) /\ p \notin freed
  <2>1. Held(p) = {} /\ p \notin freed
    BY <1>2 DEF Sound, AloneInv
  <2>2. ~Listed(p)
    BY <1>2, <2>1 DEF Sound, ListedInv
  <2> QED BY <2>1, <2>2
<1>4. \A q \in Pools : /\ fds'[q] = IF q = p THEN {p} ELSE fds[q]
                       /\ size'[q] = IF q = p THEN 1 ELSE size[q]
                       /\ tpc'[q] = IF q = p THEN s ELSE tpc[q]
  BY <1>1, <1>2, PoolTypes
<1>5. \A q \in Pools, i \in Slots : slot'[q][i] = IF q = p /\ i = 1 THEN p ELSE slot[q][i]
  BY <1>1, <1>2, PoolTypes
<1>6. Held(p)' = {p}
  <2>1. \A i \in Slots : slot[p][i] = None
    BY <1>3 DEF Held
  <2>2. \A i \in Slots : slot'[p][i] = IF i = 1 THEN p ELSE None
    BY <1>2, <1>5, <2>1
  <2> QED BY <1>2, <2>2 DEF Held
<1>7. \A q \in Pools \ {p} : Held(q)' = Held(q)
  BY <1>5 DEF Held
<1>8. \A q \in Pools : Uncounted(q) = {} /\ Uncounted(q)' = {} /\ Listed(q)' = Listed(q)
  BY <1>1 DEF Uncounted, Listed
<1>9. CountInv'
  <2>1. \A q \in Pools : fds'[q] = Held(q)' \ Uncounted(q)' /\ size'[q] = Cardinality(fds'[q])
    <3> TAKE q \in Pools
    <3>1. CASE q = p
      BY <1>4, <1>6, <1>8, <3>1, FS_Singleton
    <3>2. CASE q # p
      <4>1. fds[q] = Held(q) \ Uncounted(q) /\ size[q] = Cardinality(fds[q])
        BY DEF Sound, CountInv
      <4>2. Held(q)' = Held(q) /\ fds'[q] = fds[q] /\ size'[q] = size[q]
        BY <1>4, <1>7, <3>2
      <4> QED BY <1>8, <4>1, <4>2
    <3> QED BY <3>1, <3>2
  <2>2. ASSUME NEW q \in Pools, tpc'[q] = "remove"
        PROVE  /\ stale'[q] = [fds |-> fds'[q], size |-> size'[q]]
               /\ found'[q] \in Slots /\ slot'[q][found'[q]] = Least(ready'[q])
    <3>1. tpc[q] = "remove" /\ q # p
      BY <1>2, <1>4, <2>2
    <3>2. /\ stale[q] = [fds |-> fds[q], size |-> size[q]]
          /\ found[q] \in Slots /\ slot[q][found[q]] = Least(ready[q])
      BY <3>1 DEF Sound, CountInv
    <3> QED BY <1>1, <1>4, <1>5, <3>1, <3>2
  <2> QED BY <1>1, <2>1, <2>2 DEF CountInv
<1>10. ReadyInv'
  BY <1>1, <1>4 DEF Sound, ReadyInv
<1>11. AloneInv'
  <2>1. lpool' = p /\ lpc' = "list"
    BY <1>1
  <2> QED BY <1>1, <1>2, <1>3, <1>4, <1>7, <2>1 DEF Sound, AloneInv
<1>12. ListedInv'
  BY <1>1, <1>2, <1>3, <1>4, <1>6, <1>7, <1>8 DEF Sound, ListedInv
<1>13. CrashInv'
  BY <1>1, <1>2, <1>4 DEF Sound, CrashInv
<1> QED BY <1>9, <1>10, <1>11, <1>12, <1>13 DEF Sound

\* The new pool comes into the list.
LEMMA ListPools ==
  ASSUME IInv, Sound, List
  PROVE  Sound'
<1> USE Numbers
<1>1. /\ lpc = "list" /\ lpc' = "accept" /\ pools' = Append(pools, lpool) /\ lpool' = None
      /\ UNCHANGED <<peers, closed, pool, freed, lconn, lindex, threads, stale, raced>>
      /\ crashed' => lpool \in freed
  BY DEF List, Touch
<1>2. lpool \in Pools
  BY <1>1 DEF IInv, ListenerInv
<1>3. pools \in Seq(Pools) /\ DOMAIN pools = 1..Len(pools) /\ Len(pools) \in Nat
  BY PoolTypes
<1>4. /\ pools' \in Seq(Pools) /\ Len(pools') = Len(pools) + 1
      /\ \A i \in 1..Len(pools) : pools'[i] = pools[i]
      /\ pools'[Len(pools) + 1] = lpool
  BY <1>1, <1>2, <1>3, AppendProperties
<1>5. DOMAIN pools' = 1..Len(pools) + 1
  BY <1>4, LenProperties
<1>6. \A q : Listed(q)' <=> Listed(q) \/ q = lpool
  BY <1>3, <1>4, <1>5 DEF Listed
<1>7. \A q : Held(q)' = Held(q) /\ Uncounted(q)' = {} /\ Uncounted(q) = {}
  BY <1>1 DEF Held, Uncounted, pool
<1>8. ~Listed(lpool) /\ Held(lpool) # {}
  BY <1>1, <1>2 DEF Sound, ListedInv
<1>9. CountInv'
  BY <1>1, <1>7 DEF Sound, CountInv, pool, threads
<1>10. ReadyInv'
  BY <1>1 DEF Sound, ReadyInv, pool, threads
<1>11. AloneInv'
  BY <1>1, <1>7 DEF Sound, AloneInv, threads
<1>12. ListedInv'
  <2>1. \A i, j \in DOMAIN pools' : pools'[i] = pools'[j] => i = j
    <3>1. \A i \in 1..Len(pools) : pools[i] # lpool
      BY <1>3, <1>8 DEF Listed
    <3>2. \A i, j \in 1..Len(pools) : pools[i] = pools[j] => i = j
      BY <1>3 DEF Sound, ListedInv
    <3> QED BY <1>3, <1>4, <1>5, <3>1, <3>2
  <2>2. \A q \in Pools : Listed(q)' <=> Held(q)' # {} \/ tpc'[q] = "destroy"
    BY <1>1, <1>6, <1>7, <1>8 DEF Sound, ListedInv, threads
  <2>3. \A q \in Pools : tpc'[q] = "broken" => Listed(q)'
    BY <1>1, <1>6 DEF Sound, ListedInv, threads
  <2> QED BY <1>1, <2>1, <2>2, <2>3 DEF ListedInv
<1>13. CrashInv'
  <2>1. PICK p \in Pools : p = lpool
    BY <1>2
  <2>2. p \in freed => tpc[p] = "broken"
    BY <2>1 DEF Sound, AloneInv
  <2> QED BY <1>1, <2>1, <2>2 DEF CrashInv, threads
<1> QED BY <1>9, <1>10, <1>11, <1>12, <1>13 DEF Sound

\* A thread's select returns descriptors of its pool.
LEMMA SelectPools ==
  ASSUME IInv, Sound, NEW p \in Pools, Select(p)
  PROVE  Sound'
<1>1. /\ tpc[p] = "test" /\ ready' = [ready EXCEPT ![p] = {c \in fds[p] : Readable(c)}]
      /\ ready'[p] # {} /\ tpc' = [tpc EXCEPT ![p] = "serve"]
      /\ UNCHANGED <<peers, closed, pool, pools, freed, listener, found, stale, raced, crashed>>
  BY DEF Select
<1>2. \A q \in Pools : /\ tpc'[q] = IF q = p THEN "serve" ELSE tpc[q]
                       /\ q # p => ready'[q] = ready[q]
  BY <1>1, PoolTypes
<1>3. ready'[p] \subseteq fds[p]
  BY <1>1, PoolTypes
<1>4. \A q : Held(q)' = Held(q) /\ Listed(q)' = Listed(q) /\ Uncounted(q)' = Uncounted(q)
  BY <1>1 DEF Held, Listed, Uncounted, pool, listener
<1>5. CountInv'
  BY <1>1, <1>2, <1>4 DEF Sound, CountInv, pool, listener
<1>6. ReadyInv'
  BY <1>1, <1>2, <1>3 DEF Sound, ReadyInv, pool
<1>7. AloneInv'
  BY <1>1, <1>2, <1>4 DEF Sound, AloneInv, listener
<1>8. ListedInv'
  BY <1>1, <1>2, <1>4 DEF Sound, ListedInv, listener
<1>9. CrashInv'
  BY <1>1, <1>2 DEF Sound, CrashInv
<1> QED BY <1>5, <1>6, <1>7, <1>8, <1>9 DEF Sound

\* The next descriptor, when the sockets of all before it that were closed have
\* been removed.
LEMMA RestPools ==
  ASSUME IInv, NEW p \in Pools, NEW c, c = Least(ready[p]), ready[p] # {},
         ready[p] \ {c} \subseteq fds[p], Rest(p, c)
  PROVE  /\ \A q \in Pools : q # p => tpc'[q] = tpc[q] /\ ready'[q] = ready[q]
         /\ tpc'[p] \in {"test", "serve"}
         /\ tpc'[p] = "serve" => ready'[p] # {} /\ ready'[p] \subseteq fds[p]
<1>1. /\ ready' = [ready EXCEPT ![p] = ready[p] \ {c}]
      /\ tpc' = [tpc EXCEPT ![p] = IF ready[p] = {c} THEN "test" ELSE "serve"]
  BY DEF Rest
<1>2. ready'[p] = ready[p] \ {c} /\ tpc'[p] = IF ready[p] = {c} THEN "test" ELSE "serve"
  BY <1>1, PoolTypes
<1>3. c \in ready[p]
  BY LeastReady
<1> QED BY <1>1, <1>2, <1>3, PoolTypes

\* A thread serves a descriptor of a connection that has a slot.
LEMMA ServePools ==
  ASSUME IInv, Sound, NEW p \in Pools, Serve(p), ~raced'
  PROVE  Sound'
<1>1. tpc[p] = "serve" /\ UNCHANGED <<peer, sent, pool, pools, freed, listener, crashed>>
  BY DEF Serve
<1>2. PICK c : c = Least(ready[p])
  OBVIOUS
<1>3. PICK j : j = Search(p, c)
  OBVIOUS
<1>4. /\ found' = [found EXCEPT ![p] = j]
      /\ \/ j = None /\ Rest(p, c) /\ UNCHANGED <<data, closed, stale, raced>>
         \/ j # None /\ Receive(slot[p][j]) /\ Rest(p, c)
         \/ j # None /\ Closed(p, slot[p][j])
  BY <1>2, <1>3 DEF Serve
<1>5. ready[p] # {} /\ ready[p] \subseteq fds[p] /\ c \in ready[p]
  BY <1>1, <1>2, LeastReady DEF Sound, ReadyInv
<1>6. \A q : Held(q)' = Held(q) /\ Listed(q)' = Listed(q) /\ Uncounted(q)' = Uncounted(q)
  BY <1>1 DEF Held, Listed, Uncounted, pool, listener
<1>7. \A q \in Pools : q # p => found'[q] = found[q]
  BY <1>4, PoolTypes
<1>8. CASE Rest(p, c) /\ stale' = stale
  <2>1. /\ \A q \in Pools : q # p => tpc'[q] = tpc[q] /\ ready'[q] = ready[q]
        /\ tpc'[p] \in {"test", "serve"}
        /\ tpc'[p] = "serve" => ready'[p] # {} /\ ready'[p] \subseteq fds[p]
    <3>1. ready[p] \ {c} \subseteq fds[p]
      BY <1>5
    <3> QED BY <1>2, <1>5, <1>8, <3>1, RestPools
  <2>2. CountInv'
    BY <1>1, <1>6, <1>7, <1>8, <2>1 DEF Sound, CountInv, pool, listener
  <2>3. ReadyInv'
    BY <1>1, <2>1 DEF Sound, ReadyInv, pool
  <2>4. AloneInv'
    BY <1>1, <1>6, <2>1 DEF Sound, AloneInv, listener
  <2>5. ListedInv'
    BY <1>1, <1>6, <2>1 DEF Sound, ListedInv, listener
  <2>6. CrashInv'
    BY <1>1, <2>1 DEF Sound, CrashInv
  <2> QED BY <2>2, <2>3, <2>4, <2>5, <2>6 DEF Sound
<1>9. CASE j # None /\ Closed(p, slot[p][j])
  <2>1. /\ stale' = [stale EXCEPT ![p] = [fds |-> fds[p], size |-> size[p]]]
        /\ tpc' = [tpc EXCEPT ![p] = "remove"] /\ ready' = ready /\ lpool # p
    BY <1>9 DEF Closed
  <2>2. \A q \in Pools : /\ tpc'[q] = IF q = p THEN "remove" ELSE tpc[q]
                         /\ q # p => stale'[q] = stale[q]
    BY <2>1, PoolTypes
  <2>3. stale'[p] = [fds |-> fds[p], size |-> size[p]] /\ stale'[None] = stale[None]
    BY <2>1, PoolTypes
  <2>4. j \in Slots /\ slot[p][j] = c /\ found'[p] = j
    <3>1. size[p] # 0
      <4>1. fds[p] # {} /\ size[p] = Cardinality(fds[p])
        BY <1>5 DEF Sound, CountInv
      <4> QED BY <4>1, DescriptorType
    <3>2. j = Least(Matches(p, c)) /\ Matches(p, c) # {}
      BY <1>3, <1>9, <3>1 DEF Search
    <3>3. Matches(p, c) \in SUBSET Nat
      BY Numbers DEF Matches
    <3>4. j \in Matches(p, c)
      BY <3>2, <3>3, LeastIsIn
    <3> QED BY <1>4, <3>4, PoolTypes DEF Matches
  <2>5. CountInv'
    <3>1. \A q \in Pools : fds'[q] = Held(q)' \ Uncounted(q)' /\ size'[q] = Cardinality(fds'[q])
      BY <1>1, <1>6 DEF Sound, CountInv, pool
    <3>2. lpc' = "count" => /\ stale'[None] = [fds |-> fds'[lpool'], size |-> size'[lpool']]
                            /\ lconn' \in Held(lpool)'
      <4>1. \A q : q = lpool' => q = lpool
        BY <1>1 DEF listener
      <4>2. \A q : q = lpool /\ lpc = "count" => lconn \in Held(q)
        BY DEF Sound, CountInv
      <4>3. lpc' = "count" => lconn' \in Held(lpool)'
        BY <1>1, <1>6, <4>1, <4>2 DEF listener
      <4> QED BY <1>1, <2>3, <4>3 DEF Sound, CountInv, pool, listener
    <3>3. ASSUME NEW q \in Pools, tpc'[q] = "remove"
          PROVE  /\ stale'[q] = [fds |-> fds'[q], size |-> size'[q]]
                 /\ found'[q] \in Slots /\ slot'[q][found'[q]] = Least(ready'[q])
      <4>1. CASE q = p
        BY <1>1, <1>2, <2>1, <2>3, <2>4, <4>1 DEF pool
      <4>2. CASE q # p
        BY <1>1, <1>7, <2>1, <2>2, <3>3, <4>2 DEF Sound, CountInv, pool
      <4> QED BY <4>1, <4>2
    <3> QED BY <1>1, <1>6, <3>1, <3>2, <3>3 DEF CountInv, listener
  <2>6. ReadyInv'
    BY <1>1, <1>5, <2>1, <2>2 DEF Sound, ReadyInv, pool
  <2>7. AloneInv'
    BY <1>1, <1>6, <2>1, <2>2 DEF Sound, AloneInv, listener
  <2>8. ListedInv'
    BY <1>1, <1>6, <2>2 DEF Sound, ListedInv, listener
  <2>9. CrashInv'
    BY <1>1, <2>2 DEF Sound, CrashInv
  <2> QED BY <2>5, <2>6, <2>7, <2>8, <2>9 DEF Sound
<1> QED BY <1>4, <1>8, <1>9 DEF Receive

\* A thread removes a socket: the listener has not written the descriptors or
\* the number since the thread read them.
LEMMA RemovePools ==
  ASSUME IInv, Sound, NEW p \in Pools, RemoveSocket(p), ~raced'
  PROVE  Sound'
<1> USE Numbers
<1>1. /\ tpc[p] = "remove" /\ tpc' = [tpc EXCEPT ![p] = "destroy"]
      /\ slot' = [slot EXCEPT ![p][found[p]] = None] /\ lpool # p
      /\ UNCHANGED <<peers, closed, pools, freed, listener, ready, found, stale, crashed>>
  BY DEF RemoveSocket, Emptied
<1>2. PICK c : c = slot[p][found[p]]
  OBVIOUS
<1>3. /\ stale[p] = [fds |-> fds[p], size |-> size[p]] /\ found[p] \in Slots
      /\ c = Least(ready[p]) /\ ready[p] # {} /\ ready[p] \subseteq fds[p]
  BY <1>1, <1>2 DEF Sound, CountInv, ReadyInv
<1>4. c \in fds[p] /\ c \in Conns /\ c \in ready[p]
  BY <1>3, LeastReady
<1>5. fds[p] = Held(p) /\ size[p] = Cardinality(fds[p])
  <2>1. fds[p] = Held(p) \ Uncounted(p) /\ size[p] = Cardinality(fds[p])
    BY DEF Sound, CountInv
  <2>2. Uncounted(p) = {}
    BY <1>1 DEF Uncounted
  <2> QED BY <2>1, <2>2
<1>6. fds' = [fds EXCEPT ![p] = fds[p] \ {c}] /\ size' = [size EXCEPT ![p] = (size[p] - 1) % Word]
  <2>1. PICK f \in {fds[p], stale[p].fds}, n \in {size[p], stale[p].size} :
          /\ fds' = [fds EXCEPT ![p] = f \ {c}]
          /\ size' = [size EXCEPT ![p] = (n - 1) % Word]
    BY <1>2 DEF RemoveSocket
  <2>2. f = fds[p] /\ n = size[p]
    BY <1>3, <2>1
  <2> QED BY <2>1, <2>2
<1>7. (size[p] - 1) % Word = Cardinality(fds[p] \ {c})
  <2>1. IsFiniteSet(fds[p]) /\ Cardinality(fds[p]) \in Nat /\ Cardinality(fds[p]) # 0
    BY <1>4, DescriptorType
  <2>2. Cardinality(fds[p] \ {c}) = Cardinality(fds[p]) - 1
    BY <1>4, <2>1, FS_RemoveElement
  <2>3. size[p] \in 0..Word - 1
    BY PoolTypes
  <2>4. size[p] - 1 \in 0..Word - 1
    BY <1>5, <2>1, <2>3
  <2>5. (size[p] - 1) % Word = size[p] - 1
    BY <2>4, SmallWord
  <2> QED BY <1>5, <2>2, <2>5
<1>8. \A q \in Pools : /\ fds'[q] = IF q = p THEN fds[p] \ {c} ELSE fds[q]
                       /\ size'[q] = IF q = p THEN Cardinality(fds[p] \ {c}) ELSE size[q]
                       /\ tpc'[q] = IF q = p THEN "destroy" ELSE tpc[q]
  <2> TAKE q \in Pools
  <2>1. fds'[q] = IF q = p THEN fds[p] \ {c} ELSE fds[q]
    BY <1>6, PoolTypes
  <2>2. size'[q] = IF q = p THEN Cardinality(fds[p] \ {c}) ELSE size[q]
    BY <1>6, <1>7, PoolTypes
  <2>3. tpc'[q] = IF q = p THEN "destroy" ELSE tpc[q]
    BY <1>1, PoolTypes
  <2> QED BY <2>1, <2>2, <2>3
<1>9. \A q \in Pools, i \in Slots : slot'[q][i] = IF q = p /\ i = found[p] THEN None ELSE slot[q][i]
  <2>1. slot \in [Pools -> [Slots -> Conns \cup {None}]] /\ found[p] \in Slots
    BY <1>3, PoolTypes
  <2> QED BY <1>1, <2>1
<1>10. Held(p)' = Held(p) \ {c}
  <2>1. \A i \in Slots : slot[p][i] = c => i = found[p]
    <3>1. c # None
      BY <1>4
    <3>2. \A i, j \in Slots : slot[p][i] = slot[p][j] /\ slot[p][i] # None => i = j
      BY DEF IInv, SlotInv
    <3> QED BY <1>2, <1>3, <3>1, <3>2
  <2>2. \A i \in Slots : slot'[p][i] = IF i = found[p] THEN None ELSE slot[p][i]
    BY <1>9
  <2> QED BY <1>2, <2>1, <2>2 DEF Held
<1>11. \A q \in Pools \ {p} : Held(q)' = Held(q)
  <2> TAKE q \in Pools \ {p}
  <2>1. \A i \in Slots : slot'[q][i] = slot[q][i]
    BY <1>9
  <2>2. {slot'[q][i] : i \in Slots} = {slot[q][i] : i \in Slots}
    BY <2>1
  <2> QED BY <2>2 DEF Held
<1>12. \A q : Listed(q)' = Listed(q) /\ Uncounted(q)' = Uncounted(q)
  BY <1>1 DEF Listed, Uncounted, listener
<1>13. CountInv'
  <2>1. \A q \in Pools : fds'[q] = Held(q)' \ Uncounted(q)' /\ size'[q] = Cardinality(fds'[q])
    <3> TAKE q \in Pools
    <3>1. CASE q = p
      <4>1. Uncounted(p) = {}
        BY <1>1 DEF Uncounted
      <4> QED BY <1>5, <1>8, <1>10, <1>12, <3>1, <4>1
    <3>2. CASE q # p
      BY <1>8, <1>11, <1>12, <3>2 DEF Sound, CountInv
    <3> QED BY <3>1, <3>2
  <2>2. lpc' = "count" => /\ stale'[None] = [fds |-> fds'[lpool'], size |-> size'[lpool']]
                          /\ lconn' \in Held(lpool)'
    <3> SUFFICES ASSUME lpc' = "count"
                 PROVE  /\ stale'[None] = [fds |-> fds'[lpool'], size |-> size'[lpool']]
                        /\ lconn' \in Held(lpool)'
      OBVIOUS
    <3>1. PICK q \in Pools : q = lpool /\ q # p
      BY <1>1 DEF IInv, ListenerInv, listener
    <3>2. stale[None] = [fds |-> fds[q], size |-> size[q]] /\ lconn \in Held(q)
      BY <1>1, <3>1 DEF Sound, CountInv, listener
    <3>3. stale'[None] = [fds |-> fds'[q], size |-> size'[q]] /\ lconn' \in Held(q)'
      BY <1>1, <1>8, <1>11, <3>1, <3>2 DEF listener
    <3>4. lpool' = q
      BY <1>1, <3>1 DEF listener
    <3> QED BY <3>3, <3>4
  <2>3. ASSUME NEW q \in Pools, tpc'[q] = "remove"
        PROVE  /\ stale'[q] = [fds |-> fds'[q], size |-> size'[q]]
               /\ found'[q] \in Slots /\ slot'[q][found'[q]] = Least(ready'[q])
    <3>1. tpc[q] = "remove" /\ q # p
      BY <1>8, <2>3
    <3> QED BY <1>1, <1>8, <1>9, <3>1 DEF Sound, CountInv
  <2> QED BY <2>1, <2>2, <2>3 DEF CountInv
<1>14. ReadyInv'
  <2>1. ready'[p] \ {c} \subseteq fds'[p] /\ ready'[p] # {} /\ c = Least(ready'[p])
    BY <1>1, <1>3, <1>8
  <2> QED BY <1>1, <1>8, <2>1 DEF Sound, ReadyInv
<1>15. AloneInv'
  BY <1>1, <1>8, <1>11 DEF Sound, AloneInv, listener
<1>16. ListedInv'
  <2>1. Held(p) # {} /\ Listed(p)
    BY <1>1, <1>4, <1>5 DEF Sound, ListedInv
  <2>2. lpc = "list" => Held(lpool)' # {}
    <3>1. lpc = "list" => \E q \in Pools \ {p} : q = lpool
      BY <1>1 DEF IInv, ListenerInv
    <3>2. \A q \in Pools \ {p} : q = lpool /\ lpc = "list" => Held(q)' # {}
      BY <1>11 DEF Sound, ListedInv
    <3>3. \A q : q = lpool => q = lpool'
      BY <1>1 DEF listener
    <3> QED BY <3>1, <3>2, <3>3
  <2>3. ASSUME NEW q \in Pools
        PROVE  Listed(q)' <=> ~(lpc' = "list" /\ lpool' = q) /\ (Held(q)' # {} \/ tpc'[q] = "destroy")
    <3>1. CASE q = p
      BY <1>1, <1>8, <1>12, <2>1, <3>1 DEF listener
    <3>2. CASE q # p
      BY <1>1, <1>8, <1>11, <1>12, <3>2 DEF Sound, ListedInv, listener
    <3> QED BY <3>1, <3>2
  <2>4. \A q \in Pools : tpc'[q] = "broken" => Listed(q)'
    BY <1>8, <1>12 DEF Sound, ListedInv
  <2> QED BY <1>1, <2>2, <2>3, <2>4 DEF Sound, ListedInv, listener
<1>17. CrashInv'
  BY <1>1, <1>8 DEF Sound, CrashInv
<1> QED BY <1>13, <1>14, <1>15, <1>16, <1>17 DEF Sound

\* DestroyPool takes a pool that is once in the list out of it, and no other.
LEMMA UnlistedOnce ==
  ASSUME IInv, NEW p \in Pools, Listed(p), pools' = Unlisted(p),
         \A i, j \in DOMAIN pools : pools[i] = pools[j] => i = j
  PROVE  /\ \A q \in Pools : Listed(q)' <=> Listed(q) /\ q # p
         /\ \A i, j \in DOMAIN pools' : pools'[i] = pools'[j] => i = j
<1>1. /\ pools \in Seq(Pools) /\ DOMAIN pools = 1..Len(pools) /\ Len(pools) \in Nat
      /\ \A k \in 1..Len(pools) : pools[k] \in Pools
  BY PoolTypes, ElementOfSeq
<1>2. At(p) # {} /\ At(p) \in SUBSET Nat /\ At(p) \subseteq 1..Len(pools)
  BY <1>1 DEF At, Listed
<1>3. PICK i \in 1..Len(pools) : i = Least(At(p)) /\ pools[i] = p
  <2>1. Least(At(p)) \in At(p)
    BY <1>2, LeastIsIn
  <2> QED BY <1>2, <2>1 DEF At
<1> DEFINE n == Len(pools)
           x == SubSeq(pools, 1, i - 1)
           y == SubSeq(pools, i + 1, n)
<1>4. pools' = x \o y
  BY <1>2, <1>3 DEF Unlisted, RemoveAt
<1>5. x \in Seq(Pools) /\ Len(x) = i - 1 /\ \A k \in 1..i - 1 : x[k] = pools[k]
  <2>1. i - 1 \in Int /\ \A k \in 1..i - 1 : pools[k] \in Pools
    BY <1>1
  <2>2. /\ x \in Seq(Pools) /\ Len(x) = IF 1 <= i - 1 THEN i - 1 - 1 + 1 ELSE 0
        /\ \A k \in 1..i - 1 - 1 + 1 : x[k] = pools[1 + k - 1]
    BY <2>1, SubSeqProperties
  <2> HIDE DEF x
  <2>3. Len(x) = i - 1
    BY <1>1, <2>2
  <2>4. \A k \in 1..i - 1 : x[k] = pools[k]
    BY <1>1, <2>2
  <2> QED BY <2>2, <2>3, <2>4
<1>6. y \in Seq(Pools) /\ Len(y) = n - i /\ \A k \in 1..n - i : y[k] = pools[i + k]
  <2>1. i + 1 \in Int /\ n \in Int /\ \A k \in i + 1..n : pools[k] \in Pools
    BY <1>1
  <2>2. /\ y \in Seq(Pools) /\ Len(y) = IF i + 1 <= n THEN n - (i + 1) + 1 ELSE 0
        /\ \A k \in 1..n - (i + 1) + 1 : y[k] = pools[i + 1 + k - 1]
    BY <2>1, SubSeqProperties
  <2> HIDE DEF y
  <2>3. Len(y) = n - i
    BY <1>1, <2>2
  <2>4. \A k \in 1..n - i : y[k] = pools[i + k]
    <3> TAKE k \in 1..n - i
    <3>1. k \in 1..n - (i + 1) + 1 /\ i + 1 + k - 1 = i + k
      BY <1>1
    <3> QED BY <2>2, <3>1
  <2> QED BY <2>2, <2>3, <2>4
<1> HIDE DEF x, y
<1>7. /\ pools' \in Seq(Pools) /\ Len(pools') = n - 1
      /\ \A k \in 1..n - 1 : pools'[k] = IF k < i THEN pools[k] ELSE pools[k + 1]
  <2>0. x \in Seq(Pools) /\ y \in Seq(Pools)
    BY <1>5, <1>6
  <2>1. /\ x \o y \in Seq(Pools) /\ Len(x \o y) = Len(x) + Len(y)
        /\ \A k \in 1..Len(x) + Len(y) : (x \o y)[k] = IF k <= Len(x) THEN x[k] ELSE y[k - Len(x)]
    BY <2>0, ConcatProperties, Zenon
  <2>2. Len(x) + Len(y) = n - 1
    BY <1>1, <1>5, <1>6
  <2>3. ASSUME NEW k \in 1..n - 1
        PROVE  pools'[k] = IF k < i THEN pools[k] ELSE pools[k + 1]
    <3>1. CASE k < i
      <4>1. k <= Len(x) /\ k \in 1..i - 1 /\ k \in 1..Len(x) + Len(y)
        BY <1>1, <1>5, <2>2, <3>1
      <4>2. pools'[k] = x[k] /\ x[k] = pools[k]
        BY <1>4, <1>5, <2>1, <4>1
      <4> QED BY <3>1, <4>2
    <3>2. CASE ~(k < i)
      <4>1. ~(k <= Len(x)) /\ k - Len(x) \in 1..n - i /\ i + (k - Len(x)) = k + 1 /\ k \in 1..Len(x) + Len(y)
        BY <1>1, <1>5, <2>2, <3>2
      <4>2. pools'[k] = y[k - Len(x)] /\ y[k - Len(x)] = pools[k + 1]
        BY <1>4, <1>6, <2>1, <4>1
      <4> QED BY <3>2, <4>2
    <3> QED BY <3>1, <3>2
  <2> QED BY <1>4, <2>1, <2>2, <2>3
<1>8. DOMAIN pools' = 1..n - 1
  BY <1>7, LenProperties
<1>9. ASSUME NEW q \in Pools
      PROVE  Listed(q)' <=> Listed(q) /\ q # p
  <2>1. ASSUME NEW k \in 1..n - 1, pools'[k] = q
        PROVE  Listed(q) /\ q # p
    <3>1. PICK m \in 1..n : m # i /\ pools[m] = q
      <4>1. CASE k < i
        BY <1>1, <1>7, <2>1, <4>1
      <4>2. CASE ~(k < i)
        <5>1. k + 1 \in 1..n /\ k + 1 # i /\ pools[k + 1] = q
          BY <1>1, <1>7, <2>1, <4>2
        <5> QED BY <5>1
      <4> QED BY <4>1, <4>2
    <3> QED BY <1>1, <1>3, <3>1 DEF Listed
  <2>2. ASSUME NEW k \in 1..n, pools[k] = q, q # p
        PROVE  \E m \in 1..n - 1 : pools'[m] = q
    <3>1. CASE k < i
      <4>1. k \in 1..n - 1 /\ pools'[k] = q
        BY <1>1, <1>7, <2>2, <3>1
      <4> QED BY <4>1
    <3>2. CASE k > i
      <4>1. k - 1 \in 1..n - 1 /\ ~(k - 1 < i) /\ (k - 1) + 1 = k
        BY <1>1, <3>2
      <4>2. pools'[k - 1] = q
        BY <1>7, <2>2, <4>1
      <4> QED BY <4>1, <4>2
    <3> QED BY <1>1, <1>3, <2>2, <3>1, <3>2
  <2>3. Listed(q)' <=> \E k \in 1..n - 1 : pools'[k] = q
    BY <1>8 DEF Listed
  <2>4. Listed(q) <=> \E k \in 1..n : pools[k] = q
    BY <1>1 DEF Listed
  <2> QED BY <2>1, <2>2, <2>3, <2>4
<1>10. ASSUME NEW k \in 1..n - 1, NEW m \in 1..n - 1, pools'[k] = pools'[m]
       PROVE  k = m
  <2> DEFINE s(l) == IF l < i THEN l ELSE l + 1
  <2>1. \A l \in 1..n - 1 : s(l) \in 1..n /\ pools'[l] = pools[s(l)]
    BY <1>1, <1>7
  <2>2. pools[s(k)] = pools[s(m)] /\ s(k) \in 1..n /\ s(m) \in 1..n
    BY <1>10, <2>1
  <2>3. s(k) = s(m)
    BY <1>1, <2>2
  <2> QED BY <1>1, <2>3
<1> QED BY <1>8, <1>9, <1>10

\* A thread that has removed the last socket of its pool takes the pool out of
\* the list, one pool at a time.
LEMMA DestroyPools ==
  ASSUME IInv, Sound, NEW p \in Pools, Destroy(p), ~raced'
  PROVE  Sound'
<1> USE Numbers
<1>1. /\ tpc[p] = "destroy" /\ Rest(p, Least(ready[p]))
      /\ UNCHANGED <<peers, closed, pool, freed, listener, found, stale>>
  BY DEF Destroy
<1>2. PICK c : c = Least(ready[p])
  OBVIOUS
<1>3. /\ \A q \in Pools : q # p => tpc'[q] = tpc[q] /\ ready'[q] = ready[q]
      /\ tpc'[p] \in {"test", "serve"}
      /\ tpc'[p] = "serve" => ready'[p] # {} /\ ready'[p] \subseteq fds[p]
  <2>1. ready[p] # {} /\ ready[p] \ {c} \subseteq fds[p] /\ Rest(p, c)
    BY <1>1, <1>2 DEF Sound, ReadyInv
  <2> QED BY <1>2, <2>1, RestPools
<1>4. lpool # p /\ fds[p] = Held(p) /\ size[p] = Cardinality(fds[p]) /\ Listed(p)
  <2>1. lpool # p
    BY <1>1 DEF Sound, AloneInv
  <2>2. Uncounted(p) = {}
    BY <2>1 DEF Uncounted
  <2>3. fds[p] = Held(p) \ Uncounted(p) /\ size[p] = Cardinality(fds[p])
    BY DEF Sound, CountInv
  <2>4. Listed(p)
    BY <1>1, <2>1 DEF Sound, ListedInv
  <2> QED BY <2>1, <2>2, <2>3, <2>4
<1>5. size[p] = 0 <=> Held(p) = {}
  BY <1>4, DescriptorType
<1>6. \A q : Held(q)' = Held(q) /\ Uncounted(q)' = Uncounted(q)
  BY <1>1 DEF Held, Uncounted, pool, listener
<1>7. CountInv'
  BY <1>1, <1>3, <1>6 DEF Sound, CountInv, pool, listener
<1>8. ReadyInv'
  BY <1>1, <1>3 DEF Sound, ReadyInv, pool
<1>9. AloneInv'
  BY <1>1, <1>3, <1>4, <1>6 DEF Sound, AloneInv, listener
<1>10. (crashed' => crashed) /\ ListedInv'
  <2>1. CASE size[p] = 0
    <3>1. /\ \E q \in {p} \cup (IF Changing(p) THEN Pools ELSE {}) : pools' = Unlisted(q)
          /\ Touch(Changing(p) \/ lpc = "list")
          /\ raced' = (raced \/ lpool = p \/ lpc \in {"look", "list"} \/ Changing(p))
      BY <2>1 DEF Destroy
    <3>2. ~Changing(p) /\ lpc # "list" /\ lpc # "look"
      BY <3>1
    <3>3. pools' = Unlisted(p) /\ crashed' = FALSE
      BY <3>1, <3>2 DEF Touch
    <3>4. /\ \A q \in Pools : Listed(q)' <=> Listed(q) /\ q # p
          /\ \A i, j \in DOMAIN pools' : pools'[i] = pools'[j] => i = j
      BY <1>4, <3>3, UnlistedOnce DEF Sound, ListedInv
    <3>5. \A q \in Pools : Listed(q)' <=> Held(q)' # {} \/ tpc'[q] = "destroy"
      <4> TAKE q \in Pools
      <4>1. CASE q = p
        BY <1>3, <1>5, <1>6, <2>1, <3>4, <4>1
      <4>2. CASE q # p
        BY <1>3, <1>6, <3>2, <3>4, <4>2 DEF Sound, ListedInv
      <4> QED BY <4>1, <4>2
    <3>6. \A q \in Pools : tpc'[q] = "broken" => Listed(q)'
      <4>1. \A q \in Pools : tpc'[q] = "broken" => q # p /\ tpc[q] = "broken"
        BY <1>1, <1>3
      <4> QED BY <3>4, <4>1 DEF Sound, ListedInv
    <3> QED BY <1>1, <3>2, <3>3, <3>4, <3>5, <3>6 DEF ListedInv, listener
  <2>2. CASE size[p] # 0
    <3>1. pools' = pools /\ crashed' = crashed
      BY <2>2 DEF Destroy
    <3>2. \A q : Listed(q)' = Listed(q)
      BY <3>1 DEF Listed
    <3>3. ListedInv'
      BY <1>1, <1>3, <1>4, <1>5, <1>6, <2>2, <3>1, <3>2 DEF Sound, ListedInv, listener
    <3> QED BY <3>1, <3>3
  <2> QED BY <2>1, <2>2
<1>11. CrashInv'
  BY <1>1, <1>3, <1>10 DEF Sound, CrashInv
<1> QED BY <1>7, <1>8, <1>9, <1>10, <1>11 DEF Sound

\* The thread of an empty pool ends; its pool is not in the list.
LEMMA ExitPools ==
  ASSUME IInv, Sound, NEW p \in Pools, Exit(p), ~raced'
  PROVE  Sound'
<1> USE Numbers
<1>1. /\ tpc[p] = "test" /\ size[p] = 0 /\ tpc' = [tpc EXCEPT ![p] = "ended"]
      /\ freed' = freed \cup {p} /\ lpool # p
      /\ UNCHANGED <<peers, closed, pool, pools, listener, ready, found, stale, crashed>>
  BY DEF Exit
<1>2. Held(p) = {} /\ ~Listed(p)
  <2>1. fds[p] = Held(p) /\ size[p] = Cardinality(fds[p])
    BY <1>1 DEF Sound, CountInv, Uncounted
  <2>2. Held(p) = {}
    BY <1>1, <2>1, DescriptorType
  <2> QED BY <1>1, <2>2 DEF Sound, ListedInv
<1>3. \A q \in Pools : tpc'[q] = IF q = p THEN "ended" ELSE tpc[q]
  BY <1>1, PoolTypes
<1>4. \A q : Held(q)' = Held(q) /\ Listed(q)' = Listed(q) /\ Uncounted(q)' = Uncounted(q)
  BY <1>1 DEF Held, Listed, Uncounted, pool, listener
<1>5. CountInv'
  BY <1>1, <1>3, <1>4 DEF Sound, CountInv, pool, listener
<1>6. ReadyInv'
  BY <1>1, <1>3 DEF Sound, ReadyInv, pool
<1>7. AloneInv'
  BY <1>1, <1>2, <1>3, <1>4 DEF Sound, AloneInv, listener
<1>8. ListedInv'
  BY <1>1, <1>2, <1>3, <1>4 DEF Sound, ListedInv, listener
<1>9. CrashInv'
  BY <1>1, <1>3 DEF Sound, CrashInv
<1> QED BY <1>5, <1>6, <1>7, <1>8, <1>9 DEF Sound

\* A select() fails; the pool of the thread has connections and is in the list.
LEMMA SelectFailsPools ==
  ASSUME IInv, Sound, NEW p \in Pools, SelectFails(p), ~raced'
  PROVE  Sound'
<1> USE Numbers
<1>1. /\ tpc[p] = "test" /\ size[p] # 0 /\ tpc' = [tpc EXCEPT ![p] = "broken"]
      /\ freed' = freed \cup {p} /\ lpool # p
      /\ UNCHANGED <<peers, closed, pool, pools, listener, ready, found, stale, crashed>>
  BY DEF SelectFails
<1>2. Held(p) # {}
  <2>1. fds[p] = Held(p) /\ size[p] = Cardinality(fds[p])
    BY <1>1 DEF Sound, CountInv, Uncounted
  <2> QED BY <1>1, <2>1, DescriptorType
<1>3. \A q \in Pools : tpc'[q] = IF q = p THEN "broken" ELSE tpc[q]
  BY <1>1, PoolTypes
<1>4. \A q : Held(q)' = Held(q) /\ Listed(q)' = Listed(q) /\ Uncounted(q)' = Uncounted(q)
  BY <1>1 DEF Held, Listed, Uncounted, pool, listener
<1>5. CountInv'
  BY <1>1, <1>3, <1>4 DEF Sound, CountInv, pool, listener
<1>6. ReadyInv'
  BY <1>1, <1>3 DEF Sound, ReadyInv, pool
<1>7. AloneInv'
  BY <1>1, <1>3, <1>4 DEF Sound, AloneInv, listener
<1>8. ListedInv'
  BY <1>1, <1>2, <1>3, <1>4 DEF Sound, ListedInv, listener
<1>9. CrashInv'
  BY <1>3 DEF CrashInv
<1> QED BY <1>5, <1>6, <1>7, <1>8, <1>9 DEF Sound

\* Two threads that were in a pool together have been.
LEMMA RacedStays ==
  ASSUME IInv, raced, [Next]_vars
  PROVE  raced'
<1> USE DEF vars, Listener, Placing, PoolThread, Running
<1>1. CASE UNCHANGED vars
  BY <1>1
<1>2. ASSUME NEW c \in Conns, Connect(c) \/ Send(c) \/ Close(c) PROVE raced'
  BY <1>2 DEF Connect, Send, Close
<1>3. CASE Listener
  BY <1>3 DEF Accept, AcceptFails, ListenFails, Look, LookAt, Count, NewPool, List
<1>4. ASSUME NEW p \in Pools, PoolThread(p) PROVE raced'
  BY <1>4 DEF Select, SelectFails, Serve, Receive, Closed, RemoveSocket, Destroy, Exit
<1> QED BY <1>1, <1>2, <1>3, <1>4 DEF Next

\* Every step keeps what holds of the pools.
LEMMA StepPools == IInv /\ PoolInv /\ [Next]_vars => PoolInv'
<1> SUFFICES ASSUME IInv, PoolInv, [Next]_vars, ~raced' PROVE Sound'
  BY DEF PoolInv
<1>1. Sound
  BY RacedStays DEF PoolInv
<1>2. ASSUME NEW c \in Conns, Connect(c) \/ Send(c) \/ Close(c) PROVE Sound'
  BY <1>1, <1>2, QuietPools
<1>3. CASE Listener
  BY <1>1, <1>3, QuietPools, LookPools, CountPools, NewPoolPools, ListPools
     DEF Listener, Placing
<1>4. ASSUME NEW p \in Pools, PoolThread(p) PROVE Sound'
  BY <1>1, <1>4, SelectPools, ServePools, RemovePools, DestroyPools, ExitPools,
     SelectFailsPools DEF PoolThread, Running
<1>5. CASE UNCHANGED vars
  BY <1>1, <1>5, QuietPools
<1> QED BY <1>2, <1>3, <1>4, <1>5 DEF Next

\* Until a thread removes a socket while the listener adds one to the same pool
\* or reads the list, or two threads change the list, the unlocked code is
\* sound but for failed calls: m_dwSocketCount and the descriptor set agree with
\* the slots, the list holds the pools in use, and a deleted pool exactly if
\* its select() failed; only such a one can be used after it was deleted.
THEOREM PoolsAgreeAlone == Spec => []PoolsAgree
<1>1. IInv /\ PoolInv => PoolsAgree
  <2> SUFFICES ASSUME IInv, Sound
               PROVE  /\ \A p \in Pools \ freed : lpool # p /\ tpc[p] # "remove" =>
                           size[p] = Cardinality(Held(p)) /\ fds[p] = Held(p)
                      /\ \A p \in Pools : tpc[p] \in {"test", "serve", "missing"} /\ lpool # p =>
                           (Held(p) # {} <=> Listed(p))
                      /\ \A p \in freed : Listed(p) <=> tpc[p] = "broken"
                      /\ crashed => \E p \in Pools : tpc[p] = "broken"
    BY DEF PoolsAgree, PoolInv
  <2>1. ASSUME NEW p \in Pools, lpool # p
        PROVE  size[p] = Cardinality(Held(p)) /\ fds[p] = Held(p)
    BY <2>1 DEF Sound, CountInv, Uncounted
  <2>2. ASSUME NEW p \in Pools, tpc[p] \in {"test", "serve", "missing"}, lpool # p
        PROVE  Held(p) # {} <=> Listed(p)
    BY <2>2 DEF Sound, ListedInv
  <2>3. ASSUME NEW p \in freed
        PROVE  Listed(p) <=> tpc[p] = "broken"
    <3>1. p \in Pools /\ tpc[p] \in {"ended", "broken"}
      BY PoolTypes DEF Sound, AloneInv
    <3>2. tpc[p] = "ended" => Held(p) = {}
      BY <3>1 DEF Sound, AloneInv
    <3> QED BY <3>1, <3>2 DEF Sound, ListedInv
  <2> QED BY <2>1, <2>2, <2>3 DEF Sound, CrashInv
<1>2. Init => PoolInv
  BY InitPools
<1>3. IInv /\ PoolInv /\ [Next]_vars => PoolInv'
  BY StepPools
<1> QED BY <1>1, <1>2, <1>3, Invariance, PTL DEF Spec
=============================================================================
