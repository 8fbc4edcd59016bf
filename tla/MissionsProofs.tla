--------------------------- MODULE MissionsProofs ---------------------------
(***************************************************************************)
(* A mission is rewarded once, a parent that asks for every child is       *)
(* completed last, and the rows keep the counts, for any table of missions *)
(* and any number of commands, logins and workers.                         *)
(***************************************************************************)
EXTENDS Missions, FiniteSetTheorems, WellFoundedInduction, SequenceTheorems, TLAPS

\* The completion of mission m, of this login, is in the queue q.
Announced(m, q) == \E i \in DOMAIN q : q[i].source = m /\ ~q[i].old

\* An event of an earlier login, one of the player, or a completion for the
\* parent or the player.
EventOK(e) ==
  \/ e.old /\ disturbed
  \/ e.source = None /\ e.target = None /\ e.code \in Codes /\ ~e.old
  \/ /\ e.source \in complete /\ ~e.old
     /\ e.target # None => e.source \in linked /\ e.target = Parent[e.source]

AnnouncedOnce(q) ==
  \A i, j \in DOMAIN q :
    q[i].source = q[j].source /\ q[i].source # None /\ ~q[i].old /\ ~q[j].old => i = j

\* A child has its parent, and what the player does not have has no count.
LinkInv ==
  /\ \A m \in linked : Parent[m] \in has
  /\ \A m \in Missions \ has : count[m] = 0
  /\ accepting # None => unsaved # {}

EventInv == (\A i \in DOMAIN events : EventOK(events[i])) /\ AnnouncedOnce(events)

\* A reward is given when the completion leaves the queue.
GivenInv ==
  \A m \in Missions :
    /\ rewarded[m] <= 1
    /\ rewarded[m] = 1 => m \in complete /\ ~Announced(m, events)

LoginInv == TypeOK /\ LinkInv /\ EventInv /\ GivenInv

\* The missions of the player that have no statement yet.
New == IF accepting = None THEN {}
       ELSE IF accepting \in unsaved THEN Family(accepting) ELSE unsaved

\* Children come and are linked with their parent, but for the family that is
\* being assigned.
FamilyInv ==
  /\ \A m \in Missions \ Roots : Parent[m] # accepting =>
       (m \in has <=> Parent[m] \in has) /\ (m \in has => m \in linked)
  /\ accepting = None => todo = {} /\ unsaved = {}
  /\ accepting # None =>
       /\ todo \subseteq Family(accepting)
       /\ unsaved = {accepting} \/ (unsaved \subseteq Kids(accepting) /\ todo = {})
       /\ accepting \in todo => Kids(accepting) \subseteq todo /\ Family(accepting) \cap has = {}
       /\ \A m \in Family(accepting) \ todo : m \in has /\ (m # accepting => m \in linked)

\* Of a mission: no statement in q; and what row r and the statements in q
\* have to do with the count c.
Unqueued(m, q) == \A i \in DOMAIN q : q[i].mission # m
RowOK(m, q, r, c) ==
  /\ Unqueued(m, q) => r = c
  /\ \A i \in DOMAIN q :
       q[i].mission = m /\ (\A j \in DOMAIN q : j > i => q[j].mission # m) => q[i].n = c
  /\ \A i \in DOMAIN q : q[i].mission = m =>
       (q[i].op = "insert" <=> r = NoRow /\ \A j \in DOMAIN q : j < i => q[j].mission # m)
InsertsZero(q) == \A i \in DOMAIN q : q[i].op = "insert" => q[i].n = 0

RowInv ==
  /\ InsertsZero(pending)
  /\ \A m \in Missions : m \notin has \/ m \in New =>
       rows[m] = NoRow /\ Unqueued(m, pending) /\ count[m] = 0
  /\ \A m \in has \ New : RowOK(m, pending, rows[m], count[m])

RewardInv ==
  \A m \in Missions :
    /\ rewards[m] <= 1
    /\ rewards[m] = 1 => Done(m) /\ ~Announced(m, events)
    /\ Announced(m, events) => Done(m)

\* The children whose completion the parent has handled.
Told(p) == {k \in Kids(p) : Done(k) /\ ~Announced(k, events)}

ChildInv ==
  /\ \A p \in Missions : Kids(p) # {} => count[p] <= Cardinality(Told(p))
  /\ \A m \in complete : Required[m] = 0 => \A k \in Kids(m) : Done(k)

MissionInv == LoginInv /\ (~disturbed => FamilyInv /\ RowInv /\ RewardInv /\ ChildInv)

-----------------------------------------------------------------------------
(* Lemmas about the tables of the missions and about queues                 *)

\* Two levels: a child has no children, and a lower mission is its parent.
LEMMA Families ==
  ASSUME Tables
  PROVE  /\ IsFiniteSet(Missions) /\ Missions \subseteq Nat /\ None \notin Missions /\ None \in Nat
         /\ Roots \subseteq Missions
         /\ \A m : Kids(m) \subseteq Missions /\ (m # None => Kids(m) \cap Roots = {})
         /\ \A m \in Missions \ Roots :
              Kids(m) = {} /\ Parent[m] \in Roots /\ Parent[m] < m /\ m \in Kids(Parent[m])
         /\ \A p \in Missions : \A k \in Kids(p) :
              k \in Missions \ Roots /\ Parent[k] = p /\ p \in Roots /\ p < k
<1> USE DEF None
<1>1. /\ IsFiniteSet(Missions) /\ Missions \subseteq Nat /\ None \notin Missions
      /\ Roots \subseteq Missions /\ \A m : Kids(m) \subseteq Missions
  BY DEF Tables, Roots, Kids
<1>2. \A m : m # None => Kids(m) \cap Roots = {}
  BY DEF Roots, Kids
<1>3. \A p \in Missions : \A k \in Kids(p) :
        k \in Missions \ Roots /\ Parent[k] = p /\ p \in Roots /\ p < k
  BY <1>1 DEF Tables, Roots, Kids
<1>4. \A m \in Missions \ Roots :
        Parent[m] \in Roots /\ Parent[m] < m /\ m \in Kids(Parent[m])
  BY DEF Tables, Kids
<1>5. \A m \in Missions \ Roots : Kids(m) = {}
  BY <1>3
<1> QED BY <1>1, <1>2, <1>3, <1>4, <1>5

\* The lowest number of a set, the first of a std::map.
LEMMA LowestIsLeast ==
  ASSUME NEW S, S \subseteq Nat, S # {}
  PROVE  Lowest(S) \in S /\ \A y \in S : Lowest(S) <= y
<1>1. \E x \in S : \A y \in S : ~(<<y, x>> \in OpToRel(<, Nat))
  BY NatLessThanWellFounded, WFMin
<1>2. PICK x \in S : \A y \in S : ~(<<y, x>> \in OpToRel(<, Nat))
  BY <1>1
<1>3. \A y \in S : ~(y < x)
  BY <1>2 DEF OpToRel
<1>4. \A y \in S : x <= y
  BY <1>3
<1> QED BY <1>4 DEF Lowest

\* What a push leaves and adds.
LEMMA Pushed ==
  ASSUME NEW S, NEW q \in Seq(S), NEW e \in S
  PROVE  /\ Append(q, e) \in Seq(S)
         /\ Len(q) \in Nat /\ Len(Append(q, e)) = Len(q) + 1
         /\ DOMAIN q = 1..Len(q) /\ DOMAIN Append(q, e) = 1..(Len(q) + 1)
         /\ \A i \in DOMAIN q : Append(q, e)[i] = q[i]
         /\ Append(q, e)[Len(q) + 1] = e
OBVIOUS

\* What a pop moves and takes.
LEMMA Popped ==
  ASSUME NEW S, NEW q \in Seq(S), q # <<>>
  PROVE  /\ Head(q) \in S /\ Tail(q) \in Seq(S) /\ Head(q) = q[1]
         /\ Len(q) \in Nat /\ Len(q) > 0 /\ Len(Tail(q)) = Len(q) - 1
         /\ DOMAIN q = 1..Len(q) /\ DOMAIN Tail(q) = 1..(Len(q) - 1)
         /\ \A i \in DOMAIN Tail(q) : Tail(q)[i] = q[i + 1]
OBVIOUS

\* A statement is taken out of the middle: the others stay statements.
LEMMA Overtaken ==
  ASSUME NEW S, NEW q \in Seq(S), NEW i \in 1..Len(q)
  PROVE  RemoveAt(q, i) \in Seq(S) /\ (i = 1 => RemoveAt(q, i) = Tail(q)) /\ q[i] \in S
<1>0. /\ Len(q) \in Nat /\ i \in Int /\ i - 1 \in Int /\ i + 1 \in Int
      /\ \A j \in 1..Len(q) : q[j] \in S
  OBVIOUS
<1>1. SubSeq(q, 1, i - 1) \in Seq(S) /\ SubSeq(q, i + 1, Len(q)) \in Seq(S)
  <2>1. (\A j \in 1..(i - 1) : q[j] \in S) /\ \A j \in (i + 1)..Len(q) : q[j] \in S
    BY <1>0
  <2>2. SubSeq(q, 1, i - 1) \in Seq(S)
    BY <1>0, <2>1, SubSeqProperties
  <2>3. SubSeq(q, i + 1, Len(q)) \in Seq(S)
    BY <1>0, <2>1, SubSeqProperties
  <2> QED BY <2>2, <2>3
<1>2. SubSeq(q, 1, i - 1) \o SubSeq(q, i + 1, Len(q)) \in Seq(S)
  BY <1>1, ConcatProperties
<1>3. ASSUME i = 1
      PROVE  RemoveAt(q, i) = Tail(q)
  <2>1. SubSeq(q, 1, 0) = <<>> /\ q # <<>>
    BY <1>3, SubSeqEmpty
  <2>2. SubSeq(q, 2, Len(q)) = Tail(q)
    BY <2>1, TailIsSubSeq
  <2>3. Tail(q) \in Seq(S)
    BY <2>1, Popped
  <2> QED BY <1>3, <2>1, <2>2, <2>3, ConcatEmptySeq DEF RemoveAt
<1> QED BY <1>0, <1>2, <1>3 DEF RemoveAt

\* What a push does to the announcements in the event queue.
LEMMA PushedAnnounced ==
  ASSUME NEW q \in Seq(Event), NEW e \in Event, NEW m
  PROVE  /\ Announced(m, Append(q, e)) <=> Announced(m, q) \/ (e.source = m /\ ~e.old)
         /\ AnnouncedOnce(q) /\ (e.old \/ e.source = None \/ ~Announced(e.source, q))
              => AnnouncedOnce(Append(q, e))
<1> DEFINE r == Append(q, e)
           n == Len(q) + 1
<1>1. /\ DOMAIN r = DOMAIN q \cup {n} /\ n \notin DOMAIN q
      /\ \A i \in DOMAIN q : r[i] = q[i]
      /\ r[n] = e
  BY Pushed
<1> HIDE DEF r, n
<1>2. Announced(m, r) <=> Announced(m, q) \/ (e.source = m /\ ~e.old)
  BY <1>1 DEF Announced
<1>3. ASSUME AnnouncedOnce(q), e.old \/ e.source = None \/ ~Announced(e.source, q)
      PROVE  AnnouncedOnce(r)
  BY <1>1, <1>3 DEF Announced, AnnouncedOnce
<1> QED BY <1>2, <1>3 DEF r

\* What a pop does to them.
LEMMA PoppedAnnounced ==
  ASSUME NEW q \in Seq(Event), q # <<>>, NEW m
  PROVE  /\ Announced(m, Tail(q)) => Announced(m, q)
         /\ Announced(m, q) => Announced(m, Tail(q)) \/ Head(q).source = m
         /\ ~Head(q).old => Announced(Head(q).source, q)
         /\ AnnouncedOnce(q) => AnnouncedOnce(Tail(q))
         /\ AnnouncedOnce(q) /\ Head(q).source # None /\ ~Head(q).old
              => ~Announced(Head(q).source, Tail(q))
<1> DEFINE r == Tail(q)
<1>1. /\ Len(q) \in Nat /\ Len(q) > 0 /\ DOMAIN q = 1..Len(q) /\ DOMAIN r = 1..(Len(q) - 1)
      /\ \A i \in DOMAIN r : r[i] = q[i + 1]
      /\ Head(q) = q[1]
  BY Popped
<1>2. /\ 1 \in DOMAIN q
      /\ \A i \in DOMAIN r : i \in Nat /\ i + 1 \in DOMAIN q /\ i + 1 # 1
      /\ \A i \in DOMAIN q : i # 1 => \E j \in DOMAIN r : i = j + 1
  <2>1. \A i \in DOMAIN q : i # 1 => i - 1 \in DOMAIN r /\ i = (i - 1) + 1
    BY <1>1
  <2> QED BY <1>1, <2>1
<1> HIDE DEF r
<1>3. Announced(m, r) => Announced(m, q)
  BY <1>1, <1>2 DEF Announced
<1>4. Announced(m, q) => Announced(m, r) \/ Head(q).source = m
  BY <1>1, <1>2 DEF Announced
<1>5. ~Head(q).old => Announced(Head(q).source, q)
  BY <1>1, <1>2 DEF Announced
<1>6. ASSUME AnnouncedOnce(q)
      PROVE  AnnouncedOnce(r)
  <2> SUFFICES ASSUME NEW i \in DOMAIN r, NEW j \in DOMAIN r,
                      r[i].source = r[j].source, r[i].source # None, ~r[i].old, ~r[j].old
               PROVE  i = j
    BY DEF AnnouncedOnce
  <2>1. i + 1 = j + 1
    BY <1>1, <1>2, <1>6 DEF AnnouncedOnce
  <2> QED BY <2>1, <1>2
<1>7. ASSUME AnnouncedOnce(q), Head(q).source # None, ~Head(q).old
      PROVE  ~Announced(Head(q).source, r)
  BY <1>1, <1>2, <1>7 DEF Announced, AnnouncedOnce
<1> QED BY <1>3, <1>4, <1>5, <1>6, <1>7 DEF r

\* The events of a queue are among the events of another one, or are e.
From(r, q, e) == \A i \in DOMAIN r : r[i] = e \/ \E j \in DOMAIN q : r[i] = q[j]

LEMMA FromQueue ==
  ASSUME NEW q \in Seq(Event), NEW e
  PROVE  /\ e \in Event => From(Append(q, e), q, e)
         /\ q # <<>> => From(Tail(q), q, e) /\ \E j \in DOMAIN q : Head(q) = q[j]
         /\ q # <<>> /\ e \in Event => From(Append(Tail(q), e), q, e)
<1>1. ASSUME e \in Event, NEW r \in Seq(Event)
      PROVE  From(Append(r, e), r, e)
  <2>1. \A i \in DOMAIN Append(r, e) : i \in DOMAIN r \/ i = Len(r) + 1
    BY <1>1, Pushed
  <2>2. /\ \A i \in DOMAIN r : Append(r, e)[i] = r[i]
        /\ Append(r, e)[Len(r) + 1] = e
    BY <1>1, Pushed
  <2> QED BY <2>1, <2>2 DEF From
<1>2. ASSUME q # <<>>
      PROVE  From(Tail(q), q, e) /\ Tail(q) \in Seq(Event) /\ \E j \in DOMAIN q : Head(q) = q[j]
  <2>1. /\ Tail(q) \in Seq(Event) /\ Head(q) = q[1] /\ 1 \in DOMAIN q
        /\ \A i \in DOMAIN Tail(q) : i + 1 \in DOMAIN q /\ Tail(q)[i] = q[i + 1]
    BY <1>2, Popped
  <2> QED BY <2>1 DEF From
<1>3. ASSUME q # <<>>, e \in Event
      PROVE  From(Append(Tail(q), e), q, e)
  <2>1. From(Append(Tail(q), e), Tail(q), e)
    BY <1>1, <1>2, <1>3
  <2> QED BY <2>1, <1>2, <1>3 DEF From
<1> QED BY <1>1, <1>2, <1>3

-----------------------------------------------------------------------------
(* The steps of the event thread                                            *)

Still == UNCHANGED <<has, linked, socket, rows, bounds>>

\* The first event is of the player: a mission does not wait for it, all have
\* seen it, a mission counts it or completes with it.
Skipped == UNCHANGED <<events, count, complete, pending, given>>
Dropped == Head(events).source = None /\ events' = Tail(events) /\ UNCHANGED <<count, complete, pending, given>>
Counted(m) ==
  /\ m \in has \ complete /\ Kids(m) = {}
  /\ Increment(m) /\ count[m] + 1 # Required[m]
  /\ UNCHANGED <<complete, events, given>>
Finished(m) ==
  /\ m \in has \ complete /\ Kids(m) = {}
  /\ Increment(m) /\ count[m] + 1 = Required[m]
  /\ complete' = complete \cup {m}
  /\ events' = Append(events, Completed(m, IF m \in linked THEN Parent[m] ELSE None))
  /\ UNCHANGED given

\* It is the completion of child k of p, or of mission m for the player.
OfChild(k, p) ==
  /\ k = Head(events).source /\ p = Head(events).target
  /\ k \in Kids(p) /\ p \in Roots \cap has
Ignored(k, p) ==
  /\ OfChild(k, p) /\ p \in complete
  /\ events' = Tail(events) /\ UNCHANGED <<count, complete, pending, given>>
ParentCounted(k, p) ==
  /\ OfChild(k, p) /\ p \notin complete
  /\ Increment(p) /\ Reward(k)
  /\ events' = Tail(events) /\ UNCHANGED complete
ParentFinished(k, p) ==
  /\ OfChild(k, p) /\ p \notin complete
  /\ Increment(p) /\ Enough(p)
  /\ complete' = complete \cup {p}
  /\ events' = Append(Tail(events), Completed(p, None)) /\ UNCHANGED given
ToldPlayer(m) ==
  /\ m = Head(events).source /\ Reward(m)
  /\ events' = Tail(events) /\ UNCHANGED <<count, complete, pending>>

\* The event at the head of the queue.
LEMMA FirstEvent ==
  ASSUME Tables, TypeOK, LinkInv, EventInv, Fresh
  PROVE  /\ Head(events) \in Event /\ EventOK(Head(events)) /\ ~Head(events).old
         /\ Head(events).source # None => Head(events).source \in complete \cap Missions
         /\ Head(events).source # None /\ Head(events).target # None
              => OfChild(Head(events).source, Head(events).target)
<1> DEFINE e == Head(events)
<1>1. e \in Event /\ events \in Seq(Event) /\ events # <<>> /\ ~e.old
  BY Popped DEF TypeOK, Fresh
<1>2. EventOK(e)
  <2>1. \E j \in DOMAIN events : e = events[j]
    BY <1>1, FromQueue
  <2> QED BY <2>1 DEF EventInv
<1>3. e.source # None => e.source \in complete \cap Missions
  BY <1>1, <1>2 DEF EventOK, TypeOK
<1>4. ASSUME e.source # None, e.target # None
      PROVE  OfChild(e.source, e.target)
  <2>1. e.source \in linked /\ e.target = Parent[e.source]
    BY <1>1, <1>2, <1>4 DEF EventOK
  <2>2. e.source \in Missions /\ e.target \in has \cap Roots
    BY <1>1, <1>4, <2>1 DEF LinkInv, TypeOK, Event
  <2> QED BY <2>1, <2>2 DEF OfChild, Kids
<1> QED BY <1>1, <1>2, <1>3, <1>4

\* A mission that waits for an event of the player has no children.
LEMMA VisitCases ==
  ASSUME Tables, TypeOK, LinkInv, EventInv, Visit
  PROVE  /\ Still /\ cursor' \in Missions \cup {0} /\ events # <<>>
         /\ Skipped \/ Dropped \/ \E m \in Missions : Counted(m) \/ Finished(m)
<1>0. Still /\ UNCHANGED given
  BY DEF Visit, Still
<1>1. events # <<>> /\ Head(events) \in Event /\ Head(events).source = None
  BY FirstEvent DEF Visit, Fresh
<1>2. CASE After(cursor) = {}
  BY <1>0, <1>1, <1>2 DEF Visit, Dropped
<1>3. CASE After(cursor) # {}
  <2> DEFINE m == Lowest(After(cursor))
  <2>1. After(cursor) \subseteq Nat /\ After(cursor) \subseteq has /\ has \subseteq Missions
    BY Families DEF After, TypeOK
  <2>2. m \in has
    BY <1>3, <2>1, LowestIsLeast
  <2> HIDE DEF m
  <2>3. /\ cursor' = m
        /\ IF m \notin complete /\ Trigger[m] = Head(events).code
           THEN Happened(m)
           ELSE UNCHANGED <<count, complete, pending, events>>
    BY <1>3 DEF Visit, m
  <2>4. CASE m \notin complete /\ Trigger[m] = Head(events).code
    <3>1. Head(events).code \in Codes
      <4>1. Fresh
        BY DEF Visit
      <4> QED BY <1>1, <4>1, FirstEvent, Families DEF EventOK, TypeOK
    <3>2. Kids(m) = {}
      BY <2>1, <2>2, <2>4, <3>1 DEF Tables, Codes
    <3>3. Counted(m) \/ Finished(m)
      BY <1>0, <2>2, <2>3, <2>4, <3>2 DEF Happened, Counted, Finished
    <3> QED BY <1>0, <1>1, <2>1, <2>2, <2>3, <3>3
  <2>5. CASE ~(m \notin complete /\ Trigger[m] = Head(events).code)
    BY <1>0, <1>1, <2>1, <2>2, <2>3, <2>5 DEF Skipped
  <2> QED BY <2>4, <2>5
<1> QED BY <1>2, <1>3

\* What a completion does.
LEMMA CompletionCases ==
  ASSUME Tables, TypeOK, LinkInv, EventInv, ToParent \/ ToPlayer
  PROVE  /\ Still /\ cursor' = cursor /\ events # <<>> /\ Head(events).source # None
         /\ ~Head(events).old /\ Head(events).source \in complete \cap Missions
         /\ \/ \E k, p \in Missions : Ignored(k, p) \/ ParentCounted(k, p) \/ ParentFinished(k, p)
            \/ \E m \in Missions : ToldPlayer(m)
<1>0. Still /\ cursor' = cursor /\ Fresh /\ events # <<>> /\ Head(events).source # None
  BY DEF ToParent, ToPlayer, Still, player, db, Fresh
<1>1. ~Head(events).old /\ Head(events).source \in complete \cap Missions
  BY <1>0, FirstEvent
<1>2. CASE ToParent
  <2> DEFINE k == Head(events).source
             p == Head(events).target
  <2>1. OfChild(k, p)
    BY <1>2, FirstEvent DEF ToParent
  <2>2. p \in Missions /\ k \in Missions
    BY <2>1 DEF OfChild, Kids, Roots
  <2>3. ChildCompleted(k, p)
    BY <1>2 DEF ToParent
  <2> HIDE DEF k, p
  <2>4. Ignored(k, p) \/ ParentCounted(k, p) \/ ParentFinished(k, p)
    BY <2>1, <2>3 DEF ChildCompleted, Ignored, ParentCounted, ParentFinished
  <2> QED BY <1>0, <1>1, <2>2, <2>4
<1>3. CASE ToPlayer
  <2>1. ToldPlayer(Head(events).source)
    BY <1>3 DEF ToPlayer, ToldPlayer, player, db
  <2> QED BY <1>0, <1>1, <2>1
<1> QED BY <1>2, <1>3

\* An event of an earlier login: nothing of this login changes but the queues.
LEMMA LeftoverCases ==
  ASSUME Tables, TypeOK, Leftover
  PROVE  /\ UNCHANGED <<player, socket, rows, rewarded, bounds, disturbed, crashed>>
         /\ events # <<>> /\ Head(events).old
         /\ cursor' \in Missions \cup {0} /\ pending' \in Seq(Statement)
         /\ rewards' \in [Missions -> Nat]
         /\ \/ events' = events \/ events' = Tail(events)
            \/ \E e \in Event : e.old /\ events' \in {Append(events, e), Append(Tail(events), e)}
<1> USE DEF None
<1>0. /\ UNCHANGED <<player, socket, rows, rewarded, bounds, disturbed, crashed>>
      /\ events # <<>> /\ Head(events).old
  BY DEF Leftover, Left
<1>1. Head(events) \in Event
  BY <1>0, Popped DEF TypeOK
<1>2. ASSUME NEW m \in Missions, OldIncrement(m)
      PROVE  pending' \in Seq(Statement)
  <2>1. CASE UNCHANGED pending
    BY <2>1 DEF TypeOK
  <2>2. ASSUME NEW n \in OldCounts,
               pending' = Append(pending, [op |-> "count", mission |-> m, n |-> n])
        PROVE  pending' \in Seq(Statement)
    <3>1. [op |-> "count", mission |-> m, n |-> n] \in Statement
      BY DEF Statement, Tables
    <3> QED BY <2>2, <3>1, Pushed DEF TypeOK
  <2> QED BY <1>2, <2>1, <2>2 DEF OldIncrement
<1>3. ASSUME NEW m \in Missions, OldReward(m)
      PROVE  rewards' \in [Missions -> Nat]
  BY <1>3 DEF OldReward, TypeOK
<1>4. ASSUME NEW m \in Missions, NEW t \in Roots \cup {None}
      PROVE  OldCompleted(m, t) \in Event /\ OldCompleted(m, t).old
  BY DEF OldCompleted, Completed, Event
<1>5. CASE OldVisit
  <2>1. CASE cursor' = 0 /\ events' = Tail(events) /\ UNCHANGED pending
    BY <1>0, <1>5, <2>1 DEF OldVisit, TypeOK
  <2>2. ASSUME NEW m \in Missions, cursor' = m, OldIncrement(m),
               events' \in {events, Append(events, OldCompleted(m, Parent[m]))}
        PROVE  /\ cursor' \in Missions \cup {0} /\ pending' \in Seq(Statement)
               /\ \/ events' = events
                  \/ \E e \in Event : e.old /\ events' = Append(events, e)
    <3>1. Parent[m] \in Roots \cup {None}
      BY DEF Tables, Roots
    <3> QED BY <1>2, <1>4, <2>2, <3>1
  <2> QED BY <1>0, <1>5, <2>1, <2>2 DEF OldVisit, TypeOK
<1>6. CASE OldToParent
  <2> DEFINE k == Head(events).source
             p == Head(events).target
  <2>1. k \in Missions /\ p \in Missions /\ cursor' = cursor
    BY <1>1, <1>6 DEF OldToParent, Event, Roots
  <2>2. CASE events' = Tail(events) /\ UNCHANGED <<pending, rewards>>
    BY <1>0, <2>1, <2>2 DEF TypeOK
  <2>3. CASE events' = Tail(events) /\ OldIncrement(p) /\ OldReward(k)
    BY <1>0, <1>2, <1>3, <2>1, <2>3 DEF TypeOK
  <2>4. CASE /\ events' = Append(Tail(events), OldCompleted(p, None))
             /\ OldIncrement(p) /\ UNCHANGED rewards
    BY <1>0, <1>2, <1>4, <2>1, <2>4 DEF TypeOK
  <2> QED BY <1>6, <2>2, <2>3, <2>4 DEF OldToParent
<1>7. CASE OldToPlayer
  <2>1. Head(events).source \in Missions
    BY <1>1, <1>7 DEF OldToPlayer, Event
  <2> QED BY <1>0, <1>3, <1>7, <2>1 DEF OldToPlayer, TypeOK
<1> QED BY <1>5, <1>6, <1>7 DEF Leftover

-----------------------------------------------------------------------------
(* Types and links                                                          *)

LEMMA CompletedType ==
  ASSUME Tables, NEW m \in Missions, NEW t \in Roots \cup {None}
  PROVE  /\ Completed(m, t) \in Event /\ ~Completed(m, t).old
         /\ Completed(m, t).source = m /\ Completed(m, t).target = t
BY DEF Completed, Event

\* The count of a mission and its statement.
LEMMA IncrementType ==
  ASSUME Tables, TypeOK, NEW m \in Missions, Increment(m)
  PROVE  /\ count' \in [Missions -> Nat] /\ pending' \in Seq(Statement)
         /\ \A x \in Missions : count'[x] = IF x = m THEN count[m] + 1 ELSE count[x]
<1>1. count' = [count EXCEPT ![m] = @ + 1] /\ count[m] \in Nat
  BY DEF Increment, TypeOK
<1>2. [op |-> "count", mission |-> m, n |-> count[m] + 1] \in Statement
  BY <1>1 DEF Statement
<1>3. pending' \in Seq(Statement)
  BY <1>2, Pushed DEF Increment, TypeOK
<1> QED BY <1>1, <1>3 DEF TypeOK

\* The types and links when the event thread counts.
LEMMA CountingType ==
  ASSUME Tables, TypeOK, LinkInv, NEW m \in has, Increment(m), Still
  PROVE  /\ count' \in [Missions -> Nat] /\ pending' \in Seq(Statement)
         /\ LinkInv'
<1>1. m \in Missions
  BY DEF TypeOK
<1>2. /\ count' \in [Missions -> Nat] /\ pending' \in Seq(Statement)
      /\ \A x \in Missions : x # m => count'[x] = count[x]
  BY <1>1, IncrementType
<1> QED BY <1>2 DEF LinkInv, Still, socket

\* The rewards.
LEMMA RewardType ==
  ASSUME Tables, TypeOK, NEW m \in Missions, Reward(m)
  PROVE  /\ rewards' \in [Missions -> Nat] /\ rewarded' \in [Missions -> Nat]
         /\ \A x \in Missions :
              /\ rewards'[x] = IF x = m THEN rewards[m] + 1 ELSE rewards[x]
              /\ rewarded'[x] = IF x = m THEN rewarded[m] + 1 ELSE rewarded[x]
BY DEF Reward, TypeOK

\* The types of the variables the event thread changes.
ThreadType ==
  /\ complete' \subseteq has
  /\ count' \in [Missions -> Nat]
  /\ events' \in Seq(Event)
  /\ pending' \in Seq(Statement)
  /\ rewards' \in [Missions -> Nat] /\ rewarded' \in [Missions -> Nat]

LEMMA VisitType ==
  ASSUME Tables, TypeOK, LinkInv, EventInv, Visit
  PROVE  ThreadType /\ LinkInv'
<1>0. Still /\ events # <<>> /\ (Skipped \/ Dropped \/ \E m \in Missions : Counted(m) \/ Finished(m))
  BY VisitCases
<1>1. CASE Skipped \/ Dropped
  <2>1. UNCHANGED <<count, complete, pending, given>>
    BY <1>1 DEF Skipped, Dropped
  <2>2. events \in Seq(Event) /\ Tail(events) \in Seq(Event)
    BY <1>0, Popped DEF TypeOK
  <2>3. events' \in Seq(Event)
    BY <1>1, <2>2 DEF Skipped, Dropped
  <2> QED BY <1>0, <2>1, <2>3 DEF ThreadType, TypeOK, LinkInv, Still, socket, given
<1>2. ASSUME NEW m \in Missions, Counted(m) \/ Finished(m)
      PROVE  ThreadType /\ LinkInv'
  <2>1. m \in has /\ Increment(m) /\ UNCHANGED given
    BY <1>2 DEF Counted, Finished
  <2>2. count' \in [Missions -> Nat] /\ pending' \in Seq(Statement) /\ LinkInv'
    BY <1>0, <2>1, CountingType
  <2>3. complete' \subseteq has
    BY <1>2, <2>1 DEF Counted, Finished, TypeOK
  <2>4. events' \in Seq(Event)
    <3> DEFINE t == IF m \in linked THEN Parent[m] ELSE None
    <3>1. m \in linked => Parent[m] \in Missions
      BY DEF LinkInv, TypeOK
    <3>2. t \in Roots \cup {None}
      BY <3>1, Families DEF Tables, Roots
    <3>3. Completed(m, t) \in Event
      BY <3>2, CompletedType
    <3>4. Append(events, Completed(m, t)) \in Seq(Event)
      BY <3>3, Pushed DEF TypeOK
    <3> QED BY <1>2, <3>4 DEF Counted, Finished, TypeOK
  <2> QED BY <2>1, <2>2, <2>3, <2>4 DEF ThreadType, TypeOK, given
<1> QED BY <1>0, <1>1, <1>2

LEMMA CompletionType ==
  ASSUME Tables, TypeOK, LinkInv, EventInv, ToParent \/ ToPlayer
  PROVE  ThreadType /\ LinkInv'
<1>0. /\ Still /\ events # <<>>
      /\ \/ \E k, p \in Missions : Ignored(k, p) \/ ParentCounted(k, p) \/ ParentFinished(k, p)
         \/ \E m \in Missions : ToldPlayer(m)
  BY CompletionCases
<1>1. Tail(events) \in Seq(Event)
  BY <1>0, Popped DEF TypeOK
<1>2. ASSUME NEW k \in Missions, NEW p \in Missions, Ignored(k, p)
      PROVE  ThreadType /\ LinkInv'
  BY <1>0, <1>1, <1>2 DEF ThreadType, TypeOK, LinkInv, Still, socket, given, Ignored
<1>3. ASSUME NEW k \in Missions, NEW p \in Missions, ParentCounted(k, p)
      PROVE  ThreadType /\ LinkInv'
  <2>1. p \in has /\ Increment(p) /\ Reward(k) /\ events' = Tail(events) /\ complete' = complete
    BY <1>3 DEF ParentCounted, OfChild
  <2>2. count' \in [Missions -> Nat] /\ pending' \in Seq(Statement) /\ LinkInv'
    BY <1>0, <2>1, CountingType
  <2>3. rewards' \in [Missions -> Nat] /\ rewarded' \in [Missions -> Nat]
    BY <2>1, RewardType
  <2> QED BY <1>1, <2>1, <2>2, <2>3 DEF ThreadType, TypeOK
<1>4. ASSUME NEW k \in Missions, NEW p \in Missions, ParentFinished(k, p)
      PROVE  ThreadType /\ LinkInv'
  <2>1. /\ p \in has /\ Increment(p) /\ UNCHANGED given /\ complete' = complete \cup {p}
        /\ events' = Append(Tail(events), Completed(p, None))
    BY <1>4 DEF ParentFinished, OfChild
  <2>2. count' \in [Missions -> Nat] /\ pending' \in Seq(Statement) /\ LinkInv'
    BY <1>0, <2>1, CountingType
  <2>3. Completed(p, None) \in Event
    BY CompletedType
  <2>4. events' \in Seq(Event)
    BY <1>1, <2>1, <2>3, Pushed
  <2> QED BY <2>1, <2>2, <2>4 DEF ThreadType, TypeOK, given
<1>5. ASSUME NEW m \in Missions, ToldPlayer(m)
      PROVE  ThreadType /\ LinkInv'
  <2>1. Reward(m) /\ events' = Tail(events) /\ UNCHANGED <<count, complete, pending>>
    BY <1>5 DEF ToldPlayer
  <2>2. rewards' \in [Missions -> Nat] /\ rewarded' \in [Missions -> Nat]
    BY <2>1, RewardType
  <2>3. LinkInv'
    BY <1>0, <2>1 DEF LinkInv, Still, socket
  <2> QED BY <1>1, <2>1, <2>2, <2>3 DEF ThreadType, TypeOK
<1> QED BY <1>0, <1>2, <1>3, <1>4, <1>5

\* What a login makes of the queue.
LEMMA QueueLeft ==
  ASSUME events \in Seq(Event), Relogin
  PROVE  /\ events' \in Seq(Event) /\ DOMAIN events' = DOMAIN events
         /\ \A i \in DOMAIN events :
              \/ events'[i].old
              \/ events'[i] = events[i] /\ ~events[i].old /\ events[i].source = None
<1>1. PICK reused \in BOOLEAN :
        events' = [i \in DOMAIN events |->
                     [events[i] EXCEPT !.old = @ \/ ~reused \/ events[i].source # None]]
  BY DEF Relogin
<1>2. /\ Len(events) \in Nat /\ DOMAIN events = 1..Len(events)
      /\ \A i \in DOMAIN events : events[i] \in Event
  OBVIOUS
<1>3. ASSUME NEW i \in DOMAIN events
      PROVE  /\ events'[i] \in Event
             /\ \/ events'[i].old
                \/ events'[i] = events[i] /\ ~events[i].old /\ events[i].source = None
  <2>1. PICK e \in Event : e = events[i]
    BY <1>2
  <2>2. PICK b \in BOOLEAN : b <=> e.old \/ ~reused \/ e.source # None
    OBVIOUS
  <2>3. events'[i] = [e EXCEPT !.old = b]
    <3>1. (e.old \/ ~reused \/ e.source # None) = b
      BY <2>2
    <3> QED BY <1>1, <2>1, <3>1
  <2>4. [e EXCEPT !.old = b] \in Event /\ [e EXCEPT !.old = b].old = b /\ (e.old = b => [e EXCEPT !.old = b] = e)
    BY DEF Event
  <2>5. e.old \in BOOLEAN
    BY DEF Event
  <2> QED BY <2>1, <2>2, <2>3, <2>4, <2>5
<1>4. events' \in Seq(Event)
  <2>1. events' \in [1..Len(events) -> Event]
    BY <1>1, <1>2, <1>3
  <2> QED BY <1>2, <2>1
<1> QED BY <1>1, <1>3, <1>4

LEMMA TypeStep ==
  ASSUME Tables, TypeOK, LinkInv, EventInv, [Next]_vars
  PROVE  TypeOK' /\ LinkInv'
<1> USE DEF vars, player, socket, db, given, bounds
<1>1. ASSUME NEW m \in Roots, Accept(m)
      PROVE  TypeOK' /\ LinkInv'
  <2>1. Family(m) \subseteq Missions /\ m \in Missions
    BY Families DEF Family
  <2>2. TypeOK'
    BY <1>1, <2>1 DEF Accept, TypeOK
  <2> QED BY <1>1, <2>2 DEF Accept, LinkInv
<1>2. CASE Insert
  <2>1. todo \subseteq Nat /\ todo # {}
    BY <1>2, Families DEF Insert, TypeOK
  <2>2. Assigned \in Missions
    BY <2>1, LowestIsLeast DEF Assigned, TypeOK
  <2>3. count'[Assigned] = 0 /\ \A x \in Missions : x # Assigned => count'[x] = count[x]
    BY <1>2, <2>2 DEF Insert, TypeOK
  <2>4. TypeOK'
    BY <1>2, <2>2 DEF Insert, TypeOK
  <2> QED BY <1>2, <2>3, <2>4 DEF Insert, LinkInv
<1>3. CASE Link
  <2>1. TypeOK'
    BY <1>3 DEF Link, TypeOK
  <2> QED BY <1>3, <2>1 DEF Link, LinkInv
<1>4. CASE Persist
  <2> DEFINE m == Lowest(unsaved)
  <2>1. unsaved \subseteq Nat /\ unsaved # {}
    BY <1>4, Families DEF Persist, TypeOK, LinkInv
  <2>2. m \in Missions
    BY <2>1, LowestIsLeast DEF TypeOK
  <2>3. [op |-> "insert", mission |-> m, n |-> 0] \in Statement
    BY <2>2 DEF Statement
  <2> HIDE DEF m
  <2>4. /\ pending' = Append(pending, [op |-> "insert", mission |-> m, n |-> 0])
        /\ unsaved' = (unsaved \ {m}) \cup AlsoSaved(m)
        /\ accepting' = IF unsaved' = {} THEN None ELSE accepting
        /\ UNCHANGED <<has, linked, count, complete, todo, events, cursor, rows, rewards,
                       rewarded, acted, logins, disturbed, crashed>>
    BY <1>4 DEF Persist, m
  <2>5. pending' \in Seq(Statement)
    BY <2>3, <2>4, Pushed DEF TypeOK
  <2>6. unsaved' \subseteq Missions
    BY <2>4 DEF AlsoSaved, Kids, TypeOK
  <2>7. TypeOK'
    BY <2>4, <2>5, <2>6 DEF TypeOK
  <2> QED BY <2>4, <2>7 DEF LinkInv
<1>5. ASSUME NEW c \in Codes, Command(c)
      PROVE  TypeOK' /\ LinkInv'
  <2>1. [code |-> c, source |-> None, target |-> None, old |-> FALSE] \in Event
    BY DEF Event
  <2>2. events' \in Seq(Event)
    BY <1>5, <2>1, Pushed DEF Command, TypeOK
  <2>3. TypeOK'
    BY <1>5, <2>2 DEF Command, TypeOK
  <2> QED BY <1>5, <2>3 DEF Command, LinkInv
<1>6. CASE Visit
  <2>1. ThreadType /\ LinkInv'
    BY <1>6, VisitType
  <2>2. Still /\ cursor' \in Missions \cup {0}
    BY <1>6, VisitCases
  <2>3. disturbed' \in BOOLEAN /\ crashed' = crashed
    BY <1>6 DEF Visit, Overlap, TypeOK
  <2> QED BY <2>1, <2>2, <2>3 DEF ThreadType, Still, TypeOK
<1>7. CASE ToParent \/ ToPlayer
  <2>1. ThreadType /\ LinkInv'
    BY <1>7, CompletionType
  <2>2. Still /\ cursor' = cursor
    BY <1>7, CompletionCases
  <2>3. disturbed' \in BOOLEAN /\ crashed' = crashed
    BY <1>7 DEF ToParent, ToPlayer, Overlap, TypeOK
  <2> QED BY <2>1, <2>2, <2>3 DEF ThreadType, Still, TypeOK
<1>8. ASSUME NEW i \in 1..Workers, Execute(i)
      PROVE  TypeOK' /\ LinkInv'
  <2>1. pending[i] \in Statement /\ pending' \in Seq(Statement)
    BY <1>8, Overtaken DEF Execute, TypeOK
  <2>2. Written(pending[i]) \in [Missions -> Nat \cup {NoRow}]
    BY <2>1 DEF Written, Statement, TypeOK
  <2>3. TypeOK'
    BY <1>8, <2>1, <2>2 DEF Execute, TypeOK
  <2> QED BY <1>8, <2>3 DEF Execute, LinkInv
<1>9. CASE Relogin
  <2> DEFINE saved == {m \in Missions : rows[m] # NoRow}
  <2>1. /\ has' = saved \cup UNION {Kids(m) : m \in saved}
        /\ linked' = {m \in has' : Parent[m] # None /\ Parent[m] \in has'}
        /\ count' = [m \in Missions |-> IF m \in saved THEN rows[m] ELSE 0]
        /\ complete' = {} /\ rewarded' = [m \in Missions |-> 0]
        /\ logins' = logins + 1 /\ disturbed' \in BOOLEAN
        /\ UNCHANGED <<accepting, todo, unsaved, cursor, pending, rows, rewards, acted, crashed>>
    BY <1>9 DEF Relogin, TypeOK
  <2>2. saved \subseteq has' /\ saved \subseteq Missions /\ has' \subseteq Missions
    BY <2>1, Families
  <2>3. count' \in [Missions -> Nat]
    BY <2>1 DEF TypeOK
  <2>4. rewarded' \in [Missions -> Nat]
    BY <2>1
  <2>5. events' \in Seq(Event)
    BY <1>9, QueueLeft DEF TypeOK
  <2>6. TypeOK'
    BY <2>1, <2>2, <2>3, <2>4, <2>5 DEF TypeOK
  <2> QED BY <2>1, <2>2, <2>6 DEF LinkInv
<1>10. CASE Crash \/ UNCHANGED vars
  BY <1>10 DEF Crash, TypeOK, LinkInv
<1>11. CASE Leftover
  <2>1. /\ UNCHANGED <<player, socket, rows, rewarded, bounds, disturbed, crashed>>
        /\ cursor' \in Missions \cup {0} /\ pending' \in Seq(Statement)
        /\ rewards' \in [Missions -> Nat] /\ events # <<>>
        /\ \/ events' = events \/ events' = Tail(events)
           \/ \E e \in Event : e.old /\ events' \in {Append(events, e), Append(Tail(events), e)}
    BY <1>11, LeftoverCases
  <2>2. events \in Seq(Event) /\ Tail(events) \in Seq(Event)
    BY <2>1, Popped DEF TypeOK
  <2>3. \A e \in Event : Append(events, e) \in Seq(Event) /\ Append(Tail(events), e) \in Seq(Event)
    BY <2>2, Pushed
  <2>4. events' \in Seq(Event)
    BY <2>1, <2>2, <2>3
  <2> QED BY <2>1, <2>4 DEF TypeOK, LinkInv
<1> QED
  BY <1>1, <1>2, <1>3, <1>4, <1>5, <1>6, <1>7, <1>8, <1>9, <1>10, <1>11
  DEF Next, SocketThread, EventThread, User

-----------------------------------------------------------------------------
(* Events and rewards of one login                                          *)

\* The four races are never undone.
LEMMA DisturbedStays ==
  ASSUME [Next]_vars
  PROVE  disturbed => disturbed'
BY
DEF vars, Next, SocketThread, EventThread, User, Accept, Insert, Link, Persist, Command, Visit,
    ToParent, ToPlayer, Leftover, Overlap, Execute, Relogin, Crash

Growing == complete \subseteq complete' /\ linked \subseteq linked' /\ (disturbed => disturbed')

\* An event stays what it is while missions are completed and linked.
LEMMA EventStays ==
  ASSUME NEW e, EventOK(e), Growing
  PROVE  EventOK(e)'
BY DEF EventOK, Growing

\* The events of the next queue are those of this one, and one more.
LEMMA EventsStay ==
  ASSUME EventInv, Growing, NEW e, EventOK(e)', From(events', events, e), AnnouncedOnce(events')
  PROVE  EventInv'
<1>1. ASSUME NEW i \in DOMAIN events'
      PROVE  EventOK(events[i])'
  <2>1. PICK f : f = events'[i]
    OBVIOUS
  <2>2. EventOK(f)'
    <3>1. CASE f = e
      BY <3>1
    <3>2. CASE f # e
      <4>1. PICK j \in DOMAIN events : f = events[j]
        BY <2>1, <3>2 DEF From
      <4>2. EventOK(f)
        BY <4>1 DEF EventInv
      <4> QED BY <4>2, EventStays
    <3> QED BY <3>1, <3>2
  <2> QED BY <2>1, <2>2 DEF EventOK
<1>2. AnnouncedOnce(events)'
  BY DEF AnnouncedOnce
<1> QED BY <1>1, <1>2 DEF EventInv

\* Nothing is pushed or popped.
LEMMA SameEvents ==
  ASSUME EventInv, GivenInv, Growing, UNCHANGED <<events, rewarded>>
  PROVE  EventInv' /\ GivenInv'
<1>1. ASSUME NEW i \in DOMAIN events'
      PROVE  EventOK(events[i])'
  <2>1. PICK f : f = events[i]
    OBVIOUS
  <2>2. EventOK(f)
    BY <1>1, <2>1 DEF EventInv
  <2>3. EventOK(f)'
    BY <2>2, EventStays
  <2> QED BY <2>1, <2>3 DEF EventOK
<1>2. EventInv'
  BY <1>1 DEF EventInv, AnnouncedOnce
<1> QED BY <1>2 DEF GivenInv, Announced, Growing

\* An event is popped without a reward.
LEMMA TailEvents ==
  ASSUME TypeOK, EventInv, GivenInv, Growing, events # <<>>, events' = Tail(events),
         rewarded' = rewarded
  PROVE  EventInv' /\ GivenInv'
<1>1. EventInv'
  <2>1. PICK e : e = Head(events)
    OBVIOUS
  <2>2. /\ From(Tail(events), events, e)
        /\ \E j \in DOMAIN events : e = events[j]
    BY <2>1, FromQueue DEF TypeOK
  <2>3. EventOK(e)'
    BY <2>2, EventStays DEF EventInv
  <2>4. AnnouncedOnce(Tail(events))
    BY PoppedAnnounced DEF EventInv, TypeOK
  <2> QED BY <2>2, <2>3, <2>4, EventsStay
<1>2. \A m : Announced(m, events)' => Announced(m, events)
  BY PoppedAnnounced DEF TypeOK, Announced
<1> QED BY <1>1, <1>2 DEF GivenInv, Growing

\* A completion is popped with a reward.
LEMMA RewardEvents ==
  ASSUME Tables, TypeOK, EventInv, GivenInv, Growing, events # <<>>, events' = Tail(events),
         NEW k \in Missions \cap complete, k = Head(events).source, ~Head(events).old, Reward(k)
  PROVE  EventInv' /\ GivenInv'
<1>0. k # None /\ events \in Seq(Event) /\ AnnouncedOnce(events)
  BY Families DEF TypeOK, EventInv
<1>1. EventInv'
  <2>1. PICK e : e = Head(events)
    OBVIOUS
  <2>2. /\ From(Tail(events), events, e)
        /\ \E j \in DOMAIN events : e = events[j]
    BY <2>1, FromQueue DEF TypeOK
  <2>3. EventOK(e)'
    BY <2>2, EventStays DEF EventInv
  <2>4. AnnouncedOnce(Tail(events))
    BY PoppedAnnounced DEF EventInv, TypeOK
  <2> QED BY <2>2, <2>3, <2>4, EventsStay
<1>2. \A m : Announced(m, Tail(events)) => Announced(m, events)
  BY <1>0, PoppedAnnounced
<1>3. Announced(k, events) /\ ~Announced(k, Tail(events))
  BY <1>0, PoppedAnnounced
<1>4. \A x \in Missions : rewarded'[x] = IF x = k THEN rewarded[k] + 1 ELSE rewarded[x]
  BY RewardType
<1>5. rewarded[k] = 0
  <2>1. rewarded[k] <= 1 /\ rewarded[k] # 1 /\ rewarded[k] \in Nat
    BY <1>3 DEF GivenInv, TypeOK
  <2> QED BY <2>1
<1>6. ASSUME NEW m \in Missions
      PROVE  rewarded'[m] <= 1 /\ (rewarded'[m] = 1 => m \in complete' /\ ~Announced(m, Tail(events)))
  <2>1. CASE m = k
    BY <1>3, <1>4, <1>5, <2>1 DEF Growing
  <2>2. CASE m # k
    BY <1>2, <1>4, <2>2 DEF GivenInv, Growing
  <2> QED BY <2>1, <2>2
<1>7. GivenInv'
  BY <1>6 DEF GivenInv, Announced
<1> QED BY <1>1, <1>7

\* A mission is completed, and its completion pushed.
LEMMA PushEvents ==
  ASSUME TypeOK, EventInv, GivenInv, Growing, NEW e \in Event, EventOK(e)', rewarded' = rewarded,
         e.old \/ e.source \notin complete,
         \/ events' = Append(events, e)
         \/ events # <<>> /\ events' = Append(Tail(events), e)
  PROVE  EventInv' /\ GivenInv'
<1>0. events \in Seq(Event) /\ AnnouncedOnce(events)
  BY DEF TypeOK, EventInv
<1>1. PICK q \in {events, Tail(events)} : q \in Seq(Event) /\ events' = Append(q, e) /\ (q # events => events # <<>>)
  BY <1>0, Popped
<1>2. AnnouncedOnce(q) /\ \A m : Announced(m, q) => Announced(m, events)
  BY <1>0, <1>1, PoppedAnnounced
<1>3. e.old \/ e.source = None \/ ~Announced(e.source, events)
  <2>1. ASSUME ~e.old, e.source # None, Announced(e.source, events)
        PROVE  FALSE
    <3>1. PICK i \in DOMAIN events : events[i].source = e.source /\ ~events[i].old
      BY <2>1 DEF Announced
    <3>2. EventOK(events[i])
      BY DEF EventInv
    <3> QED BY <2>1, <3>1, <3>2 DEF EventOK
  <2> QED BY <2>1
<1>4. AnnouncedOnce(events')
  BY <1>1, <1>2, <1>3, PushedAnnounced
<1>5. From(events', events, e)
  BY <1>0, <1>1, FromQueue
<1>6. EventInv'
  BY <1>4, <1>5, EventsStay
<1>7. \A m : Announced(m, events') <=> Announced(m, q) \/ (e.source = m /\ ~e.old)
  BY <1>1, PushedAnnounced
<1>8. ASSUME NEW m \in Missions
      PROVE  rewarded'[m] <= 1 /\ (rewarded'[m] = 1 => m \in complete' /\ ~Announced(m, events'))
  BY <1>2, <1>7 DEF GivenInv, Growing
<1>9. GivenInv'
  BY <1>8 DEF GivenInv, Announced
<1> QED BY <1>6, <1>9

LEMMA EventStep ==
  ASSUME Tables, LoginInv, [Next]_vars
  PROVE  EventInv' /\ GivenInv'
<1> USE DEF vars, player, socket, db, given, bounds
<1>0. TypeOK /\ LinkInv /\ EventInv /\ GivenInv /\ (disturbed => disturbed')
  BY DisturbedStays DEF LoginInv
<1>1. CASE (\E m \in Roots : Accept(m)) \/ Insert \/ Persist \/ (\E i \in 1..Workers : Execute(i))
           \/ Crash \/ UNCHANGED vars
  <2>1. UNCHANGED <<events, rewarded, complete, linked>>
    BY <1>1 DEF Accept, Insert, Persist, Execute, Crash
  <2> QED BY <1>0, <2>1, SameEvents DEF Growing
<1>2. CASE Link
  <2>1. UNCHANGED <<events, rewarded, complete>> /\ linked \subseteq linked'
    BY <1>2 DEF Link
  <2> QED BY <1>0, <2>1, SameEvents DEF Growing
<1>3. ASSUME NEW c \in Codes, Command(c)
      PROVE  EventInv' /\ GivenInv'
  <2> DEFINE e == [code |-> c, source |-> None, target |-> None, old |-> FALSE]
  <2>1. e \in Event /\ e.source = None /\ e.target = None /\ e.code \in Codes /\ ~e.old
    BY DEF Event
  <2>2. events' = Append(events, e) /\ UNCHANGED <<rewarded, complete, linked>>
    BY <1>3 DEF Command
  <2>3. None \notin complete
    BY <1>0, Families DEF TypeOK
  <2> HIDE DEF e
  <2>4. EventOK(e)'
    BY <2>1 DEF EventOK
  <2> QED BY <1>0, <2>1, <2>2, <2>3, <2>4, PushEvents DEF Growing
<1>4. CASE Visit
  <2>0. /\ linked' = linked /\ events # <<>>
        /\ Skipped \/ Dropped \/ \E m \in Missions : Counted(m) \/ Finished(m)
    BY <1>0, <1>4, VisitCases DEF Still
  <2>1. CASE Skipped \/ \E m \in Missions : Counted(m)
    <3>1. UNCHANGED <<events, rewarded, complete>>
      BY <2>1 DEF Skipped, Counted
    <3> QED BY <1>0, <2>0, <3>1, SameEvents DEF Growing
  <2>2. CASE Dropped
    <3>1. events' = Tail(events) /\ UNCHANGED <<rewarded, complete>>
      BY <2>2 DEF Dropped
    <3> QED BY <1>0, <2>0, <3>1, TailEvents DEF Growing
  <2>3. ASSUME NEW m \in Missions, Finished(m)
        PROVE  EventInv' /\ GivenInv'
    <3>1. /\ m \notin complete /\ complete' = complete \cup {m} /\ rewarded' = rewarded
          /\ events' = Append(events, Completed(m, IF m \in linked THEN Parent[m] ELSE None))
      BY <2>3 DEF Finished
    <3>2. PICK t : t = IF m \in linked THEN Parent[m] ELSE None
      OBVIOUS
    <3>3. m \in linked => Parent[m] \in Missions
      BY <1>0 DEF LinkInv, TypeOK
    <3>4. t \in Roots \cup {None}
      BY <3>2, <3>3, Families DEF Tables, Roots
    <3>5. PICK e : e = Completed(m, t)
      OBVIOUS
    <3>6. e \in Event /\ e.source = m /\ e.target = t /\ ~e.old
      BY <3>4, <3>5, CompletedType
    <3>7. EventOK(e)'
      BY <2>0, <3>1, <3>2, <3>6 DEF EventOK
    <3>8. events' = Append(events, e) /\ e.source \notin complete
      BY <3>1, <3>2, <3>5, <3>6
    <3> QED BY <1>0, <2>0, <3>1, <3>6, <3>7, <3>8, PushEvents DEF Growing
  <2> QED BY <2>0, <2>1, <2>2, <2>3
<1>5. CASE ToParent \/ ToPlayer
  <2>0. /\ linked' = linked /\ events # <<>> /\ ~Head(events).old
        /\ Head(events).source \in complete \cap Missions
        /\ \/ \E k, p \in Missions : Ignored(k, p) \/ ParentCounted(k, p) \/ ParentFinished(k, p)
           \/ \E m \in Missions : ToldPlayer(m)
    BY <1>0, <1>5, CompletionCases DEF Still
  <2>1. ASSUME NEW k \in Missions, NEW p \in Missions, Ignored(k, p)
        PROVE  EventInv' /\ GivenInv'
    <3>1. events' = Tail(events) /\ UNCHANGED <<rewarded, complete>>
      BY <2>1 DEF Ignored
    <3> QED BY <1>0, <2>0, <3>1, TailEvents DEF Growing
  <2>2. ASSUME NEW k \in Missions,
               ToldPlayer(k) \/ \E p \in Missions : ParentCounted(k, p)
        PROVE  EventInv' /\ GivenInv'
    <3>1. /\ events' = Tail(events) /\ complete' = complete
          /\ k = Head(events).source /\ Reward(k)
      BY <2>2 DEF ToldPlayer, ParentCounted, OfChild
    <3>2. Growing /\ k \in Missions \cap complete
      BY <1>0, <2>0, <3>1 DEF Growing
    <3> QED BY <1>0, <2>0, <3>1, <3>2, RewardEvents
  <2>3. ASSUME NEW k \in Missions, NEW p \in Missions, ParentFinished(k, p)
        PROVE  EventInv' /\ GivenInv'
    <3>1. /\ p \notin complete /\ complete' = complete \cup {p} /\ rewarded' = rewarded
          /\ events' = Append(Tail(events), Completed(p, None))
      BY <2>3 DEF ParentFinished
    <3>2. PICK e : e = Completed(p, None)
      OBVIOUS
    <3>3. e \in Event /\ e.source = p /\ e.target = None /\ ~e.old
      BY <3>2, CompletedType
    <3>4. EventOK(e)'
      BY <3>1, <3>3 DEF EventOK
    <3> QED BY <1>0, <2>0, <3>1, <3>2, <3>3, <3>4, PushEvents DEF Growing
  <2> QED BY <2>0, <2>1, <2>2, <2>3
<1>6. CASE Relogin
  <2>1. /\ rewarded' = [m \in Missions |-> 0]
        /\ events # <<>> => disturbed'
    BY <1>6 DEF Relogin
  <2>2. /\ DOMAIN events' = DOMAIN events
        /\ \A i \in DOMAIN events :
             \/ events'[i].old
             \/ events'[i] = events[i] /\ ~events[i].old /\ events[i].source = None
    BY <1>0, <1>6, QueueLeft DEF TypeOK
  <2>3. None \notin Missions /\ None \notin complete
    BY <1>0, Families DEF TypeOK
  <2>4. ASSUME NEW i \in DOMAIN events'
        PROVE  EventOK(events[i])'
    <3>1. EventOK(events[i]) /\ events # <<>>
      BY <1>0, <2>2, <2>4 DEF EventInv, TypeOK
    <3>2. CASE events'[i].old
      BY <2>1, <3>1, <3>2 DEF EventOK
    <3>3. CASE events'[i] = events[i] /\ ~events[i].old /\ events[i].source = None
      BY <2>3, <3>1, <3>3 DEF EventOK
    <3> QED BY <2>2, <2>4, <3>2, <3>3
  <2>5. AnnouncedOnce(events)' /\ \A m \in Missions : ~Announced(m, events)'
    BY <2>2, <2>3 DEF AnnouncedOnce, Announced
  <2>6. GivenInv'
    BY <2>1, <2>5 DEF GivenInv
  <2> QED BY <2>4, <2>5, <2>6 DEF EventInv
<1>7. CASE Leftover
  <2>0. /\ UNCHANGED <<complete, linked, rewarded, disturbed>>
        /\ events # <<>> /\ Head(events).old
        /\ \/ events' = events \/ events' = Tail(events)
           \/ \E e \in Event : e.old /\ events' \in {Append(events, e), Append(Tail(events), e)}
    BY <1>0, <1>7, LeftoverCases
  <2>1. Growing
    BY <2>0 DEF Growing
  <2>2. disturbed
    <3>1. \E j \in DOMAIN events : Head(events) = events[j]
      BY <1>0, <2>0, FromQueue DEF TypeOK
    <3>2. EventOK(Head(events))
      BY <1>0, <3>1 DEF EventInv
    <3> QED BY <2>0, <3>2 DEF EventOK
  <2>3. ASSUME NEW e \in Event, e.old, events' \in {Append(events, e), Append(Tail(events), e)}
        PROVE  EventInv' /\ GivenInv'
    <3>1. EventOK(e)'
      BY <2>0, <2>2, <2>3 DEF EventOK
    <3> QED BY <1>0, <2>0, <2>1, <2>3, <3>1, PushEvents
  <2> QED BY <1>0, <2>0, <2>1, <2>3, SameEvents, TailEvents
<1> QED
  BY <1>1, <1>2, <1>3, <1>4, <1>5, <1>6, <1>7 DEF Next, SocketThread, EventThread, User

LEMMA LoginStep ==
  ASSUME Tables, LoginInv, [Next]_vars
  PROVE  LoginInv'
BY TypeStep, EventStep DEF LoginInv

-----------------------------------------------------------------------------
(* The family that is being assigned                                        *)

\* An accept begins with nothing of the family.
LEMMA AcceptFamily ==
  ASSUME Tables, TypeOK, FamilyInv, NEW m \in Roots, Accept(m)
  PROVE  FamilyInv' /\ New = {} /\ New' = Family(m) /\ Family(m) \cap has = {}
<1>1. /\ accepting = None /\ m \notin has /\ accepting' = m /\ todo' = Family(m) /\ unsaved' = {m}
      /\ has' = has /\ linked' = linked
  BY DEF Accept, player
<1>2. m \in Missions /\ m # None
  BY Families
<1>3. Family(m) \cap has = {}
  <2>1. ASSUME NEW k \in Kids(m)
        PROVE  k \notin has
    <3>1. k \in Missions \ Roots /\ Parent[k] = m
      BY <1>2, Families
    <3> QED BY <1>1, <1>2, <3>1 DEF FamilyInv
  <2> QED BY <1>1, <2>1 DEF Family
<1>4. \A x \in Missions \ Roots : (x \in has <=> Parent[x] \in has) /\ (x \in has => x \in linked)
  <2>1. \A x \in Missions \ Roots : Parent[x] # None
    BY Families
  <2> QED BY <1>1, <2>1 DEF FamilyInv
<1>5. FamilyInv'
  BY <1>1, <1>2, <1>3, <1>4 DEF FamilyInv, Family
<1>6. New = {} /\ New' = Family(m)
  BY <1>1, <1>2 DEF New
<1> QED BY <1>3, <1>5, <1>6

\* The mission that is assigned next, and that its parent came first.
LEMMA AssignedFamily ==
  ASSUME Tables, TypeOK, FamilyInv, todo # {}
  PROVE  /\ accepting \in Roots /\ accepting \in Missions /\ accepting # None
         /\ unsaved = {accepting} /\ New = Family(accepting)
         /\ Assigned \in todo /\ Assigned \in Family(accepting)
         /\ accepting \in todo => Assigned = accepting
         /\ accepting \notin todo => accepting \in has /\ Assigned \in Kids(accepting)
<1>1. accepting # None /\ accepting \in Roots /\ accepting \in Missions
  BY Families DEF FamilyInv, TypeOK
<1>2. todo \subseteq Family(accepting) /\ unsaved = {accepting}
  BY <1>1 DEF FamilyInv
<1>3. todo \subseteq Nat
  BY Families DEF TypeOK
<1>4. Assigned \in todo /\ \A y \in todo : Assigned <= y
  BY <1>3, LowestIsLeast DEF Assigned
<1>5. ASSUME accepting \in todo
      PROVE  Assigned = accepting
  <2>1. Assigned <= accepting
    BY <1>4, <1>5
  <2>2. Assigned \in Kids(accepting) => accepting < Assigned
    BY <1>1, Families
  <2>3. Assigned \in Nat /\ accepting \in Nat
    BY <1>1, <1>3, <1>4, Families
  <2> QED BY <1>2, <1>4, <2>1, <2>2, <2>3 DEF Family
<1>6. ASSUME accepting \notin todo
      PROVE  accepting \in has /\ Assigned \in Kids(accepting)
  BY <1>1, <1>2, <1>4, <1>6 DEF FamilyInv, Family
<1>7. New = Family(accepting)
  BY <1>1, <1>2 DEF New
<1> QED BY <1>1, <1>2, <1>4, <1>5, <1>6, <1>7

LEMMA InsertFamily ==
  ASSUME Tables, TypeOK, FamilyInv, Insert
  PROVE  FamilyInv' /\ New' = New /\ Assigned \in New /\ Assigned \in Missions
<1> DEFINE a == Assigned
           f == accepting
<1>1. /\ a \notin has /\ has' = has \cup {a} /\ todo # {}
      /\ todo' = IF a \in Roots THEN todo \ {a} ELSE todo
      /\ UNCHANGED <<linked, accepting, unsaved>>
  BY DEF Insert
<1>2. /\ f \in Roots /\ f \in Missions /\ f # None /\ unsaved = {f} /\ New = Family(f)
      /\ a \in todo /\ a \in Family(f)
      /\ f \in todo => a = f
      /\ f \notin todo => f \in has /\ a \in Kids(f)
  BY <1>1, AssignedFamily
<1> HIDE DEF a
<1>3. a \in Missions /\ (a # f => a \in Missions \ Roots /\ Parent[a] = f)
  BY <1>2, Families DEF Family
<1>4. ASSUME NEW x \in Missions \ Roots, Parent[x] # f
      PROVE  (x \in has' <=> Parent[x] \in has') /\ (x \in has' => x \in linked')
  <2>1. x # a
    BY <1>2, <1>3, <1>4
  <2>2. Parent[x] # a
    <3>1. Parent[x] \in Roots
      BY Families
    <3> QED BY <1>3, <1>4, <3>1
  <2>3. (x \in has <=> Parent[x] \in has) /\ (x \in has => x \in linked)
    BY <1>4 DEF FamilyInv
  <2> QED BY <1>1, <2>1, <2>2, <2>3
<1>5. todo \subseteq Family(f)
  BY <1>2 DEF FamilyInv
<1>6. f \notin todo'
  BY <1>1, <1>2
<1>7. ASSUME NEW x \in Family(f) \ todo'
      PROVE  x \in has' /\ (x # f => x \in linked')
  <2>1. CASE x \in todo
    BY <1>1, <1>2, <1>3, <1>7, <2>1
  <2>2. CASE x \notin todo
    BY <1>1, <1>2, <1>7, <2>2 DEF FamilyInv
  <2> QED BY <2>1, <2>2
<1>8. FamilyInv'
  <2>1. todo' \subseteq todo
    BY <1>1
  <2>2. accepting' = f /\ unsaved' = {f}
    BY <1>1, <1>2
  <2>3. \A x : Family(x)' = Family(x)
    OBVIOUS
  <2> QED BY <1>2, <1>4, <1>5, <1>6, <1>7, <2>1, <2>2 DEF FamilyInv
<1>9. New' = New
  BY <1>1, <1>2 DEF New
<1> QED BY <1>2, <1>3, <1>8, <1>9 DEF a

LEMMA LinkFamily ==
  ASSUME Tables, TypeOK, FamilyInv, Link
  PROVE  FamilyInv' /\ New' = New
<1> DEFINE a == Assigned
           f == accepting
<1>1. /\ a \in has /\ todo # {} /\ todo' = todo \ {a}
      /\ linked' = IF Parent[a] \in has THEN linked \cup {a} ELSE linked
      /\ UNCHANGED <<has, accepting, unsaved>>
  BY DEF Link
<1>2. /\ f \in Roots /\ f \in Missions /\ f # None /\ unsaved = {f} /\ New = Family(f)
      /\ a \in todo /\ a \in Family(f)
      /\ f \in todo => a = f
      /\ f \notin todo => f \in has /\ a \in Kids(f)
  BY <1>1, AssignedFamily
<1> HIDE DEF a
<1>3. f \notin todo
  BY <1>1, <1>2 DEF FamilyInv
<1>4. f \in has /\ a \in Missions \ Roots /\ Parent[a] = f
  BY <1>2, <1>3, Families
<1>5. linked' = linked \cup {a}
  BY <1>1, <1>4
<1>6. ASSUME NEW x \in Family(f) \ todo'
      PROVE  x \in has' /\ (x # f => x \in linked')
  <2>1. CASE x = a
    BY <1>1, <1>5, <2>1
  <2>2. CASE x # a
    BY <1>1, <1>2, <1>5, <1>6, <2>2 DEF FamilyInv
  <2> QED BY <2>1, <2>2
<1>7. FamilyInv'
  <2>1. todo' \subseteq Family(f) /\ f \notin todo'
    BY <1>1, <1>2, <1>3 DEF FamilyInv
  <2>2. \A x \in Missions \ Roots : Parent[x] # f =>
          (x \in has' <=> Parent[x] \in has') /\ (x \in has' => x \in linked')
    BY <1>1, <1>5 DEF FamilyInv
  <2>3. accepting' = f /\ unsaved' = {f}
    BY <1>1, <1>2
  <2> QED BY <1>2, <1>6, <2>1, <2>2, <2>3 DEF FamilyInv
<1>8. New' = New
  BY <1>1, <1>2 DEF New
<1> QED BY <1>7, <1>8

\* One mission less is new; at the end the family is complete.
LEMMA PersistFamily ==
  ASSUME Tables, TypeOK, LinkInv, FamilyInv, Persist
  PROVE  /\ FamilyInv'
         /\ Lowest(unsaved) \in New \cap has \cap Missions /\ New' = New \ {Lowest(unsaved)}
<1> DEFINE m == Lowest(unsaved)
           f == accepting
<1>1. /\ f # None /\ todo = {} /\ todo' = {}
      /\ unsaved' = (unsaved \ {m}) \cup AlsoSaved(m)
      /\ accepting' = IF unsaved' = {} THEN None ELSE f
      /\ UNCHANGED <<has, linked>>
  BY DEF Persist, player
<1>2. f \in Roots /\ f \in Missions /\ f \notin Kids(f)
  BY <1>1, Families DEF TypeOK
<1>3. unsaved # {} /\ unsaved \subseteq Nat /\ unsaved \subseteq Missions
  BY <1>1, Families DEF LinkInv, TypeOK
<1>4. m \in unsaved
  BY <1>3, LowestIsLeast
<1> HIDE DEF m
<1>5. unsaved = {f} \/ unsaved \subseteq Kids(f)
  BY <1>1 DEF FamilyInv
<1>6. \A x \in Family(f) : x \in has /\ (x # f => x \in linked)
  BY <1>1 DEF FamilyInv
<1>7. Kids(f) \cap linked = Kids(f)
  BY <1>2, <1>6 DEF Family
<1>8. /\ m \in New /\ New' = New \ {m}
      /\ unsaved' \subseteq Kids(f)
  <2>1. CASE unsaved = {f}
    <3>1. m = f /\ unsaved' = Kids(f)
      BY <1>1, <1>4, <1>7, <2>1 DEF AlsoSaved
    <3>2. New = {f} \cup Kids(f) /\ New' = Kids(f)
      BY <1>1, <1>2, <2>1, <3>1 DEF New, Family
    <3> QED BY <1>2, <3>1, <3>2
  <2>2. CASE unsaved # {f}
    <3>1. unsaved \subseteq Kids(f) /\ m \in Kids(f)
      BY <1>4, <1>5, <2>2
    <3>2. Kids(m) = {}
      BY <1>2, <3>1, Families
    <3>3. unsaved' = unsaved \ {m}
      BY <1>1, <3>2 DEF AlsoSaved
    <3>4. New = unsaved /\ New' = unsaved'
      BY <1>1, <1>2, <3>1, <3>3 DEF New
    <3> QED BY <1>4, <3>1, <3>3, <3>4
  <2> QED BY <2>1, <2>2
<1>9. m \in has /\ m \in Missions
  BY <1>3, <1>4, <1>5, <1>6 DEF Family
<1>10. FamilyInv'
  <2>1. \A x \in Missions \ Roots : (x \in has <=> Parent[x] \in has) /\ (x \in has => x \in linked)
    <3> SUFFICES ASSUME NEW x \in Missions \ Roots, Parent[x] = f
                 PROVE  (x \in has <=> Parent[x] \in has) /\ (x \in has => x \in linked)
      BY DEF FamilyInv
    <3>1. x \in Family(f) /\ f \in Family(f) /\ x # f
      BY <1>2, Families DEF Family
    <3> QED BY <1>6, <3>1
  <2>2. accepting' # None => accepting' = f /\ unsaved' # {}
    BY <1>1
  <2>3. accepting' = None => todo' = {} /\ unsaved' = {}
    BY <1>1
  <2> QED BY <1>1, <1>2, <1>6, <1>8, <2>1, <2>2, <2>3 DEF FamilyInv
<1> QED BY <1>8, <1>9, <1>10 DEF m

\* No mission is being assigned: the families are complete.
LEMMA NothingNew ==
  ASSUME Tables, TypeOK, FamilyInv, accepting = None
  PROVE  /\ New = {}
         /\ \A x \in Missions \ Roots : (x \in has <=> Parent[x] \in has) /\ (x \in has => x \in linked)
         /\ \A p \in has \cap Roots : Kids(p) \cap linked = Kids(p)
<1>1. \A x \in Missions \ Roots : Parent[x] # None
  BY Families
<1>2. \A x \in Missions \ Roots : (x \in has <=> Parent[x] \in has) /\ (x \in has => x \in linked)
  BY <1>1 DEF FamilyInv
<1>3. ASSUME NEW p \in has \cap Roots
      PROVE  Kids(p) \subseteq linked
  BY <1>2, Families
<1> QED BY <1>2, <1>3 DEF New

\* A login after all statements brings the player back as he was.
LEMMA SameAfterLogin ==
  ASSUME Tables, TypeOK, LinkInv, FamilyInv, RowInv, Relogin, ~disturbed'
  PROVE  UNCHANGED <<has, count>> /\ linked' = has \ Roots /\ pending = <<>>
<1> DEFINE saved == {m \in Missions : rows[m] # NoRow}
<1>1. /\ accepting = None /\ pending = <<>>
      /\ has' = saved \cup UNION {Kids(m) : m \in saved}
      /\ linked' = {m \in has' : Parent[m] # None /\ Parent[m] \in has'}
      /\ count' = [m \in Missions |-> IF m \in saved THEN rows[m] ELSE 0]
  BY DEF Relogin
<1>2. /\ New = {}
      /\ \A x \in Missions \ Roots : x \in has <=> Parent[x] \in has
  BY <1>1, NothingNew
<1>3. ASSUME NEW m \in has
      PROVE  m \in Missions /\ rows[m] = count[m] /\ rows[m] # NoRow
  <2>1. RowOK(m, pending, rows[m], count[m]) /\ m \in Missions
    BY <1>2, <1>3 DEF RowInv, TypeOK
  <2>2. Unqueued(m, pending)
    BY <1>1 DEF Unqueued
  <2>3. rows[m] = count[m] /\ count[m] \in Nat
    BY <2>1, <2>2 DEF RowOK, TypeOK
  <2> QED BY <2>1, <2>3 DEF NoRow
<1>4. ASSUME NEW m \in Missions \ has
      PROVE  rows[m] = NoRow /\ count[m] = 0
  BY <1>4 DEF RowInv
<1>5. saved = has
  BY <1>3, <1>4
<1>6. has' = has
  <2>1. \A m \in has : Kids(m) \subseteq has
    BY <1>2, <1>3, Families
  <2> QED BY <1>1, <1>5, <2>1
<1>7. count' = count
  BY <1>1, <1>3, <1>4, <1>5 DEF TypeOK
<1>8. linked' = has \ Roots
  <2>1. \A m \in has : m \in Missions /\ (m \in Roots <=> Parent[m] = None)
    BY <1>3 DEF Roots
  <2> QED BY <1>1, <1>2, <1>6, <2>1
<1> QED BY <1>1, <1>6, <1>7, <1>8

LEMMA FamilyStep ==
  ASSUME Tables, TypeOK, LinkInv, FamilyInv, RowInv, [Next]_vars, ~disturbed'
  PROVE  FamilyInv'
<1> USE DEF vars, player, socket
<1>1. CASE \E m \in Roots : Accept(m)
  BY <1>1, AcceptFamily
<1>2. CASE Insert
  BY <1>2, InsertFamily
<1>3. CASE Link
  BY <1>3, LinkFamily
<1>4. CASE Persist
  BY <1>4, PersistFamily
<1>5. CASE (\E c \in Codes : Command(c)) \/ EventThread \/ (\E i \in 1..Workers : Execute(i))
           \/ Crash \/ UNCHANGED vars
  <2>1. UNCHANGED <<has, linked, accepting, todo, unsaved>>
    BY <1>5 DEF Command, EventThread, Visit, ToParent, ToPlayer, Leftover, Execute, Crash
  <2> QED BY <2>1 DEF FamilyInv
<1>6. CASE Relogin
  <2>1. accepting = None /\ UNCHANGED socket
    BY <1>6 DEF Relogin
  <2>2. has' = has /\ linked' = has \ Roots
    BY <1>6, SameAfterLogin
  <2>3. \A x \in Missions \ Roots : x \in has <=> Parent[x] \in has
    BY <2>1, NothingNew
  <2>4. todo = {} /\ unsaved = {}
    BY <2>1 DEF FamilyInv
  <2> QED BY <2>1, <2>2, <2>3, <2>4 DEF FamilyInv
<1> QED BY <1>1, <1>2, <1>3, <1>4, <1>5, <1>6 DEF Next, SocketThread, User

-----------------------------------------------------------------------------
(* Statements and rows                                                      *)

\* A statement for another mission, or the next count of this one, is pushed.
LEMMA RowPushed ==
  ASSUME NEW q \in Seq(Statement), NEW e \in Statement, NEW m,
         NEW r \in Nat \cup {NoRow}, NEW c \in Nat, NEW d
  PROVE  /\ Unqueued(m, Append(q, e)) <=> Unqueued(m, q) /\ e.mission # m
         /\ RowOK(m, q, r, c) /\ e.mission # m => RowOK(m, Append(q, e), r, c)
         /\ RowOK(m, q, r, c) /\ e.mission = m /\ e.op = "count" /\ e.n = d
              => RowOK(m, Append(q, e), r, d)
         /\ Unqueued(m, q) /\ e.mission = m /\ e.op = "insert" /\ e.n = 0
              => RowOK(m, Append(q, e), NoRow, 0)
<1> DEFINE s == Append(q, e)
           n == Len(q) + 1
<1>1. /\ Len(q) \in Nat /\ DOMAIN q = 1..Len(q) /\ DOMAIN s = 1..(Len(q) + 1)
      /\ \A i \in DOMAIN q : s[i] = q[i]
      /\ s[n] = e
  BY Pushed
<1>2. /\ DOMAIN s = DOMAIN q \cup {n} /\ n \notin DOMAIN q /\ n \in Int
      /\ \A i \in DOMAIN q : i \in Int /\ i < n /\ ~(i > n) /\ n > i /\ ~(n < i)
      /\ ~(n > n) /\ ~(n < n)
  BY <1>1
<1> HIDE DEF s, n
<1>3. Unqueued(m, s) <=> Unqueued(m, q) /\ e.mission # m
  BY <1>1, <1>2 DEF Unqueued
<1>4. ASSUME RowOK(m, q, r, c), e.mission # m
      PROVE  RowOK(m, s, r, c)
  <2>1. Unqueued(m, s) => r = c
    BY <1>3, <1>4 DEF RowOK
  <2>2. ASSUME NEW i \in DOMAIN s, s[i].mission = m, \A j \in DOMAIN s : j > i => s[j].mission # m
        PROVE  s[i].n = c
    <3>1. i \in DOMAIN q
      BY <1>1, <1>2, <1>4, <2>2
    <3>2. \A j \in DOMAIN q : j > i => q[j].mission # m
      BY <1>1, <1>2, <2>2
    <3> QED BY <1>1, <1>4, <2>2, <3>1, <3>2 DEF RowOK
  <2>3. ASSUME NEW i \in DOMAIN s, s[i].mission = m
        PROVE  s[i].op = "insert" <=> r = NoRow /\ \A j \in DOMAIN s : j < i => s[j].mission # m
    <3>1. i \in DOMAIN q
      BY <1>1, <1>2, <1>4, <2>3
    <3>2. (\A j \in DOMAIN s : j < i => s[j].mission # m)
            <=> \A j \in DOMAIN q : j < i => q[j].mission # m
      BY <1>1, <1>2, <3>1
    <3> QED BY <1>1, <1>4, <2>3, <3>1, <3>2 DEF RowOK
  <2> QED BY <2>1, <2>2, <2>3 DEF RowOK
<1>5. ASSUME RowOK(m, q, r, c), e.mission = m, e.op = "count", e.n = d
      PROVE  RowOK(m, s, r, d)
  <2>1. ~Unqueued(m, s)
    BY <1>3, <1>5
  <2>2. ASSUME NEW i \in DOMAIN s, s[i].mission = m, \A j \in DOMAIN s : j > i => s[j].mission # m
        PROVE  s[i].n = d
    <3>1. i = n
      BY <1>1, <1>2, <1>5, <2>2
    <3> QED BY <1>1, <1>5, <3>1
  <2>3. ASSUME NEW i \in DOMAIN s, s[i].mission = m
        PROVE  s[i].op = "insert" <=> r = NoRow /\ \A j \in DOMAIN s : j < i => s[j].mission # m
    <3>1. CASE i \in DOMAIN q
      <4>1. (\A j \in DOMAIN s : j < i => s[j].mission # m)
              <=> \A j \in DOMAIN q : j < i => q[j].mission # m
        BY <1>1, <1>2, <3>1
      <4> QED BY <1>1, <1>5, <2>3, <3>1, <4>1 DEF RowOK
    <3>2. CASE i = n
      <4>1. s[i].op # "insert"
        BY <1>1, <1>5, <3>2
      <4>2. ASSUME r = NoRow, \A j \in DOMAIN s : j < i => s[j].mission # m
            PROVE  FALSE
        <5>1. Unqueued(m, q)
          BY <1>1, <1>2, <3>2, <4>2 DEF Unqueued
        <5>2. r = c
          BY <1>5, <5>1 DEF RowOK
        <5> QED BY <4>2, <5>2 DEF NoRow
      <4> QED BY <4>1, <4>2
    <3> QED BY <1>2, <3>1, <3>2
  <2> QED BY <2>1, <2>2, <2>3 DEF RowOK
<1>6. ASSUME Unqueued(m, q), e.mission = m, e.op = "insert", e.n = 0
      PROVE  RowOK(m, s, NoRow, 0)
  <2>1. ~Unqueued(m, s)
    BY <1>3, <1>6
  <2>2. \A i \in DOMAIN s : s[i].mission = m => i = n /\ s[i].op = "insert" /\ s[i].n = 0
    BY <1>1, <1>2, <1>6 DEF Unqueued
  <2>3. \A j \in DOMAIN s : j < n => s[j].mission # m
    BY <1>2, <2>2
  <2> QED BY <2>1, <2>2, <2>3 DEF RowOK
<1> QED BY <1>3, <1>4, <1>5, <1>6 DEF s

\* What executing statement j makes of the row of mission m.
RowAfter(m, j, r) ==
  IF j.mission # m THEN r
  ELSE IF j.op = "insert" THEN IF r = NoRow THEN 0 ELSE r
  ELSE IF r = NoRow THEN r ELSE j.n

\* The oldest statement is executed.
LEMMA RowPopped ==
  ASSUME NEW q \in Seq(Statement), q # <<>>, InsertsZero(q), NEW m,
         NEW r \in Nat \cup {NoRow}, NEW c
  PROVE  /\ InsertsZero(Tail(q))
         /\ Unqueued(m, q) => Unqueued(m, Tail(q)) /\ Head(q).mission # m
         /\ RowOK(m, q, r, c) => RowOK(m, Tail(q), RowAfter(m, Head(q), r), c)
<1> DEFINE t == Tail(q)
           h == Head(q)
           w == RowAfter(m, h, r)
<1>1. /\ h \in Statement /\ h = q[1] /\ Len(q) \in Nat /\ Len(q) > 0
      /\ DOMAIN q = 1..Len(q) /\ DOMAIN t = 1..(Len(q) - 1)
      /\ \A i \in DOMAIN t : t[i] = q[i + 1]
  BY Popped
<1>2. /\ 1 \in DOMAIN q
      /\ \A i \in DOMAIN t : i \in Nat /\ i + 1 \in DOMAIN q /\ i + 1 # 1 /\ 1 < i + 1
      /\ \A i \in DOMAIN q : i \in Nat /\ ~(i < 1) /\ (i # 1 => i > 1 /\ \E j \in DOMAIN t : i = j + 1)
      /\ \A i, j \in DOMAIN t : (i < j <=> i + 1 < j + 1) /\ (i > j <=> i + 1 > j + 1)
  <2>1. \A i \in DOMAIN q : i # 1 => i - 1 \in DOMAIN t /\ i = (i - 1) + 1
    BY <1>1
  <2>2. \A i \in DOMAIN q : i \in Nat /\ ~(i < 1) /\ (i # 1 => i > 1)
    BY <1>1
  <2>3. \A i \in DOMAIN t : i \in Nat /\ i + 1 \in DOMAIN q /\ i + 1 # 1 /\ 1 < i + 1
    BY <1>1
  <2> QED BY <1>1, <2>1, <2>2, <2>3
<1> HIDE DEF t, h, w
<1>3. InsertsZero(t)
  BY <1>1, <1>2 DEF InsertsZero
<1>4. Unqueued(m, q) => Unqueued(m, t) /\ h.mission # m
  BY <1>1, <1>2 DEF Unqueued
<1>5. ASSUME RowOK(m, q, r, c)
      PROVE  RowOK(m, t, w, c)
  <2>1. CASE h.mission # m
    <3>1. w = r
      BY <2>1 DEF w, RowAfter
    <3>2. Unqueued(m, t) => Unqueued(m, q)
      BY <1>1, <1>2, <2>1 DEF Unqueued
    <3>3. ASSUME NEW i \in DOMAIN t, t[i].mission = m, \A j \in DOMAIN t : j > i => t[j].mission # m
          PROVE  t[i].n = c
      <4>1. i + 1 \in DOMAIN q /\ q[i + 1].mission = m /\ q[i + 1].n = t[i].n
        BY <1>1, <1>2, <3>3
      <4>2. \A j \in DOMAIN q : j > i + 1 => q[j].mission # m
        BY <1>1, <1>2, <3>3
      <4> QED BY <1>5, <4>1, <4>2 DEF RowOK
    <3>4. ASSUME NEW i \in DOMAIN t, t[i].mission = m
          PROVE  t[i].op = "insert" <=> r = NoRow /\ \A j \in DOMAIN t : j < i => t[j].mission # m
      <4>1. i + 1 \in DOMAIN q /\ q[i + 1].mission = m /\ q[i + 1].op = t[i].op
        BY <1>1, <1>2, <3>4
      <4>2. (\A j \in DOMAIN q : j < i + 1 => q[j].mission # m)
              <=> \A j \in DOMAIN t : j < i => t[j].mission # m
        BY <1>1, <1>2, <2>1
      <4> QED BY <1>5, <4>1, <4>2 DEF RowOK
    <3> QED BY <1>5, <3>1, <3>2, <3>3, <3>4 DEF RowOK
  <2>2. CASE h.mission = m
    <3>1. h.op = "insert" <=> r = NoRow
      BY <1>1, <1>2, <1>5, <2>2 DEF RowOK
    <3>2. h.op = "insert" => h.n = 0
      BY <1>1, <1>2 DEF InsertsZero
    <3>3. w = h.n /\ w \in Nat /\ w # NoRow
      <4>1. w = h.n
        BY <2>2, <3>1, <3>2 DEF w, RowAfter
      <4>2. h.n \in Nat
        BY <1>1 DEF Statement
      <4> QED BY <4>1, <4>2 DEF NoRow
    <3>4. Unqueued(m, t) => w = c
      <4> SUFFICES ASSUME Unqueued(m, t)
                   PROVE  h.n = c
        BY <3>3
      <4>1. \A j \in DOMAIN q : j > 1 => q[j].mission # m
        BY <1>1, <1>2 DEF Unqueued
      <4> QED BY <1>1, <1>2, <1>5, <2>2, <4>1 DEF RowOK
    <3>5. ASSUME NEW i \in DOMAIN t, t[i].mission = m, \A j \in DOMAIN t : j > i => t[j].mission # m
          PROVE  t[i].n = c
      <4>1. i + 1 \in DOMAIN q /\ q[i + 1].mission = m /\ q[i + 1].n = t[i].n
        BY <1>1, <1>2, <3>5
      <4>2. \A j \in DOMAIN q : j > i + 1 => q[j].mission # m
        BY <1>1, <1>2, <3>5
      <4> QED BY <1>5, <4>1, <4>2 DEF RowOK
    <3>6. ASSUME NEW i \in DOMAIN t, t[i].mission = m
          PROVE  t[i].op # "insert"
      <4>1. i + 1 \in DOMAIN q /\ q[i + 1].mission = m /\ q[i + 1].op = t[i].op /\ 1 < i + 1
        BY <1>1, <1>2, <3>6
      <4> QED BY <1>1, <1>2, <1>5, <2>2, <4>1 DEF RowOK
    <3> QED BY <3>3, <3>4, <3>5, <3>6 DEF RowOK
  <2> QED BY <2>1, <2>2
<1> QED BY <1>3, <1>4, <1>5 DEF t, h, w

\* Nothing that the rows depend on changes but what is new of the family.
LEMMA RowsStay ==
  ASSUME RowInv, UNCHANGED <<rows, pending>>, has' \subseteq Missions,
         \A m \in Missions : count'[m] = count[m],
         \A m \in Missions : m \notin has' \/ m \in New' <=> m \notin has \/ m \in New
  PROVE  RowInv'
<1>1. InsertsZero(pending)'
  BY DEF RowInv, InsertsZero
<1>2. \A m : Unqueued(m, pending)' <=> Unqueued(m, pending)
  BY DEF Unqueued
<1>3. ASSUME NEW m \in Missions, m \notin has' \/ m \in New'
      PROVE  rows'[m] = NoRow /\ Unqueued(m, pending)' /\ count'[m] = 0
  BY <1>2, <1>3 DEF RowInv
<1>4. ASSUME NEW m \in Missions, m \in has' \ New'
      PROVE  RowOK(m, pending, rows[m], count[m])'
  <2>1. RowOK(m, pending, rows[m], count[m])
    BY <1>4 DEF RowInv
  <2> QED BY <2>1 DEF RowOK, Unqueued
<1> QED BY <1>1, <1>3, <1>4 DEF RowInv

\* The event thread counts a mission.
LEMMA RowCounted ==
  ASSUME Tables, TypeOK, RowInv, NEW m \in has, New = {}, New' = {}, Increment(m),
         UNCHANGED <<rows, has>>
  PROVE  RowInv'
<1>0. m \in Missions /\ has \subseteq Missions /\ count[m] \in Nat
  BY DEF TypeOK
<1>1. PICK e : e = [op |-> "count", mission |-> m, n |-> count[m] + 1]
  OBVIOUS
<1>2. e \in Statement /\ e.op = "count" /\ e.mission = m /\ e.n = count[m] + 1
  BY <1>0, <1>1 DEF Statement
<1>3. PICK q \in Seq(Statement) : q = pending
  BY DEF TypeOK
<1>4. pending' = Append(q, e)
  BY <1>1, <1>3 DEF Increment
<1>5. \A x \in Missions : count'[x] = IF x = m THEN count[m] + 1 ELSE count[x]
  BY <1>0, IncrementType
<1>6. InsertsZero(Append(q, e))
  <2>1. /\ DOMAIN Append(q, e) = DOMAIN q \cup {Len(q) + 1}
        /\ \A i \in DOMAIN q : Append(q, e)[i] = q[i]
        /\ Append(q, e)[Len(q) + 1] = e
    BY <1>2, Pushed
  <2> QED BY <1>2, <1>3, <2>1 DEF InsertsZero, RowInv
<1>7. ASSUME NEW x \in Missions
      PROVE  rows[x] \in Nat \cup {NoRow} /\ count[x] \in Nat
  BY DEF TypeOK
<1>8. ASSUME NEW x \in Missions \ has
      PROVE  rows'[x] = NoRow /\ Unqueued(x, pending)' /\ count'[x] = 0
  <2>1. rows[x] = NoRow /\ Unqueued(x, q) /\ count[x] = 0 /\ x # m
    BY <1>3, <1>8 DEF RowInv
  <2>2. Unqueued(x, Append(q, e))
    BY <1>2, <1>7, <2>1, RowPushed
  <2> QED BY <1>4, <1>5, <2>1, <2>2 DEF Unqueued
<1>9. ASSUME NEW x \in has
      PROVE  RowOK(x, pending, rows[x], count[x])'
  <2>1. PICK r, c, d : r = rows[x] /\ c = count[x] /\ d = count'[x]
    OBVIOUS
  <2>2. RowOK(x, q, r, c) /\ r \in Nat \cup {NoRow} /\ c \in Nat
    BY <1>0, <1>3, <1>7, <2>1 DEF RowInv
  <2>3. RowOK(x, Append(q, e), r, d)
    <3>1. CASE x = m
      <4>1. e.n = d
        BY <1>0, <1>2, <1>5, <2>1, <3>1
      <4> QED BY <1>2, <2>2, <3>1, <4>1, RowPushed
    <3>2. CASE x # m
      <4>1. c = d
        BY <1>0, <1>5, <2>1, <3>2
      <4> QED BY <1>2, <2>2, <3>2, <4>1, RowPushed
    <3> QED BY <3>1, <3>2
  <2> QED BY <1>4, <2>1, <2>3 DEF RowOK, Unqueued
<1> QED BY <1>4, <1>6, <1>8, <1>9 DEF RowInv, InsertsZero

\* A new mission gets its row.
LEMMA RowPersisted ==
  ASSUME Tables, TypeOK, LinkInv, FamilyInv, RowInv, Persist
  PROVE  RowInv'
<1>0. PICK m : m = Lowest(unsaved)
  OBVIOUS
<1>1. m \in New \cap has \cap Missions /\ New' = New \ {m}
  BY <1>0, PersistFamily
<1>2. PICK e : e = [op |-> "insert", mission |-> m, n |-> 0]
  OBVIOUS
<1>3. e \in Statement /\ e.op = "insert" /\ e.mission = m /\ e.n = 0
  BY <1>1, <1>2 DEF Statement
<1>4. PICK q \in Seq(Statement) : q = pending
  BY DEF TypeOK
<1>5. pending' = Append(q, e) /\ UNCHANGED <<has, count, rows>>
  BY <1>0, <1>2, <1>4 DEF Persist, player
<1>6. InsertsZero(Append(q, e))
  <2>1. /\ DOMAIN Append(q, e) = DOMAIN q \cup {Len(q) + 1}
        /\ \A i \in DOMAIN q : Append(q, e)[i] = q[i]
        /\ Append(q, e)[Len(q) + 1] = e
    BY <1>3, Pushed
  <2> QED BY <1>3, <1>4, <2>1 DEF InsertsZero, RowInv
<1>7. ASSUME NEW x \in Missions
      PROVE  rows[x] \in Nat \cup {NoRow} /\ count[x] \in Nat
  BY DEF TypeOK
<1>8. ASSUME NEW x \in Missions, x \notin has' \/ x \in New'
      PROVE  rows'[x] = NoRow /\ Unqueued(x, pending)' /\ count'[x] = 0
  <2>1. x # m /\ (x \notin has \/ x \in New)
    BY <1>1, <1>5, <1>8
  <2>2. rows[x] = NoRow /\ Unqueued(x, q) /\ count[x] = 0
    BY <1>4, <2>1 DEF RowInv
  <2>3. Unqueued(x, Append(q, e))
    BY <1>3, <1>7, <2>1, <2>2, RowPushed
  <2> QED BY <1>5, <2>2, <2>3 DEF Unqueued
<1>9. ASSUME NEW x \in Missions, x \in has' \ New'
      PROVE  RowOK(x, pending, rows[x], count[x])'
  <2>1. PICK r, c : r = rows[x] /\ c = count[x]
    OBVIOUS
  <2>2. r \in Nat \cup {NoRow} /\ c \in Nat
    BY <1>7, <2>1
  <2>3. RowOK(x, Append(q, e), r, c)
    <3>1. CASE x = m
      <4>1. r = NoRow /\ Unqueued(x, q) /\ c = 0
        BY <1>1, <1>4, <2>1, <3>1 DEF RowInv
      <4> QED BY <1>3, <2>2, <3>1, <4>1, RowPushed
    <3>2. CASE x # m
      <4>1. RowOK(x, q, r, c)
        BY <1>1, <1>4, <1>5, <1>9, <2>1, <3>2 DEF RowInv
      <4> QED BY <1>3, <2>2, <3>2, <4>1, RowPushed
    <3> QED BY <3>1, <3>2
  <2> QED BY <1>5, <2>1, <2>3 DEF RowOK, Unqueued
<1>10. has' \subseteq Missions
  BY <1>5 DEF TypeOK
<1> QED BY <1>5, <1>6, <1>8, <1>9, <1>10 DEF RowInv, InsertsZero

\* The oldest statement is executed.
LEMMA RowExecuted ==
  ASSUME Tables, TypeOK, RowInv, Execute(1)
  PROVE  RowInv'
<1>1. PICK q \in Seq(Statement) : q = pending
  BY DEF TypeOK
<1>2. q # <<>> /\ pending' = Tail(q) /\ 1 \in 1..Len(q) /\ q[1] = Head(q)
  <2>1. 1 \in 1..Len(q)
    BY <1>1 DEF Execute
  <2>2. RemoveAt(q, 1) = Tail(q)
    BY <2>1, Overtaken
  <2> QED BY <1>1, <2>1, <2>2 DEF Execute
<1>3. UNCHANGED <<has, count, accepting, unsaved>> /\ rows' = Written(Head(q))
  BY <1>1, <1>2 DEF Execute, player, socket
<1>4. New' = New
  BY <1>3 DEF New
<1>5. PICK h \in Statement : h = Head(q)
  BY <1>2, Popped
<1>6. ASSUME NEW x \in Missions
      PROVE  rows'[x] = RowAfter(x, h, rows[x])
  <2>1. h.mission \in Missions /\ h.op \in {"insert", "count"}
    BY <1>5 DEF Statement
  <2>2. rows \in [Missions -> Nat \cup {NoRow}]
    BY DEF TypeOK
  <2> QED BY <1>3, <1>5, <2>1, <2>2 DEF Written, RowAfter
<1>7. InsertsZero(q)
  BY <1>1 DEF RowInv
<1>8. ASSUME NEW x \in Missions
      PROVE  rows[x] \in Nat \cup {NoRow}
  BY DEF TypeOK
<1>9. InsertsZero(Tail(q))
  BY <1>2, <1>7, <1>8, RowPopped DEF NoRow
<1>10. ASSUME NEW x \in Missions, x \notin has \/ x \in New
       PROVE  rows'[x] = NoRow /\ Unqueued(x, pending)' /\ count'[x] = 0
  <2>1. rows[x] = NoRow /\ Unqueued(x, q) /\ count[x] = 0
    BY <1>1, <1>10 DEF RowInv
  <2>2. Unqueued(x, Tail(q)) /\ h.mission # x
    BY <1>2, <1>5, <1>7, <1>8, <2>1, RowPopped
  <2> QED BY <1>2, <1>3, <1>6, <2>1, <2>2 DEF Unqueued, RowAfter
<1>11. ASSUME NEW x \in has \ New
       PROVE  RowOK(x, pending, rows[x], count[x])'
  <2>1. PICK r, c, s : r = rows[x] /\ c = count[x] /\ s = rows'[x]
    OBVIOUS
  <2>2. x \in Missions
    BY <1>11 DEF TypeOK
  <2>3. RowOK(x, q, r, c) /\ r \in Nat \cup {NoRow}
    BY <1>1, <1>8, <1>11, <2>1, <2>2 DEF RowInv
  <2>4. q # <<>> /\ h = Head(q) /\ s = RowAfter(x, h, r)
    BY <1>2, <1>5, <1>6, <2>1, <2>2
  <2>5. RowOK(x, Tail(q), RowAfter(x, Head(q), r), c)
    BY <1>7, <2>3, <2>4, RowPopped
  <2> QED BY <1>2, <1>3, <2>1, <2>4, <2>5 DEF RowOK, Unqueued
<1> QED BY <1>2, <1>3, <1>4, <1>9, <1>10, <1>11 DEF RowInv, InsertsZero

\* An event that is handled in the middle of an accept is excepted, and one of
\* an earlier login.
LEMMA QuietThread ==
  ASSUME Tables, LoginInv, FamilyInv, EventThread, ~disturbed'
  PROVE  /\ Still /\ accepting = None /\ New = {} /\ New' = {}
         /\ \A p \in has \cap Roots : Kids(p) \cap linked = Kids(p)
         /\ Visit \/ ToParent \/ ToPlayer
<1>0. ~Leftover
  <2> SUFFICES ASSUME Leftover PROVE FALSE
    OBVIOUS
  <2>1. events # <<>> /\ Head(events).old /\ disturbed' = disturbed
    BY LeftoverCases DEF LoginInv
  <2>2. \E j \in DOMAIN events : Head(events) = events[j]
    BY <2>1, FromQueue DEF LoginInv, TypeOK
  <2>3. EventOK(Head(events))
    BY <2>2 DEF LoginInv, EventInv
  <2> QED BY <2>1, <2>3 DEF EventOK
<1>1. accepting = None
  BY <1>0 DEF EventThread, Visit, ToParent, ToPlayer, Overlap
<1>2. Still
  BY <1>0, VisitCases, CompletionCases DEF EventThread, LoginInv
<1>3. accepting' = None
  BY <1>1, <1>2 DEF Still, socket
<1> QED BY <1>0, <1>1, <1>2, <1>3, NothingNew DEF LoginInv, New, EventThread

\* What the event thread does to counts and statements.
LEMMA ThreadCounts ==
  ASSUME Tables, LoginInv, FamilyInv, EventThread, ~disturbed'
  PROVE  UNCHANGED <<count, pending>> \/ \E m \in has : Increment(m)
<1>1. CASE Visit
  <2>1. Skipped \/ Dropped \/ \E m \in Missions : Counted(m) \/ Finished(m)
    BY <1>1, VisitCases DEF LoginInv
  <2> QED BY <2>1 DEF Skipped, Dropped, Counted, Finished
<1>2. CASE ToParent \/ ToPlayer
  <2>1. \/ \E k, p \in Missions : Ignored(k, p) \/ ParentCounted(k, p) \/ ParentFinished(k, p)
        \/ \E m \in Missions : ToldPlayer(m)
    BY <1>2, CompletionCases DEF LoginInv
  <2> QED BY <2>1 DEF Ignored, ParentCounted, ParentFinished, ToldPlayer, OfChild
<1> QED BY <1>1, <1>2, QuietThread

LEMMA RowStep ==
  ASSUME Tables, LoginInv, FamilyInv, RowInv, [Next]_vars, ~disturbed'
  PROVE  RowInv'
<1> USE DEF vars, player, socket, db
<1>0. TypeOK /\ LinkInv /\ has \subseteq Missions
  BY DEF LoginInv, TypeOK
<1>1. ASSUME NEW m \in Roots, Accept(m)
      PROVE  RowInv'
  <2>1. New = {} /\ New' = Family(m) /\ Family(m) \cap has = {}
    BY <1>0, <1>1, AcceptFamily
  <2>2. UNCHANGED <<has, count, rows, pending>>
    BY <1>1 DEF Accept
  <2> QED BY <1>0, <2>1, <2>2, RowsStay
<1>2. CASE Insert
  <2>1. New' = New /\ Assigned \in New /\ Assigned \in Missions
    BY <1>0, <1>2, InsertFamily
  <2>2. has' = has \cup {Assigned} /\ Assigned \notin has /\ UNCHANGED <<rows, pending>>
    BY <1>2 DEF Insert
  <2>3. \A m \in Missions : count'[m] = count[m]
    BY <1>0, <1>2, <2>1, <2>2 DEF Insert, TypeOK, LinkInv
  <2> QED BY <1>0, <2>1, <2>2, <2>3, RowsStay
<1>3. CASE Link
  <2>1. New' = New
    BY <1>0, <1>3, LinkFamily
  <2>2. UNCHANGED <<has, count, rows, pending>>
    BY <1>3 DEF Link
  <2> QED BY <1>0, <2>1, <2>2, RowsStay
<1>4. CASE Persist
  BY <1>0, <1>4, RowPersisted
<1>5. CASE (\E c \in Codes : Command(c)) \/ Crash \/ UNCHANGED vars
  <2>1. UNCHANGED <<has, count, rows, pending, accepting, unsaved>>
    BY <1>5 DEF Command, Crash
  <2>2. New' = New
    BY <2>1 DEF New
  <2> QED BY <1>0, <2>1, <2>2, RowsStay
<1>6. CASE EventThread
  <2>1. Still /\ New = {} /\ New' = {}
    BY <1>6, QuietThread
  <2>2. UNCHANGED <<has, rows>>
    BY <2>1 DEF Still
  <2>3. CASE UNCHANGED <<count, pending>>
    BY <1>0, <2>1, <2>2, <2>3, RowsStay
  <2>4. ASSUME NEW m \in has, Increment(m)
        PROVE  RowInv'
    BY <1>0, <2>1, <2>2, <2>4, RowCounted
  <2> QED BY <1>6, <2>3, <2>4, ThreadCounts
<1>7. ASSUME NEW i \in 1..Workers, Execute(i)
      PROVE  RowInv'
  <2>1. ~(i > 1)
    BY <1>7, Zenon DEF Execute
  <2>2. i = 1
    BY <2>1
  <2> QED BY <1>0, <1>7, <2>2, RowExecuted
<1>8. CASE Relogin
  <2>1. UNCHANGED <<has, count>>
    BY <1>0, <1>8, SameAfterLogin
  <2>2. UNCHANGED <<rows, pending, accepting, unsaved>>
    BY <1>8 DEF Relogin
  <2>3. New' = New
    BY <2>2 DEF New
  <2> QED BY <1>0, <2>1, <2>2, <2>3, RowsStay
<1> QED
  BY <1>1, <1>2, <1>3, <1>4, <1>5, <1>6, <1>7, <1>8 DEF Next, SocketThread, User

-----------------------------------------------------------------------------
(* Rewards and parents                                                      *)

\* Counts do not fall; a mission is announced when it is done, and rewarded
\* when its completion is taken; a parent counts with a completion.
Progress ==
  /\ \A m \in Missions :
       /\ count'[m] \in Nat /\ count'[m] >= count[m]
       /\ Announced(m, events)' => Announced(m, events) \/ (~Done(m) /\ Done(m)')
       /\ \/ rewards'[m] = rewards[m]
          \/ rewards'[m] = rewards[m] + 1 /\ Announced(m, events) /\ ~Announced(m, events)'
  /\ \A p \in Missions : Kids(p) # {} /\ count'[p] # count[p] =>
       /\ count'[p] = count[p] + 1
       /\ \E k \in Kids(p) : Announced(k, events) /\ ~Announced(k, events)'
  /\ \A m \in complete' \ complete :
       m \in Missions /\ (Required[m] = 0 /\ Kids(m) # {} => count'[m] = Cardinality(Kids(m)))

\* What is needed is a number.
LEMMA NeededType ==
  ASSUME Tables, NEW m \in Missions
  PROVE  /\ Needed(m) \in Nat /\ Needed(m)' = Needed(m)
         /\ IsFiniteSet(Kids(m)) /\ Cardinality(Kids(m)) \in Nat
<1>1. IsFiniteSet(Kids(m))
  BY Families, FS_Subset
<1>2. Cardinality(Kids(m)) \in Nat
  BY <1>1, FS_CardinalityType
<1> QED BY <1>1, <1>2 DEF Needed, Tables

LEMMA Progressed ==
  ASSUME Tables, TypeOK, RewardInv, ChildInv, Progress
  PROVE  RewardInv' /\ ChildInv'
<1>1. \A m \in Missions : Done(m) => Done(m)'
  <2>1. ASSUME NEW m \in Missions, Done(m)
        PROVE  Done(m)'
    <3>1. count'[m] \in Nat /\ count'[m] >= count[m] /\ count[m] \in Nat
      BY DEF Progress, TypeOK
    <3>2. Needed(m) \in Nat /\ Needed(m)' = Needed(m) /\ count[m] >= Needed(m)
      BY <2>1, NeededType DEF Done
    <3>3. count'[m] >= Needed(m)'
      BY <3>1, <3>2
    <3> QED BY <3>3 DEF Done
  <2> QED BY <2>1
<1>2. ASSUME NEW m \in Missions
      PROVE  /\ rewards'[m] <= 1
             /\ rewards'[m] = 1 => Done(m)' /\ ~Announced(m, events)'
             /\ Announced(m, events)' => Done(m)'
  <2>1. /\ rewards[m] \in Nat /\ rewards[m] <= 1
        /\ rewards[m] = 1 => Done(m) /\ ~Announced(m, events)
        /\ Announced(m, events) => Done(m)
    BY DEF RewardInv, TypeOK
  <2>2. /\ Announced(m, events)' => Announced(m, events) \/ (~Done(m) /\ Done(m)')
        /\ \/ rewards'[m] = rewards[m]
           \/ rewards'[m] = rewards[m] + 1 /\ Announced(m, events) /\ ~Announced(m, events)'
    BY DEF Progress
  <2>3. Done(m) => Done(m)'
    BY <1>1
  <2>4. rewards[m] = 0 \/ rewards[m] = 1
    BY <2>1
  <2> QED BY <2>1, <2>2, <2>3, <2>4
<1>3. RewardInv'
  BY <1>2 DEF RewardInv
<1>4. ASSUME NEW p \in Missions
      PROVE  /\ Told(p) \subseteq Told(p)' /\ Told(p)' \subseteq Kids(p)
             /\ IsFiniteSet(Told(p)) /\ IsFiniteSet(Told(p)')
  <2>1. Told(p) \subseteq Kids(p) /\ Told(p)' \subseteq Kids(p) /\ IsFiniteSet(Kids(p))
    BY NeededType DEF Told
  <2>2. Kids(p) \subseteq Missions
    BY Families
  <2>3. ASSUME NEW k \in Told(p)
        PROVE  k \in Told(p)'
    <3>1. k \in Kids(p) /\ k \in Missions /\ Done(k) /\ ~Announced(k, events)
      BY <2>2 DEF Told
    <3>2. Done(k)' /\ ~Announced(k, events)'
      BY <1>1, <3>1 DEF Progress
    <3> QED BY <3>1, <3>2 DEF Told
  <2> QED BY <2>1, <2>3, FS_Subset
<1>5. ASSUME NEW p \in Missions, Kids(p) # {}
      PROVE  count'[p] <= Cardinality(Told(p)')
  <2> DEFINE s == Told(p)
             t == Told(p)'
  <2>0. s \subseteq t /\ IsFiniteSet(s) /\ IsFiniteSet(t)
    BY <1>4
  <2>1. /\ Cardinality(s) \in Nat /\ Cardinality(t) \in Nat /\ Cardinality(s) <= Cardinality(t)
    BY <2>0, FS_Subset, FS_CardinalityType
  <2>2. count[p] <= Cardinality(s) /\ count[p] \in Nat
    BY <1>5 DEF ChildInv, TypeOK
  <2>3. CASE count'[p] = count[p]
    <3> HIDE DEF s, t
    <3> QED BY <2>1, <2>2, <2>3 DEF t
  <2>4. CASE count'[p] # count[p]
    <3>1. PICK k \in Kids(p) : Announced(k, events) /\ ~Announced(k, events)'
      BY <1>5, <2>4 DEF Progress
    <3>2. k \in Missions /\ Done(k)
      BY <3>1, Families DEF RewardInv
    <3>3. k \in t /\ k \notin s
      BY <1>1, <3>1, <3>2 DEF Told
    <3>4. count'[p] = count[p] + 1
      BY <1>5, <2>4 DEF Progress
    <3> HIDE DEF s, t
    <3>5. Cardinality(s \cup {k}) = Cardinality(s) + 1
      BY <2>0, <3>3, FS_AddElement
    <3>6. s \cup {k} \subseteq t
      BY <2>0, <3>3
    <3>7. Cardinality(s \cup {k}) <= Cardinality(t)
      BY <2>0, <3>6, FS_Subset
    <3>8. count'[p] <= Cardinality(t)
      BY <2>1, <2>2, <3>4, <3>5, <3>7
    <3> QED BY <3>8 DEF t
  <2> QED BY <2>3, <2>4
<1>6. ASSUME NEW m \in complete', Required[m] = 0, NEW k \in Kids(m)
      PROVE  Done(k)'
  <2>1. CASE m \in complete
    <3>1. k \in Missions
      BY Families
    <3>2. Done(k)
      BY <1>6, <2>1 DEF ChildInv
    <3> QED BY <1>1, <3>1, <3>2
  <2>2. CASE m \notin complete
    <3>1. m \in Missions /\ count'[m] = Cardinality(Kids(m))
      BY <1>6, <2>2 DEF Progress
    <3>2. count'[m] <= Cardinality(Told(m)')
      BY <1>5, <1>6, <3>1
    <3>3. PICK t : t = Told(m)'
      OBVIOUS
    <3>4. t \subseteq Kids(m) /\ IsFiniteSet(Kids(m)) /\ IsFiniteSet(t)
      BY <1>4, <3>1, <3>3, NeededType
    <3>5. Cardinality(t) <= Cardinality(Kids(m)) /\ Cardinality(t) \in Nat /\ Cardinality(Kids(m)) \in Nat
      BY <3>4, FS_Subset, FS_CardinalityType
    <3>6. Cardinality(Kids(m)) = Cardinality(t)
      BY <3>1, <3>2, <3>3, <3>5
    <3>7. Kids(m) = t
      BY <3>4, <3>6, FS_Subset
    <3> QED BY <3>3, <3>7 DEF Told
  <2> QED BY <2>1, <2>2
<1>7. ChildInv'
  BY <1>5, <1>6 DEF ChildInv
<1> QED BY <1>3, <1>7

\* Nothing is counted, announced, completed or rewarded.
LEMMA NoProgress ==
  ASSUME TypeOK, \A m \in Missions : count'[m] = count[m], rewards' = rewards,
         complete' \subseteq complete,
         \A m \in Missions : Announced(m, events)' => Announced(m, events)
  PROVE  Progress
<1>1. \A m \in Missions : count'[m] \in Nat /\ count'[m] >= count[m]
  BY DEF TypeOK
<1> QED BY <1>1 DEF Progress

LEMMA ThreadProgress ==
  ASSUME Tables, LoginInv, FamilyInv, EventThread, ~disturbed'
  PROVE  Progress
<1> USE DEF given
<1>0. /\ TypeOK /\ LinkInv /\ EventInv /\ AnnouncedOnce(events) /\ events \in Seq(Event)
      /\ \A p \in has \cap Roots : Kids(p) \cap linked = Kids(p)
  BY QuietThread DEF LoginInv, EventInv, TypeOK
<1>1. \A m : Announced(m, events)' <=> Announced(m, events')
  BY DEF Announced
<1>2. ASSUME events # <<>>
      PROVE  \A m : Announced(m, Tail(events)) => Announced(m, events)
  BY <1>0, <1>2, PoppedAnnounced
<1>3. \A m \in Missions : count[m] \in Nat /\ rewards[m] \in Nat
  BY <1>0 DEF TypeOK
<1>4. CASE Visit
  <2>0. events # <<>> /\ (Skipped \/ Dropped \/ \E m \in Missions : Counted(m) \/ Finished(m))
    BY <1>0, <1>4, VisitCases
  <2>1. CASE Skipped
    BY <1>0, <2>1, NoProgress DEF Skipped, Announced
  <2>2. CASE Dropped
    <3>1. UNCHANGED <<count, complete, rewards>> /\ events' = Tail(events)
      BY <2>2 DEF Dropped
    <3> QED BY <1>0, <1>1, <1>2, <2>0, <3>1, NoProgress
  <2>3. ASSUME NEW m \in Missions, Counted(m)
        PROVE  Progress
    <3>1. /\ Increment(m) /\ Kids(m) = {} /\ UNCHANGED <<complete, events, rewards>>
      BY <2>3 DEF Counted
    <3>2. \A x \in Missions : count'[x] = IF x = m THEN count[m] + 1 ELSE count[x]
      BY <1>0, <3>1, IncrementType
    <3>3. \A x \in Missions : count'[x] \in Nat /\ count'[x] >= count[x]
      BY <1>3, <3>2
    <3>4. \A p \in Missions : Kids(p) # {} => count'[p] = count[p]
      BY <3>1, <3>2
    <3>5. \A x : Announced(x, events)' => Announced(x, events)
      BY <3>1 DEF Announced
    <3> QED BY <3>1, <3>3, <3>4, <3>5 DEF Progress
  <2>4. ASSUME NEW m \in Missions, Finished(m)
        PROVE  Progress
    <3>1. /\ Increment(m) /\ Kids(m) = {} /\ count[m] + 1 = Required[m]
          /\ complete' = complete \cup {m} /\ rewards' = rewards
          /\ events' = Append(events, Completed(m, IF m \in linked THEN Parent[m] ELSE None))
      BY <2>4 DEF Finished
    <3>2. \A x \in Missions : count'[x] = IF x = m THEN count[m] + 1 ELSE count[x]
      BY <1>0, <3>1, IncrementType
    <3>3. \A x \in Missions : count'[x] \in Nat /\ count'[x] >= count[x]
      BY <1>3, <3>2
    <3>4. \A p \in Missions : Kids(p) # {} => count'[p] = count[p]
      BY <3>1, <3>2
    <3>5. ~Done(m) /\ Done(m)'
      <4>1. Needed(m) = Required[m] /\ Needed(m)' = Required[m]
        BY <3>1 DEF Needed
      <4>2. ~(count[m] >= Required[m]) /\ count'[m] >= Required[m]
        BY <1>3, <3>1, <3>2
      <4> QED BY <4>1, <4>2 DEF Done
    <3>6. PICK t : t = IF m \in linked THEN Parent[m] ELSE None
      OBVIOUS
    <3>7. t \in Roots \cup {None}
      <4>1. m \in linked => Parent[m] \in Missions
        BY <1>0 DEF LinkInv, TypeOK
      <4> QED BY <3>6, <4>1, Families DEF Tables, Roots
    <3>8. Completed(m, t) \in Event /\ Completed(m, t).source = m /\ events' = Append(events, Completed(m, t))
      BY <3>1, <3>6, <3>7, CompletedType
    <3>9. \A x : Announced(x, events)' => Announced(x, events) \/ x = m
      BY <1>0, <1>1, <3>8, PushedAnnounced
    <3> QED BY <3>1, <3>3, <3>4, <3>5, <3>9 DEF Progress
  <2> QED BY <2>0, <2>1, <2>2, <2>3, <2>4
<1>5. CASE ToParent \/ ToPlayer
  <2>0. /\ events # <<>> /\ Head(events).source # None
        /\ \/ \E k, p \in Missions : Ignored(k, p) \/ ParentCounted(k, p) \/ ParentFinished(k, p)
           \/ \E m \in Missions : ToldPlayer(m)
        /\ ~Head(events).old
    BY <1>0, <1>5, CompletionCases
  <2>1. /\ Announced(Head(events).source, events) /\ ~Announced(Head(events).source, Tail(events))
        /\ Tail(events) \in Seq(Event)
    BY <1>0, <2>0, PoppedAnnounced, Popped
  <2>2. ASSUME NEW k \in Missions, NEW p \in Missions, Ignored(k, p)
        PROVE  Progress
    <3>1. UNCHANGED <<count, complete, rewards>> /\ events' = Tail(events)
      BY <2>2 DEF Ignored
    <3> QED BY <1>0, <1>1, <1>2, <2>0, <3>1, NoProgress
  <2>3. ASSUME NEW m \in Missions, ToldPlayer(m)
        PROVE  Progress
    <3>1. /\ m = Head(events).source /\ Reward(m)
          /\ events' = Tail(events) /\ UNCHANGED <<count, complete>>
      BY <2>3 DEF ToldPlayer
    <3>2. \A x \in Missions : rewards'[x] = IF x = m THEN rewards[m] + 1 ELSE rewards[x]
      BY <1>0, <3>1, RewardType
    <3>3. \A x \in Missions : count'[x] \in Nat /\ count'[x] >= count[x]
      BY <1>3, <3>1
    <3>4. Announced(m, events) /\ ~Announced(m, events)'
      BY <1>1, <2>1, <3>1
    <3>5. \A x : Announced(x, events)' => Announced(x, events)
      BY <1>1, <1>2, <2>0, <3>1
    <3> QED BY <3>1, <3>2, <3>3, <3>4, <3>5 DEF Progress
  <2>4. ASSUME NEW k \in Missions, NEW p \in Missions, ParentCounted(k, p)
        PROVE  Progress
    <3>1. /\ k = Head(events).source /\ k \in Kids(p) /\ Increment(p) /\ Reward(k)
          /\ events' = Tail(events) /\ complete' = complete
      BY <2>4 DEF ParentCounted, OfChild
    <3>2. \A x \in Missions : rewards'[x] = IF x = k THEN rewards[k] + 1 ELSE rewards[x]
      BY <1>0, <3>1, RewardType
    <3>3. \A x \in Missions : count'[x] = IF x = p THEN count[p] + 1 ELSE count[x]
      BY <1>0, <3>1, IncrementType
    <3>4. \A x \in Missions : count'[x] \in Nat /\ count'[x] >= count[x]
      BY <1>3, <3>3
    <3>5. Announced(k, events) /\ ~Announced(k, events)'
      BY <1>1, <2>1, <3>1
    <3>6. \A x : Announced(x, events)' => Announced(x, events)
      BY <1>1, <1>2, <2>0, <3>1
    <3> QED BY <3>1, <3>2, <3>3, <3>4, <3>5, <3>6 DEF Progress
  <2>5. ASSUME NEW k \in Missions, NEW p \in Missions, ParentFinished(k, p)
        PROVE  Progress
    <3>1. /\ k = Head(events).source /\ k \in Kids(p) /\ p \in Roots \cap has
          /\ Increment(p) /\ Enough(p)
          /\ events' = Append(Tail(events), Completed(p, None))
          /\ complete' = complete \cup {p} /\ rewards' = rewards
      BY <2>5 DEF ParentFinished, OfChild
    <3>2. \A x \in Missions : count'[x] = IF x = p THEN count[p] + 1 ELSE count[x]
      BY <1>0, <3>1, IncrementType
    <3>3. \A x \in Missions : count'[x] \in Nat /\ count'[x] >= count[x]
      BY <1>3, <3>2
    <3>4. Completed(p, None) \in Event /\ Completed(p, None).source = p /\ ~Completed(p, None).old
      BY CompletedType
    <3>5. \A x : Announced(x, events') <=> Announced(x, Tail(events)) \/ x = p
      BY <2>1, <3>1, <3>4, PushedAnnounced
    <3>6. \A x : Announced(x, events)' => Announced(x, events) \/ x = p
      BY <1>1, <1>2, <2>0, <3>5
    <3>7. k # p
      BY <3>1, Families
    <3>8. Announced(k, events) /\ ~Announced(k, events)'
      BY <1>1, <2>1, <3>1, <3>5, <3>7
    <3>9. count'[p] = Needed(p)
      <4>1. Kids(p) \cap linked = Kids(p) /\ Kids(p) # {}
        BY <1>0, <3>1
      <4>2. Required[p] \in Nat /\ count'[p] = count[p] + 1 /\ count[p] \in Nat
        BY <1>3, <3>2 DEF Tables
      <4>3. count'[p] = Required[p] \/ (Required[p] = 0 /\ count'[p] = Cardinality(Kids(p)))
        BY <3>1, <4>1, <4>2 DEF Enough
      <4>4. count'[p] # 0
        BY <4>2
      <4> QED BY <4>1, <4>3, <4>4 DEF Needed
    <3>10. ~Done(p) /\ Done(p)'
      <4>1. Needed(p) \in Nat /\ Needed(p)' = Needed(p)
        BY NeededType
      <4>2. ~(count[p] >= Needed(p)) /\ count'[p] >= Needed(p)
        BY <1>3, <3>2, <3>9, <4>1
      <4> QED BY <4>1, <4>2 DEF Done
    <3>11. Required[p] = 0 /\ Kids(p) # {} => count'[p] = Cardinality(Kids(p))
      BY <3>9 DEF Needed
    <3>12. \A x \in Missions : Kids(x) # {} /\ count'[x] # count[x] => x = p /\ count'[x] = count[x] + 1
      BY <3>2
    <3> QED BY <3>1, <3>3, <3>6, <3>8, <3>10, <3>11, <3>12 DEF Progress
  <2> QED BY <2>0, <2>2, <2>3, <2>4, <2>5
<1> QED BY <1>4, <1>5, QuietThread

LEMMA ProgressStep ==
  ASSUME Tables, LoginInv, FamilyInv, RowInv, [Next]_vars, ~disturbed'
  PROVE  Progress
<1> USE DEF vars, player, given
<1>0. TypeOK /\ LinkInv
  BY DEF LoginInv
<1>1. CASE (\E m \in Roots : Accept(m)) \/ Link \/ Persist \/ (\E i \in 1..Workers : Execute(i))
           \/ Crash \/ UNCHANGED vars
  <2>1. UNCHANGED <<count, complete, events, rewards>>
    BY <1>1 DEF Accept, Link, Persist, Execute, Crash
  <2> QED BY <1>0, <2>1, NoProgress DEF Announced
<1>2. CASE Insert
  <2>1. Assigned \in Missions
    BY <1>0, <1>2, InsertFamily
  <2>2. \A m \in Missions : count'[m] = count[m]
    BY <1>0, <1>2, <2>1 DEF Insert, TypeOK, LinkInv
  <2>3. UNCHANGED <<complete, events, rewards>>
    BY <1>2 DEF Insert
  <2> QED BY <1>0, <2>2, <2>3, NoProgress DEF Announced
<1>3. ASSUME NEW c \in Codes, Command(c)
      PROVE  Progress
  <2>1. PICK e : e = [code |-> c, source |-> None, target |-> None, old |-> FALSE]
    OBVIOUS
  <2>2. e \in Event /\ e.source = None /\ ~e.old
    BY <2>1 DEF Event
  <2>3. events' = Append(events, e) /\ UNCHANGED <<count, complete, rewards>>
    BY <1>3, <2>1 DEF Command
  <2>4. \A m : Announced(m, events') <=> Announced(m, events) \/ m = None
    BY <1>0, <2>2, <2>3, PushedAnnounced DEF TypeOK
  <2>5. \A m \in Missions : Announced(m, events)' => Announced(m, events)
    BY <2>4, Families DEF Announced
  <2> QED BY <1>0, <2>3, <2>5, NoProgress
<1>4. CASE EventThread
  BY <1>4, ThreadProgress
<1>5. CASE Relogin
  <2>1. UNCHANGED count
    BY <1>0, <1>5, SameAfterLogin
  <2>2. complete' = {} /\ UNCHANGED <<events, rewards>>
    <3>1. events = <<>>
      BY <1>5 DEF Relogin
    <3>2. events' = <<>>
      BY <1>5, <3>1 DEF Relogin
    <3> QED BY <1>5, <3>1, <3>2 DEF Relogin
  <2> QED BY <1>0, <2>1, <2>2, NoProgress DEF Announced
<1> QED BY <1>1, <1>2, <1>3, <1>4, <1>5 DEF Next, SocketThread, User

-----------------------------------------------------------------------------
LEMMA MissionInit ==
  ASSUME Tables, Init
  PROVE  MissionInv
<1>1. TypeOK
  <2>1. /\ count \in [Missions -> Nat] /\ rows \in [Missions -> Nat \cup {NoRow}]
        /\ rewards \in [Missions -> Nat] /\ rewarded \in [Missions -> Nat]
    BY DEF Init
  <2>2. events \in Seq(Event) /\ pending \in Seq(Statement)
    BY DEF Init
  <2> QED BY <2>1, <2>2 DEF Init, TypeOK
<1>2. LinkInv /\ EventInv /\ GivenInv
  BY Families DEF Init, LinkInv, EventInv, AnnouncedOnce, GivenInv, Announced
<1>3. New = {} /\ FamilyInv
  BY Families DEF Init, New, FamilyInv
<1>4. RowInv
  BY <1>3 DEF Init, RowInv, InsertsZero, Unqueued
<1>5. RewardInv
  BY DEF Init, RewardInv, Announced
<1>6. ChildInv
  <2>1. ASSUME NEW p \in Missions
        PROVE  count[p] <= Cardinality(Told(p))
    <3>1. Told(p) \subseteq Kids(p) /\ IsFiniteSet(Kids(p))
      BY NeededType DEF Told
    <3>2. Cardinality(Told(p)) \in Nat
      BY <3>1, FS_Subset, FS_CardinalityType
    <3>3. count[p] = 0
      BY DEF Init
    <3> QED BY <3>2, <3>3
  <2> QED BY <2>1 DEF Init, ChildInv
<1> QED BY <1>1, <1>2, <1>3, <1>4, <1>5, <1>6 DEF MissionInv, LoginInv

LEMMA MissionStep ==
  ASSUME Tables, MissionInv, [Next]_vars
  PROVE  MissionInv'
<1>1. LoginInv /\ LoginInv'
  BY LoginStep DEF MissionInv
<1>2. ASSUME ~disturbed'
      PROVE  FamilyInv' /\ RowInv' /\ RewardInv' /\ ChildInv'
  <2>1. FamilyInv /\ RowInv /\ RewardInv /\ ChildInv
    BY <1>2, DisturbedStays DEF MissionInv
  <2>2. TypeOK /\ LinkInv
    BY <1>1 DEF LoginInv
  <2>3. FamilyInv'
    BY <1>2, <2>1, <2>2, FamilyStep
  <2>4. RowInv'
    BY <1>1, <1>2, <2>1, RowStep
  <2>5. Progress
    BY <1>1, <1>2, <2>1, ProgressStep
  <2> QED BY <2>1, <2>2, <2>3, <2>4, <2>5, Progressed
<1> QED BY <1>1, <1>2 DEF MissionInv

\* The inductive invariant of the missions.
THEOREM Invariance == Spec => []MissionInv
<1>1. Init => MissionInv
  BY MissionInit, MissionAssumption
<1>2. MissionInv /\ [Next]_vars => MissionInv'
  BY MissionStep, MissionAssumption
<1> QED BY <1>1, <1>2, PTL DEF Spec

\* Every variable of the missions keeps its type; in particular a completion
\* is only sent to a parent the player has.
THEOREM TypeCorrect == Spec => []TypeOK
<1>1. MissionInv => TypeOK
  BY DEF MissionInv, LoginInv
<1> QED BY <1>1, Invariance, PTL

\* Player::AddXP is called once per mission in a login, however events, the
\* assignment of missions and late statements interleave, and once for ever
\* unless one of the four races has happened.
THEOREM RewardOnce == Spec => []RewardedOnce
<1>1. MissionInv => RewardedOnce
  BY DEF MissionInv, LoginInv, GivenInv, RewardInv, RewardedOnce
<1> QED BY <1>1, Invariance, PTL

\* A mission with success_count 0 gets m_bComplete after all of its children,
\* those completed before the login included, unless one of the races happened.
THEOREM ParentLast == Spec => []ParentCompletesLast
<1>1. MissionInv => ParentCompletesLast
  BY DEF MissionInv, ChildInv, ParentCompletesLast
<1> QED BY <1>1, Invariance, PTL

\* After all statements the rows of fc_charactermissions hold the counts the
\* player's missions have in memory, unless one of the races happened.
THEOREM CountsSaved == Spec => []SavedWhenQuiet
<1>1. MissionInv => SavedWhenQuiet
  <2> SUFFICES ASSUME MissionInv, ~disturbed, pending = <<>>, accepting = None, NEW m \in has
               PROVE  rows[m] = count[m]
    BY DEF SavedWhenQuiet
  <2>1. New = {}
    BY DEF New
  <2>2. RowOK(m, pending, rows[m], count[m])
    BY <2>1 DEF MissionInv, RowInv
  <2> QED BY <2>2 DEF RowOK, Unqueued
<1> QED BY <1>1, Invariance, PTL
=============================================================================
