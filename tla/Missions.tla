------------------------------ MODULE Missions ------------------------------
(***************************************************************************)
(* The missions of one player.  The socket thread of the world service     *)
(* gives the player a mission with its child missions, one after the       *)
(* other; the event thread hands what the player does to each mission he   *)
(* has, and the completion of a child to its parent; the database workers  *)
(* write the success counts, from which the missions are made again at the *)
(* next login.  An event that is still queued then is for a deleted player *)
(* and for missions that are no longer his.                                *)
(***************************************************************************)
EXTENDS Integers, Sequences, SequencesExt, FiniteSets

CONSTANTS
  Missions,  \* the mission ids
  Parent,    \* parentmission_id of each mission, or None
  Trigger,   \* success_event_id of each mission
  OnChild,   \* the success event "(child).Mission.Complete"
  Required,  \* success_count of each mission; 0 asks for every child
  Workers,   \* how many threads write to the database
  MaxEvents, \* bound: commands of the player
  MaxLogins, \* bound: logins
  MaxLeft,   \* bound: events that are queued at a logout
  OldCounts  \* bound: what a mission of an earlier login may save as its count

None      == 0
Roots     == {m \in Missions : Parent[m] = None}
Kids(m)   == {k \in Missions : Parent[k] = m}
Family(m) == {m} \cup Kids(m)
Codes     == {Trigger[m] : m \in Missions} \ {OnChild}

\* As in fc_missions: two levels, and a parent has the lower id.
Tables ==
  /\ IsFiniteSet(Missions) /\ Missions \subseteq Nat \ {0}
  /\ Parent \in [Missions -> Missions \cup {None}]
  /\ \A m \in Missions \ Roots : Parent[m] \in Roots /\ Parent[m] < m
  /\ \A m \in Missions : Trigger[m] = OnChild <=> Kids(m) # {}
  /\ Required \in [Missions -> Nat]
  /\ Workers \in Nat \ {0} /\ OldCounts \subseteq Nat
  /\ MaxEvents \in Nat /\ MaxLogins \in Nat /\ MaxLeft \in Nat

ASSUME MissionAssumption == Tables

VARIABLES
  has,       \* m_mapMissions of the player
  linked,    \* the missions that are in m_childMissions of their parent
  count,     \* m_successCount of each mission
  complete,  \* the missions with m_bComplete
  accepting, \* the mission OnCommandMissionAccept is about, or None
  todo,      \* what is left to assign of it and its children
  unsaved,   \* what PersistNewCharacterMission is still to be called for
  events,    \* m_eventQueue
  cursor,    \* the mission that was handed the first event last
  pending,   \* statements that wait for the database, oldest first
  rows,      \* success_count in fc_charactermissions, or NoRow
  rewards,   \* how often AddXP was called for each mission
  rewarded,  \* the same since the login
  acted,     \* how many commands there were
  logins,    \* how many logins there were
  disturbed, \* history: one of four races has happened, see RewardedOnce
  crashed    \* the event thread read a container while it was changed

player == <<has, linked, count, complete>>
socket == <<accepting, todo, unsaved>>
db     == <<pending, rows>>
given  == <<rewards, rewarded>>
bounds == <<acted, logins>>
vars   == <<player, socket, events, cursor, db, given, bounds, disturbed, crashed>>

NoRow == -1

Init ==
  /\ has = {} /\ linked = {} /\ complete = {}
  /\ count = [m \in Missions |-> 0]
  /\ accepting = None /\ todo = {} /\ unsaved = {}
  /\ events = <<>> /\ cursor = 0
  /\ pending = <<>> /\ rows = [m \in Missions |-> NoRow]
  /\ rewards = [m \in Missions |-> 0] /\ rewarded = [m \in Missions |-> 0]
  /\ acted = 0 /\ logins = 1
  /\ disturbed = FALSE /\ crashed = FALSE

Lowest(S) == CHOOSE x \in S : \A y \in S : x <= y

-----------------------------------------------------------------------------
(* The socket thread                                                       *)

\* OnCommandMissionAccept with CanPlayerAccept; the posts of the forum offer
\* root missions.  A mission the player has is not accepted.
Accept(m) ==
  /\ accepting = None /\ m \in Roots \ has
  /\ accepting' = m
  /\ todo' = Family(m) /\ unsaved' = {m}
  /\ disturbed' = (disturbed \/ events # <<>>)
  /\ UNCHANGED <<player, events, cursor, db, given, bounds, crashed>>

\* Mutant of Assigned: the children come first.
AssignedLast == CHOOSE x \in todo : \A y \in todo : y <= x

\* AssignMissionToPlayer walks the manager's map in the order of the ids.
Assigned == Lowest(todo)

\* AcceptMission puts a copy into the map ...
Insert ==
  /\ todo # {} /\ Assigned \notin has
  /\ has' = has \cup {Assigned}
  /\ count' = [count EXCEPT ![Assigned] = 0]
  /\ todo' = IF Assigned \in Roots THEN todo \ {Assigned} ELSE todo
  /\ UNCHANGED <<linked, complete, accepting, unsaved, events, cursor, db, given, bounds,
                 disturbed, crashed>>

\* ... and then makes it a child of its parent.
Link ==
  /\ todo # {} /\ Assigned \in has
  /\ linked' = IF Parent[Assigned] \in has THEN linked \cup {Assigned} ELSE linked
  /\ todo' = todo \ {Assigned}
  /\ UNCHANGED <<has, count, complete, accepting, unsaved, events, cursor, db, given,
                 bounds, disturbed, crashed>>

\* Mutant of AlsoSaved: the children are not made persistent.
AlsoSavedNone(m) == {}

AlsoSaved(m) == Kids(m) \cap linked

\* PersistNewCharacterMission queues a row for the mission and calls itself
\* for its children.
Persist ==
  /\ accepting # None /\ todo = {}
  /\ LET m == Lowest(unsaved)
     IN /\ pending' = Append(pending, [op |-> "insert", mission |-> m, n |-> 0])
        /\ unsaved' = (unsaved \ {m}) \cup AlsoSaved(m)
  /\ accepting' = IF unsaved' = {} THEN None ELSE accepting
  /\ UNCHANGED <<player, todo, events, cursor, rows, given, bounds, disturbed, crashed>>

\* A console command whose FileSystem event a mission waits for.
Command(c) ==
  /\ acted < MaxEvents
  /\ acted' = acted + 1
  /\ events' = Append(events, [code |-> c, source |-> None, target |-> None, old |-> FALSE])
  /\ UNCHANGED <<player, socket, cursor, db, given, logins, disturbed, crashed>>

-----------------------------------------------------------------------------
(* The event thread: what happened in this login                           *)

Fresh == events # <<>> /\ ~Head(events).old

\* An event that is handled while a mission is being assigned.
Overlap == disturbed' = (disturbed \/ accepting # None)

\* Mutant of Increment: the count is not saved.
IncrementUnsaved(m) ==
  /\ count' = [count EXCEPT ![m] = @ + 1]
  /\ UNCHANGED pending

\* IncrementSuccessCount
Increment(m) ==
  /\ count' = [count EXCEPT ![m] = @ + 1]
  /\ pending' = Append(pending, [op |-> "count", mission |-> m, n |-> count[m] + 1])

\* Mutant of Completed: source and target are swapped.
CompletedSwapped(m, target) ==
  [code |-> OnChild, source |-> target, target |-> m, old |-> FALSE]

Completed(m, target) == [code |-> OnChild, source |-> m, target |-> target, old |-> FALSE]

\* Mission::OnEvent for the success event of the mission.  A child tells its
\* parent, any other mission the player.
Happened(m) ==
  /\ Increment(m)
  /\ IF count[m] + 1 = Required[m]
     THEN /\ complete' = complete \cup {m}
          /\ events' = Append(events, Completed(m, IF m \in linked THEN Parent[m] ELSE None))
     ELSE UNCHANGED <<complete, events>>

After(n) == {m \in has : m > n}

\* Player::OnEvent hands the event to the next mission in the map; after the
\* last one the event is popped.
Visit ==
  /\ Fresh /\ Head(events).source = None
  /\ IF After(cursor) = {}
     THEN /\ cursor' = 0 /\ events' = Tail(events)
          /\ UNCHANGED <<count, complete, pending>>
     ELSE LET m == Lowest(After(cursor))
          IN /\ cursor' = m
             /\ IF m \notin complete /\ Trigger[m] = Head(events).code
                THEN Happened(m)
                ELSE UNCHANGED <<count, complete, pending, events>>
  /\ Overlap
  /\ UNCHANGED <<has, linked, socket, rows, given, bounds, crashed>>

Reward(m) ==
  /\ rewards' = [rewards EXCEPT ![m] = @ + 1]
  /\ rewarded' = [rewarded EXCEPT ![m] = @ + 1]

\* Mutant of Enough: the first child is enough.
EnoughAny(p) == count[p] + 1 >= Required[p]

Enough(p) ==
  \/ count[p] + 1 = Required[p]
  \/ Required[p] = 0 /\ count[p] + 1 = Cardinality(Kids(p) \cap linked)

\* Mission::OnEvent of parent p for the completion of child k.
ChildCompleted(k, p) ==
  IF p \in complete
  THEN events' = Tail(events) /\ UNCHANGED <<count, complete, pending, given>>
  ELSE /\ Increment(p)
       /\ IF Enough(p)
          THEN /\ complete' = complete \cup {p}
               /\ events' = Append(Tail(events), Completed(p, None))
               /\ UNCHANGED given
          ELSE /\ Reward(k)
               /\ events' = Tail(events)
               /\ UNCHANGED complete

ToParent ==
  /\ Fresh /\ Head(events).source # None /\ Head(events).target # None
  /\ ChildCompleted(Head(events).source, Head(events).target)
  /\ Overlap
  /\ UNCHANGED <<has, linked, socket, cursor, rows, bounds, crashed>>

\* Player::OnEvent for the completion of a mission.
ToPlayer ==
  /\ Fresh /\ Head(events).source # None /\ Head(events).target = None
  /\ Reward(Head(events).source)
  /\ events' = Tail(events)
  /\ Overlap
  /\ UNCHANGED <<player, socket, cursor, db, bounds, crashed>>

-----------------------------------------------------------------------------
(* The event thread: what happened in an earlier login.  RemovePlayer has  *)
(* deleted the player and the map of his missions, not the missions.  What *)
(* is read of the player is what that memory holds: his id or another, the *)
(* old nodes of the map or nothing.  The counts of the old missions are    *)
(* not kept here: one that counts saves any of OldCounts.                  *)

Left == events # <<>> /\ Head(events).old

OldCompleted(m, target) == [Completed(m, target) EXCEPT !.old = TRUE]

\* IncrementSuccessCount of an old mission.
OldIncrement(m) ==
  \/ UNCHANGED pending
  \/ \E n \in OldCounts :
       pending' = Append(pending, [op |-> "count", mission |-> m, n |-> n])

OldReward(m) == rewards' = [rewards EXCEPT ![m] = @ + 1]

\* Player::OnEvent of the deleted player.
OldVisit ==
  /\ Head(events).source = None
  /\ \/ cursor' = 0 /\ events' = Tail(events) /\ UNCHANGED pending
     \/ \E m \in Missions :
          /\ m > cursor /\ Trigger[m] = Head(events).code
          /\ cursor' = m /\ OldIncrement(m)
          /\ events' \in {events, Append(events, OldCompleted(m, Parent[m]))}
  /\ UNCHANGED rewards

\* Mission::OnEvent of the old parent: complete already, counting, or complete
\* with this child.
OldToParent ==
  /\ Head(events).source # None /\ Head(events).target # None
  /\ LET k == Head(events).source
         p == Head(events).target
     IN \/ events' = Tail(events) /\ UNCHANGED <<pending, rewards>>
        \/ events' = Tail(events) /\ OldIncrement(p) /\ OldReward(k)
        \/ /\ events' = Append(Tail(events), OldCompleted(p, None))
           /\ OldIncrement(p) /\ UNCHANGED rewards
  /\ UNCHANGED cursor

OldToPlayer ==
  /\ Head(events).source # None /\ Head(events).target = None
  /\ events' = Tail(events) /\ OldReward(Head(events).source)
  /\ UNCHANGED <<pending, cursor>>

Leftover ==
  /\ Left
  /\ OldVisit \/ OldToParent \/ OldToPlayer
  /\ UNCHANGED <<player, socket, rows, rewarded, bounds, disturbed, crashed>>

\* Neither OnEvent takes m_missionLock: the map and the vector of children
\* may be read while AcceptMission changes them.  The deleted player may be
\* no object at all.
Crash ==
  /\ Left \/ (todo # {} /\ events # <<>>)
  /\ crashed' = TRUE
  /\ UNCHANGED <<player, socket, events, cursor, db, given, bounds, disturbed>>

-----------------------------------------------------------------------------
(* The database                                                            *)

\* An update changes nothing where there is no row.  The column complete is
\* left out: the login does not use what it reads from it.
Written(j) ==
  CASE j.op = "insert" /\ rows[j.mission] = NoRow -> [rows EXCEPT ![j.mission] = 0]
    [] j.op = "count" /\ rows[j.mission] # NoRow  -> [rows EXCEPT ![j.mission] = j.n]
    [] OTHER -> rows

\* Jobs are fetched in order; one is overtaken by jobs of the other workers.
Execute(i) ==
  /\ i \in 1..Len(pending) /\ i <= Workers
  /\ rows' = Written(pending[i])
  /\ pending' = RemoveAt(pending, i)
  /\ disturbed' = (disturbed \/ i > 1)
  /\ UNCHANGED <<player, socket, events, cursor, given, bounds, crashed>>

\* The player leaves and comes back: OnDBJob_LoadCharacterMissions assigns
\* each mission that has a row, and with it its children, and sets the count.
\* Nothing is complete again: HasCompletedMission only asks.  The disconnect
\* does not look at the event queue.  If the new player is where the old one
\* was, the events of the player that are queued are his.
Relogin ==
  /\ logins < MaxLogins /\ accepting = None /\ Len(events) <= MaxLeft
  /\ logins' = logins + 1
  /\ \E reused \in BOOLEAN :
       events' = [i \in DOMAIN events |->
                    [events[i] EXCEPT !.old = @ \/ ~reused \/ events[i].source # None]]
  /\ LET saved == {m \in Missions : rows[m] # NoRow}
     IN /\ has' = saved \cup UNION {Kids(m) : m \in saved}
        /\ linked' = {m \in has' : Parent[m] # None /\ Parent[m] \in has'}
        /\ count' = [m \in Missions |-> IF m \in saved THEN rows[m] ELSE 0]
  /\ complete' = {}
  /\ rewarded' = [m \in Missions |-> 0]
  /\ disturbed' = (disturbed \/ pending # <<>> \/ events # <<>>)
  /\ UNCHANGED <<socket, cursor, db, rewards, acted, crashed>>

-----------------------------------------------------------------------------
SocketThread == Insert \/ Link \/ Persist
EventThread  == Visit \/ ToParent \/ ToPlayer \/ Leftover
User         == Relogin \/ (\E m \in Roots : Accept(m)) \/ \E c \in Codes : Command(c)

Next ==
  /\ ~crashed
  /\ \/ SocketThread
     \/ EventThread
     \/ User
     \/ \E i \in 1..Workers : Execute(i)
     \/ Crash

Spec == Init /\ [][Next]_vars

-----------------------------------------------------------------------------
(* Properties *)

Event     == [code : Codes \cup {OnChild}, source : Missions \cup {None},
              target : Roots \cup {None}, old : BOOLEAN]
Statement == [op : {"insert", "count"}, mission : Missions, n : Nat]

\* The type of every variable.
TypeOK ==
  /\ has \subseteq Missions /\ linked \subseteq has /\ complete \subseteq has
  /\ count \in [Missions -> Nat]
  /\ accepting \in Roots \cup {None} /\ todo \subseteq Missions /\ unsaved \subseteq Missions
  /\ events \in Seq(Event)
  /\ cursor \in Missions \cup {0}
  /\ pending \in Seq(Statement)
  /\ rows \in [Missions -> Nat \cup {NoRow}]
  /\ rewards \in [Missions -> Nat] /\ rewarded \in [Missions -> Nat]
  /\ acted \in Nat /\ logins \in Nat
  /\ disturbed \in BOOLEAN /\ crashed \in BOOLEAN

\* The count with which a mission is complete.
Needed(m) == IF Kids(m) # {} /\ Required[m] = 0 THEN Cardinality(Kids(m)) ELSE Required[m]

\* A mission that was completed, in this login or an earlier one.
Done(m) == count[m] >= Needed(m)

\* The missions of one login give their experience once, however events, the
\* assignment of missions, late statements and events of an earlier login
\* interleave: m_bComplete, the exact comparison of the count and the order of
\* the event queue see to it.  And once for ever, although m_bComplete is not
\* restored, because the count is: unless an event was handled in the middle
\* of an accept, a statement overtook another, or a login came before the last
\* statement or the last event.
RewardedOnce ==
  \A m \in Missions : rewarded[m] <= 1 /\ (~disturbed => rewards[m] <= 1)

\* With these exceptions a mission that asks for every child is complete only
\* when all of them are, also if some were completed before the login.
ParentCompletesLast ==
  ~disturbed =>
    \A m \in complete : Required[m] = 0 => \A k \in Kids(m) : Done(k)

\* With the same exceptions the rows hold the counts of the player once the
\* statements are executed ("update the mission's success count").
SavedWhenQuiet ==
  ~disturbed /\ pending = <<>> /\ accepting = None
    => \A m \in has : rows[m] = count[m]

\* When the last child is complete its parent follows: it is complete, in this
\* login or an earlier one, or the completion of a child is still queued for
\* it.  With the same exceptions no completion is lost between the queue, the
\* parent and a login; one that is queued at the logout reaches the old parent,
\* and the new one never follows.
ParentFollows ==
  ~disturbed =>
    \A p \in has : Kids(p) # {} /\ (\A k \in Kids(p) : Done(k)) =>
      Done(p) \/ \E i \in DOMAIN events : events[i].source \in Kids(p)
=============================================================================
