----------------------------- MODULE WorldProofs -----------------------------
(***************************************************************************)
(* For any clients, characters, tables and workers: the indexes of the     *)
(* players agree, every player has an address of his own, a client is told *)
(* that it is in the game after its five queries were answered, and a      *)
(* player keeps his bank account.                                          *)
(***************************************************************************)
EXTENDS World, TLAPS

\* The abstract queue is a database layer that drops whatever is done.
QProofs == INSTANCE DBJobsProofs WITH
  jobs <- queued, job <- running, dropped <- done, handled <- [j \in Jobs |-> 0],
  monJob <- None, monPc <- "count", pc <- running, conn <- running

\* Only a login that has a character enters, and the character of a player
\* never changes.
CharInv == \A c \in live \cup entering : char[c] \in Characters

\* The queries whose player was created for a character; the queues and the
\* workers hold no other.
Owned == {j \in Jobs : char[j.player] \in Characters}

JobInv ==
  /\ queued \in Seq(Owned) /\ completed \in Seq(Owned)
  /\ running \in [Workers -> Owned \cup {None}]

\* The socket thread looks for an address for a player that exists.
DialInv == dialling # None => dialling \in live

\* The inductive invariant.
IInv == TypeOK /\ CharInv /\ JobInv /\ DialInv /\ IndexesAgree /\ AddressesAreOwn

\* What a push and a pop leave of FCDatabase's queues and of the event queue.
LEMMA Pushed ==
  ASSUME NEW S, NEW s \in Seq(S), NEW e \in S
  PROVE  Append(s, e) \in Seq(S)
OBVIOUS

LEMMA Popped ==
  ASSUME NEW S, NEW s \in Seq(S), s # <<>>
  PROVE  Head(s) \in S /\ Tail(s) \in Seq(S)
OBVIOUS

LEMMA Wider ==
  ASSUME NEW S, NEW T, S \subseteq T, NEW s \in Seq(S)
  PROVE  s \in Seq(T)
OBVIOUS

\* A query for a client is a job, and an owned one if it has a character.
LEMMA JobType ==
  ASSUME NEW k \in Chain \cup {"insert", "update"}, NEW c \in Logins
  PROVE  /\ Job(k, c) \in Jobs /\ Job(k, c) # None
         /\ Job(k, c).kind = k /\ Job(k, c).player = c
         /\ char[c] \in Characters => Job(k, c) \in Owned
BY NoneIsNoWorldJob DEF Job, Jobs, Owned

\* A handled query of the chain leads to a query of the chain.
LEMMA AfterType ==
  ASSUME NEW k \in Chain \ {"ports"}
  PROVE  After[k] \in Chain
<1>1. k \in {"computer", "items", "missions", "bank"}
  BY DEF Chain
<1> QED BY <1>1 DEF After, Chain

\* Every address a player may get is a key of the network.
LEMMA GeneratedType ==
  ASSUME TypeOK, NEW c \in Logins
  PROVE  Generated(c) \subseteq Places
<1>1. addr[c] \in Places
  BY DEF TypeOK
<1> QED BY <1>1 DEF Generated, Places, Addresses

-----------------------------------------------------------------------------
(* The clients                                                             *)

\* A client selects: its queries and players are those of before.
LEMMA SelectStep ==
  ASSUME IInv, NEW c \in Logins, NEW p \in Characters, Select(c, p)
  PROVE  IInv'
<1> USE DEF IInv, db, players, places
<1>1. /\ char' \in [Logins -> Characters \cup {None}]
      /\ char[c] = None /\ char'[c] = p
      /\ \A d \in Logins \ {c} : char'[d] = char[d]
  BY DEF Select, TypeOK
<1>2. c \notin live
  BY <1>1, WorldAssumption DEF CharInv
<1>3. TypeOK'
  BY <1>1 DEF Select, TypeOK, Q!TypeOK
<1>4. CharInv'
  BY <1>1 DEF Select, CharInv, TypeOK
<1>5. JobInv'
  <2>1. Owned \subseteq Owned'
    BY <1>1 DEF Owned, Jobs
  <2>2. queued \in Seq(Owned') /\ completed \in Seq(Owned')
    BY <2>1, Wider DEF JobInv
  <2> QED BY <2>1, <2>2 DEF Select, JobInv
<1>6. DialInv'
  BY DEF Select, DialInv
<1>7. IndexesAgree'
  BY <1>1, <1>2 DEF Select, IndexesAgree
<1>8. AddressesAreOwn'
  <2>1. \A d \in live : char'[d] = char[d]
    BY <1>1, <1>2 DEF TypeOK
  <2> QED BY <2>1 DEF Select, AddressesAreOwn
<1> QED BY <1>3, <1>4, <1>5, <1>6, <1>7, <1>8

\* A client leaves: nothing else changes.
LEMMA LeaveStep ==
  ASSUME IInv, NEW c \in Clients, Leave(c)
  PROVE  IInv'
BY DEF IInv, Leave, db, players, places, TypeOK, Q!TypeOK, CharInv, JobInv, Owned,
       DialInv, IndexesAgree, AddressesAreOwn

-----------------------------------------------------------------------------
(* The socket thread                                                       *)

\* CreatePlayer adds a player who was not there to every index.
LEMMA LoggedInStep ==
  ASSUME IInv, NEW c \in Logins, CharacterLoggedIn(c)
  PROVE  IInv'
<1> USE DEF IInv, db, players, places
<1>1. char[c] \in Characters /\ c \in entering /\ dialling = None
  BY DEF CharacterLoggedIn, CharInv
<1>2. CASE byID[char[c]] # None
  <2>1. UNCHANGED <<conn, char, db, places, players, accounts, told, events, crashed>>
        /\ entering' \subseteq entering
    BY <1>2 DEF CharacterLoggedIn
  <2> QED BY <2>1 DEF TypeOK, Q!TypeOK, CharInv, JobInv, Owned, DialInv, IndexesAgree,
                      AddressesAreOwn
<1>3. CASE byID[char[c]] = None
  <2>1. /\ live' = live \cup {c} /\ bySocket' = [bySocket EXCEPT ![SocketOf[c]] = c]
        /\ targets' = targets \cup {c} /\ dialling' = c
        /\ byID' = [byID EXCEPT ![char[c]] = c]
        /\ entering' \subseteq entering
        /\ UNCHANGED <<conn, char, db, addr, net, accounts, told, events, crashed>>
    BY <1>3 DEF CharacterLoggedIn, CreatePlayer
  <2>2. TypeOK'
    BY <2>1, <1>1, WorldAssumption DEF TypeOK, Q!TypeOK
  <2>3. CharInv' /\ JobInv' /\ DialInv'
    BY <2>1, <1>1 DEF CharInv, JobInv, Owned, DialInv
  <2>4. IndexesAgree'
    <3>1. \A d \in Logins : d \in live => char[d] # char[c]
      BY <1>1, <1>3, WorldAssumption DEF IndexesAgree, TypeOK
    <3>2. ASSUME NEW d \in Logins, NEW p \in Characters
          PROVE  byID'[p] = d <=> d \in live' /\ char[d] = p
      <4>1. byID'[p] = IF p = char[c] THEN c ELSE byID[p]
        BY <2>1 DEF TypeOK
      <4> QED BY <4>1, <3>1, <2>1 DEF IndexesAgree
    <3>3. \A s \in Clients : bySocket'[s] = IF s = SocketOf[c] THEN c ELSE bySocket[s]
      BY <2>1 DEF TypeOK
    <3>4. \A s \in Clients : bySocket'[s] # None =>
            bySocket'[s] \in live' /\ SocketOf[bySocket'[s]] = s
      BY <2>1, <3>3 DEF IndexesAgree
    <3>5. \A d \in live' : bySocket'[SocketOf[d]] = None => conn[SocketOf[d]] = "noticed"
      BY <2>1, <3>3, WorldAssumption DEF IndexesAgree, TypeOK
    <3> QED BY <2>1, <3>2, <3>4, <3>5 DEF IndexesAgree
  <2>5. AddressesAreOwn'
    BY <2>1, <1>1, WorldAssumption DEF AddressesAreOwn, TypeOK
  <2> QED BY <2>2, <2>3, <2>4, <2>5
<1> QED BY <1>2, <1>3

\* A round of the loop: the player gets an address that nobody has, or none.
LEMMA DialStep ==
  ASSUME IInv, Dial
  PROVE  IInv'
<1> USE DEF IInv, network, players
<1> DEFINE d == dialling
<1>1. d \in Logins /\ d # None /\ d \in live /\ char[d] \in Characters
  BY DEF Dial, TypeOK, DialInv, CharInv
<1>2. PICK a \in Generated(d) : addr' = [addr EXCEPT ![d] = a] /\ AddToNetwork(a)
  BY DEF Dial
<1>3. a \in Places
  BY <1>1, <1>2, GeneratedType
<1>4. /\ addr' \in [Logins -> Places] /\ addr'[d] = a
      /\ \A c \in Logins \ {d} : addr'[c] = addr[c]
  BY <1>1, <1>2, <1>3 DEF TypeOK
<1>5. CASE net[a] = None
  <2>1. /\ net' = [net EXCEPT ![a] = char[d]] /\ dialling' = None
        /\ queued' = Append(queued, Job("computer", d))
    BY <1>2, <1>5 DEF AddToNetwork
  <2>2. Job("computer", d) \in Owned /\ Job("computer", d) \in Jobs
    BY <1>1, JobType DEF Chain
  <2>3. queued' \in Seq(Jobs) /\ queued' \in Seq(Owned)
    BY <2>1, <2>2, Pushed DEF TypeOK, Q!TypeOK, JobInv
  <2>4. TypeOK'
    BY <1>1, <1>3, <1>4, <2>1, <2>3 DEF Dial, TypeOK, Q!TypeOK
  <2>5. CharInv' /\ JobInv' /\ DialInv' /\ IndexesAgree'
    <3>1. Owned' = Owned
      BY DEF Dial, Owned
    <3> QED BY <2>1, <2>3, <3>1 DEF Dial, CharInv, JobInv, DialInv, IndexesAgree
  <2>6. \A c \in live \ {d} : net[addr[c]] = char[c] /\ addr[c] # a
    BY <1>5, WorldAssumption DEF AddressesAreOwn, CharInv
  <2>7. \A c \in live : net'[addr'[c]] = char[c]
    BY <2>1, <2>6, <1>3, <1>4 DEF TypeOK
  <2>8. \A c, e \in live : c # e => addr'[c] # addr'[e]
    BY <2>6, <1>4 DEF AddressesAreOwn, TypeOK
  <2>9. AddressesAreOwn'
    BY <2>7, <2>8 DEF Dial, AddressesAreOwn
  <2> QED BY <2>4, <2>5, <2>9
<1>6. CASE net[a] # None
  <2>1. UNCHANGED <<net, queued, dialling>>
    BY <1>2, <1>6 DEF AddToNetwork
  <2>2. TypeOK'
    BY <1>4, <2>1 DEF Dial, TypeOK, Q!TypeOK
  <2>3. CharInv' /\ JobInv' /\ DialInv' /\ IndexesAgree'
    BY <2>1 DEF Dial, CharInv, JobInv, Owned, DialInv, IndexesAgree
  <2>4. AddressesAreOwn'
    BY <1>4, <2>1 DEF Dial, AddressesAreOwn, TypeOK
  <2> QED BY <2>2, <2>3, <2>4
<1> QED BY <1>5, <1>6

\* RemovePlayer takes a player out of every index; the address stays taken.
LEMMA DisconnectStep ==
  ASSUME IInv, NEW c \in Clients, ClientDisconnect(c)
  PROVE  IInv'
<1> USE DEF IInv, places
<1>1. /\ conn' = [conn EXCEPT ![c] = "noticed"] /\ dialling = None
      /\ UNCHANGED <<char, entering, running, completed, done, failed, rows, found,
                     places, told, crashed>>
      /\ Owned' = Owned
  BY DEF ClientDisconnect, Owned
<1>2. /\ conn' \in [Clients -> {"open", "gone", "noticed"}] /\ conn'[c] = "noticed"
      /\ \A s \in Clients : conn[s] = "noticed" => conn'[s] = "noticed"
  BY <1>1 DEF TypeOK
<1>3. PICK l \in Logins \cup {None} : l = bySocket[c]
  BY DEF TypeOK
<1>4. CASE l = None
  <2>1. UNCHANGED <<queued, players, accounts, events>>
    BY <1>3, <1>4 DEF ClientDisconnect
  <2>2. TypeOK' /\ CharInv' /\ JobInv' /\ DialInv' /\ AddressesAreOwn'
    BY <1>1, <1>2, <2>1 DEF players, TypeOK, Q!TypeOK, CharInv, JobInv, DialInv, AddressesAreOwn
  <2>3. IndexesAgree'
    BY <1>1, <1>2, <2>1, WorldAssumption DEF players, IndexesAgree, TypeOK
  <2> QED BY <2>2, <2>3
<1>5. CASE l # None
  <2>1. /\ events' = Append(events, [type |-> "LoggedOut", source |-> None])
        /\ queued' = IF char[l] \in accounts THEN Append(queued, Job("update", l))
                                             ELSE queued
        /\ accounts' = accounts \ {char[l]}
        /\ live' = live \ {l} /\ targets' = targets \ {l}
        /\ byID' = [byID EXCEPT ![char[l]] = None]
        /\ bySocket' = [bySocket EXCEPT ![SocketOf[l]] = None]
    BY <1>3, <1>5 DEF ClientDisconnect, RemovePlayer
  <2>2. l \in live /\ l \in Logins /\ SocketOf[l] = c /\ char[l] \in Characters
    BY <1>3, <1>5 DEF IndexesAgree, CharInv, TypeOK
  <2>3. queued' \in Seq(Jobs) /\ queued' \in Seq(Owned)
    <3>1. Job("update", l) \in Owned /\ Job("update", l) \in Jobs
      BY <2>2, JobType
    <3>2. queued \in Seq(Jobs) /\ queued \in Seq(Owned)
      BY DEF TypeOK, Q!TypeOK, JobInv
    <3>3. Append(queued, Job("update", l)) \in Seq(Jobs)
      BY <3>1, <3>2, Pushed
    <3>4. Append(queued, Job("update", l)) \in Seq(Owned)
      BY <3>1, <3>2, Pushed
    <3> QED BY <2>1, <3>2, <3>3, <3>4
  <2>4. events' \in Seq([type : {"LoggedIn", "LoggedOut"}, source : Logins \cup {None}])
    BY <2>1, Pushed DEF TypeOK
  <2>5. TypeOK'
    BY <1>1, <1>2, <2>1, <2>2, <2>3, <2>4 DEF TypeOK, Q!TypeOK
  <2>6. CharInv' /\ JobInv' /\ DialInv'
    BY <1>1, <2>1, <2>3 DEF CharInv, JobInv, DialInv
  <2>7. IndexesAgree'
    <3>1. ASSUME NEW d \in Logins, NEW p \in Characters
          PROVE  byID'[p] = d <=> d \in live' /\ char'[d] = p
      <4>1. byID'[p] = IF p = char[l] THEN None ELSE byID[p]
        BY <2>1 DEF TypeOK
      <4>2. byID[char[l]] = l
        BY <2>2 DEF IndexesAgree
      <4> QED BY <1>1, <2>1, <4>1, <4>2, WorldAssumption DEF IndexesAgree
    <3>2. \A s \in Clients : bySocket'[s] = IF s = c THEN None ELSE bySocket[s]
      BY <2>1, <2>2 DEF TypeOK
    <3>3. \A s \in Clients : bySocket'[s] # None =>
            bySocket'[s] \in live' /\ SocketOf[bySocket'[s]] = s
      BY <2>1, <2>2, <3>2 DEF IndexesAgree
    <3>4. \A d \in live' : bySocket'[SocketOf[d]] = None => conn'[SocketOf[d]] = "noticed"
      BY <1>2, <2>1, <3>2, WorldAssumption DEF IndexesAgree, TypeOK
    <3> QED BY <1>1, <2>1, <3>1, <3>3, <3>4 DEF IndexesAgree
  <2>8. AddressesAreOwn'
    BY <1>1, <2>1 DEF AddressesAreOwn
  <2> QED BY <2>5, <2>6, <2>7, <2>8
<1> QED BY <1>4, <1>5

\* A new account: the players and addresses stay.
LEMMA BankStep ==
  ASSUME IInv, NEW c \in Clients, BankCreateAccount(c)
  PROVE  IInv'
<1> USE DEF IInv, network, players, places
<1>1. PICK l \in Logins : l = bySocket[c]
  BY DEF BankCreateAccount, TypeOK
<1>2. char[l] \in Characters /\ accounts' = accounts \cup {char[l]}
      /\ queued' = Append(queued, Job("insert", l))
  BY <1>1 DEF BankCreateAccount, IndexesAgree, CharInv, TypeOK
<1>3. Job("insert", l) \in Owned /\ Job("insert", l) \in Jobs
  BY <1>2, JobType
<1>4. queued' \in Seq(Jobs) /\ queued' \in Seq(Owned)
  <2>1. queued \in Seq(Jobs) /\ queued \in Seq(Owned)
    BY DEF TypeOK, Q!TypeOK, JobInv
  <2> QED BY <1>2, <1>3, <2>1, Pushed
<1>5. Owned' = Owned
  BY DEF BankCreateAccount, Owned
<1>6. TypeOK'
  BY <1>2, <1>4 DEF BankCreateAccount, TypeOK, Q!TypeOK
<1> QED BY <1>4, <1>5, <1>6 DEF BankCreateAccount, CharInv, JobInv, DialInv, IndexesAgree,
                                AddressesAreOwn

-----------------------------------------------------------------------------
(* The database, the result thread and the event thread                    *)

\* A worker's step moves an owned query or adds a row of its character.
LEMMA WorkerStep ==
  ASSUME IInv, NEW w \in Workers, Fetch(w) \/ Execute(w) \/ Fail(w)
  PROVE  IInv'
<1> USE DEF IInv, network, players, places
<1>1. /\ UNCHANGED <<network, players, places, accounts, told, events, crashed>>
      /\ Owned' = Owned /\ Owned \subseteq Jobs
  BY DEF Fetch, Execute, Fail, Owned
<1>2. queued \in Seq(Jobs) /\ completed \in Seq(Jobs) /\ queued \in Seq(Owned)
  BY DEF TypeOK, Q!TypeOK, JobInv
<1>3. JobInv' /\ Q!TypeOK' /\ failed' \subseteq Jobs /\ rows' \subseteq Characters
      /\ found' \subseteq Logins
  <2>1. CASE Fetch(w)
    <3>1. queued # <<>> /\ queued' = Tail(queued)
          /\ running' = [running EXCEPT ![w] = Head(queued)]
          /\ UNCHANGED <<completed, done, failed, rows, found>>
      BY <2>1 DEF Fetch, Q!Fetch
    <3>2. Head(queued) \in Owned /\ Tail(queued) \in Seq(Owned) /\ Tail(queued) \in Seq(Jobs)
      BY <1>2, <3>1, Popped
    <3> QED BY <1>1, <3>1, <3>2 DEF TypeOK, Q!TypeOK, JobInv
  <2>2. CASE Execute(w)
    <3>1. running[w] # None /\ completed' = Append(completed, running[w])
          /\ running' = [running EXCEPT ![w] = None] /\ UNCHANGED <<queued, done, failed>>
      BY <2>2 DEF Execute, Q!Complete
    <3>2. running[w] \in Owned /\ running[w] \in Jobs
          /\ running[w].player \in Logins /\ char[running[w].player] \in Characters
      BY <3>1 DEF JobInv, Owned, Jobs
    <3>3. completed' \in Seq(Jobs) /\ completed' \in Seq(Owned)
      BY <1>2, <3>1, <3>2, Pushed DEF JobInv
    <3>4. rows' \subseteq Characters /\ found' \subseteq Logins
      BY <2>2, <3>2 DEF Execute, TypeOK
    <3> QED BY <1>1, <3>1, <3>2, <3>3, <3>4 DEF TypeOK, Q!TypeOK, JobInv
  <2>3. CASE Fail(w)
    <3>1. running[w] # None /\ done' = done \cup {running[w]}
          /\ running' = [running EXCEPT ![w] = None] /\ failed' = failed \cup {running[w]}
          /\ UNCHANGED <<queued, completed, rows, found>>
      BY <2>3 DEF Fail, Q!Fail
    <3>2. running[w] \in Jobs
      BY <3>1 DEF TypeOK, Q!TypeOK
    <3> QED BY <1>1, <3>1, <3>2 DEF TypeOK, Q!TypeOK, JobInv
  <2> QED BY <2>1, <2>2, <2>3
<1>4. TypeOK'
  BY <1>1, <1>3 DEF TypeOK
<1> QED BY <1>1, <1>3, <1>4 DEF CharInv, DialInv, IndexesAgree, AddressesAreOwn

\* A result of the chain leads to an owned query; the last one tells the client.
LEMMA ResultStep ==
  ASSUME IInv, HandleResult
  PROVE  IInv'
<1> USE DEF IInv, network, players, places
<1> DEFINE k == Head(completed).kind
           c == Head(completed).player
<1>1. /\ completed # <<>> /\ completed' = Tail(completed)
      /\ done' = done \cup {Head(completed)}
      /\ UNCHANGED <<network, running, failed, rows, found, players, places>>
      /\ Owned' = Owned
  BY DEF HandleResult, TakeResult, Owned
<1>2. /\ Head(completed) \in Owned /\ Head(completed) \in Jobs
      /\ Tail(completed) \in Seq(Owned) /\ Tail(completed) \in Seq(Jobs)
  <2>1. completed \in Seq(Owned) /\ completed \in Seq(Jobs)
    BY DEF JobInv, TypeOK, Q!TypeOK
  <2> QED BY <1>1, <2>1, Popped
<1>3. c \in Logins /\ char[c] \in Characters /\ k \in Chain \cup {"insert", "update"}
  BY <1>2 DEF Owned, Jobs
<1>4. /\ queued' \in Seq(Jobs) /\ queued' \in Seq(Owned)
      /\ accounts' \subseteq Characters /\ told' \subseteq Logins /\ crashed' \in BOOLEAN
      /\ events' \in Seq([type : {"LoggedIn", "LoggedOut"}, source : Logins \cup {None}])
  <2>1. CASE k \in Chain \ {"ports"}
    <3>1. Load(c, k)
      BY <2>1 DEF HandleResult
    <3>2. Job(After[k], c) \in Owned /\ Job(After[k], c) \in Jobs
      BY <1>3, <2>1, AfterType, JobType
    <3>3. queued' \in Seq(Jobs) /\ queued' \in Seq(Owned)
      BY <3>1, <3>2, Pushed DEF Load, TypeOK, Q!TypeOK, JobInv
    <3>4. crashed' \in BOOLEAN
      BY <3>1 DEF Load, Touch
    <3> QED BY <1>3, <3>1, <3>3, <3>4 DEF Load, TypeOK
  <2>2. CASE k = "ports"
    <3>1. Loaded(c)
      BY <2>2 DEF HandleResult
    <3>2. events' \in Seq([type : {"LoggedIn", "LoggedOut"}, source : Logins \cup {None}])
      BY <3>1, <1>3, Pushed DEF Loaded, TypeOK
    <3>3. crashed' \in BOOLEAN
      BY <3>1 DEF Loaded, Touch
    <3> QED BY <1>3, <3>1, <3>2, <3>3 DEF Loaded, TypeOK, Q!TypeOK, JobInv
  <2>3. CASE k \notin Chain
    <3>1. UNCHANGED <<queued, accounts, told, events, crashed>>
      BY <2>3 DEF HandleResult, Chain
    <3> QED BY <3>1 DEF TypeOK, Q!TypeOK, JobInv
  <2> QED BY <2>1, <2>2, <2>3 DEF Chain
<1>5. TypeOK'
  BY <1>1, <1>2, <1>4 DEF TypeOK, Q!TypeOK
<1>6. JobInv'
  BY <1>1, <1>2, <1>4 DEF JobInv
<1> QED BY <1>1, <1>5, <1>6 DEF CharInv, DialInv, IndexesAgree, AddressesAreOwn

\* An event is delivered: only the event queue changes.
LEMMA DeliverStep ==
  ASSUME IInv, Deliver
  PROVE  IInv'
<1> USE DEF IInv, network, db, players, places
<1>1. events' \in Seq([type : {"LoggedIn", "LoggedOut"}, source : Logins \cup {None}])
  BY Popped DEF Deliver, TypeOK
<1>2. crashed' \in BOOLEAN
  BY DEF Deliver, Touch, TypeOK
<1> QED BY <1>1, <1>2 DEF Deliver, TypeOK, Q!TypeOK, CharInv, JobInv, Owned, DialInv,
                          IndexesAgree, AddressesAreOwn

-----------------------------------------------------------------------------
\* One case per thread of the service and one for its surroundings.
LEMMA Step ==
  ASSUME IInv, [Next]_vars
  PROVE  IInv'
<1>1. ASSUME Environment PROVE IInv'
  BY <1>1, SelectStep, LeaveStep DEF Environment
<1>2. ASSUME SocketThread PROVE IInv'
  BY <1>2, LoggedInStep, DisconnectStep, BankStep, DialStep DEF SocketThread
<1>3. ASSUME NEW w \in Workers, Fetch(w) \/ Execute(w) \/ Fail(w) PROVE IInv'
  BY <1>3, WorkerStep
<1>4. ASSUME HandleResult PROVE IInv'
  BY <1>4, ResultStep
<1>5. ASSUME Deliver PROVE IInv'
  BY <1>5, DeliverStep
<1>6. CASE UNCHANGED vars
  BY <1>6 DEF vars, network, db, players, places, IInv, TypeOK, Q!TypeOK, CharInv, JobInv,
              Owned, DialInv, IndexesAgree, AddressesAreOwn
<1> QED BY <1>1, <1>2, <1>3, <1>4, <1>5, <1>6 DEF Next

LEMMA InitHolds == Init => IInv
<1> SUFFICES ASSUME Init PROVE IInv
  OBVIOUS
<1>1. TypeOK
  <2>1. addr \in [Logins -> Places]
    BY DEF Init, Places
  <2>2. Q!TypeOK
    BY DEF Init, Q!Init, Q!TypeOK
  <2>3. \A s \in {entering, found, live, targets, told} : s = {}
    BY DEF Init
  <2>4. events \in Seq([type : {"LoggedIn", "LoggedOut"}, source : Logins \cup {None}])
    BY DEF Init
  <2>5. rows \subseteq Characters /\ accounts \subseteq Characters /\ failed \subseteq Jobs
    BY WorldAssumption DEF Init
  <2>6. /\ conn \in [Clients -> {"open", "gone", "noticed"}]
        /\ char \in [Logins -> Characters \cup {None}]
        /\ byID \in [Characters -> Logins \cup {None}]
        /\ bySocket \in [Clients -> Logins \cup {None}]
        /\ net \in [Places -> Characters \cup {None}]
        /\ dialling \in Logins \cup {None} /\ crashed \in BOOLEAN
    BY DEF Init
  <2> QED BY <2>1, <2>2, <2>3, <2>4, <2>5, <2>6 DEF TypeOK
<1> QED BY <1>1, WorldAssumption DEF Init, Q!Init, IInv, CharInv, JobInv, DialInv,
                                     IndexesAgree, AddressesAreOwn

\* Every variable has its type in every reachable state.
THEOREM TypeCorrect == Spec => []TypeOK
<1>1. IInv => TypeOK
  BY DEF IInv
<1> QED BY <1>1, InitHolds, Step, PTL DEF Spec

\* The indexes of the PlayerManager and the event targets always lead to the
\* same players, for any number of clients and of database workers.
THEOREM PlayerIndexesAgree == Spec => []IndexesAgree
<1>1. IInv => IndexesAgree
  BY DEF IInv
<1> QED BY <1>1, InitHolds, Step, PTL DEF Spec

\* Every player in the network is found at his own address, whatever tables
\* of countries and cities the world has.
THEOREM PlayersHaveAddresses == Spec => []AddressesAreOwn
<1>1. IInv => AddressesAreOwn
  BY DEF IInv
<1> QED BY <1>1, InitHolds, Step, PTL DEF Spec

-----------------------------------------------------------------------------
(* The queries of a player                                                 *)

\* The queries that were ever queued.
Present == {j \in Jobs : ~Q!Fresh(j)}

\* The queries whose handler was called on a result.
Answered == done \ failed

\* The player of a login was looked for: none is created after that.
Entered(c) == char[c] # None /\ c \notin entering

\* The query that comes before the others is queued once per player: a login
\* enters once, and the address is looked for once.
BeforeChain(c) == ~Entered(c) \/ c = dialling

\* A query is queued when the one before it in the chain was answered, and
\* "update" and "insert" are queued once per player.
ChainInv ==
  /\ Q!OncePerJob /\ failed \subseteq done
  /\ entering \cap live = {}
  /\ \A c \in Logins : BeforeChain(c) => \A k \in Chain : Job(k, c) \notin Present
  /\ \A c \in Logins, k \in Chain \ {"ports"} :
       Job(After[k], c) \in Present => Job(k, c) \in Answered
  /\ \A c \in Logins : Job("update", c) \in Present => Entered(c) /\ c \notin live
  /\ \A c \in Logins : Job("insert", c) \in Present => Entered(c)

\* The account of a player is there from the answer of the bank query on.
BankInv ==
  \A c \in live :
    (c \in found /\ Job("bank", c) \in Answered) \/ Job("insert", c) \in Present
      => char[c] \in accounts

\* A player who has an address and was not answered for has a query that was
\* not answered.
CarriedInv ==
  \A c \in live \ {dialling} :
    c \in told \/ \E k \in Chain : Job(k, c) \in Present \ Answered

LoadInv == ChainInv /\ BankInv /\ CarriedInv /\ ToldWhenLoaded

\* A job is in the queue q, with a worker of r, among the results m or in d.
Placed(j, q, r, m, d) ==
  Q!In(j, q) \/ Q!In(j, m) \/ j \in d \/ \E w \in Workers : r[w] = j

\* OncePerJob of any queue, workers, results and finished jobs.
Once(q, r, m, d) ==
  /\ Q!NoDuplicates(q) /\ Q!NoDuplicates(m)
  /\ \A v, w \in Workers : r[v] = r[w] /\ r[v] # None => v = w
  /\ \A j \in Jobs :
       /\ Q!In(j, q) => ~Q!In(j, m) /\ j \notin d
       /\ Q!In(j, m) => j \notin d
       /\ \A w \in Workers : r[w] = j => ~Q!In(j, q) /\ ~Q!In(j, m) /\ j \notin d

\* DBJobsProofs' lemmas about sequences, for the queue of this module.
LEMMA InAppend ==
  ASSUME NEW S, NEW s \in Seq(S), NEW e \in S, NEW j
  PROVE  Q!In(j, Append(s, e)) <=> Q!In(j, s) \/ j = e
BY QProofs!InAppend DEF Q!In, QProofs!Abstract!In

LEMMA NoDuplicatesAppend ==
  ASSUME NEW S, NEW s \in Seq(S), NEW e \in S, Q!NoDuplicates(s), ~Q!In(e, s)
  PROVE  Q!NoDuplicates(Append(s, e))
BY QProofs!NoDuplicatesAppend
DEF Q!In, QProofs!Abstract!In, Q!NoDuplicates, QProofs!Abstract!NoDuplicates

LEMMA NoDuplicatesTail ==
  ASSUME NEW S, NEW s \in Seq(S), s # <<>>, Q!NoDuplicates(s)
  PROVE  Q!NoDuplicates(Tail(s)) /\ ~Q!In(Head(s), Tail(s))
BY QProofs!NoDuplicatesTail
DEF Q!In, QProofs!Abstract!In, Q!NoDuplicates, QProofs!Abstract!NoDuplicates

\* What is in a sequence is its head or in its tail.
LEMMA InTail ==
  ASSUME NEW S, NEW s \in Seq(S), s # <<>>, NEW j
  PROVE  Q!In(j, s) <=> j = Head(s) \/ Q!In(j, Tail(s))
<1>1. /\ DOMAIN Tail(s) = 1..(Len(s) - 1)
      /\ \A i \in DOMAIN Tail(s) : Tail(s)[i] = s[i + 1]
      /\ DOMAIN s = 1..Len(s) /\ Len(s) \in Nat /\ Len(s) > 0
      /\ Head(s) = s[1]
  OBVIOUS
<1>2. \A i \in DOMAIN s : i = 1 \/ (i - 1 \in DOMAIN Tail(s) /\ Tail(s)[i - 1] = s[i])
  BY <1>1
<1>3. \A i \in DOMAIN Tail(s) : i + 1 \in DOMAIN s /\ s[i + 1] = Tail(s)[i]
  BY <1>1
<1>4. 1 \in DOMAIN s
  BY <1>1
<1> QED BY <1>1, <1>2, <1>3, <1>4 DEF Q!In

\* A new job is added to the queue.
LEMMA OnceAppend ==
  ASSUME NEW q \in Seq(Jobs), NEW r, NEW m, NEW d, NEW e \in Jobs,
         Once(q, r, m, d), ~Placed(e, q, r, m, d)
  PROVE  /\ Once(Append(q, e), r, m, d)
         /\ \A j : Placed(j, Append(q, e), r, m, d) <=> Placed(j, q, r, m, d) \/ j = e
<1>1. \A j : Q!In(j, Append(q, e)) <=> Q!In(j, q) \/ j = e
  BY InAppend
<1>2. Q!NoDuplicates(Append(q, e))
  BY NoDuplicatesAppend DEF Once, Placed
<1> QED BY <1>1, <1>2 DEF Once, Placed

\* The oldest result is taken: it was not done, and every job stays placed.
LEMMA OnceTake ==
  ASSUME NEW q, NEW r, NEW m \in Seq(Jobs), NEW d, m # <<>>, Once(q, r, m, d)
  PROVE  /\ Once(q, r, Tail(m), d \cup {Head(m)})
         /\ Head(m) \notin d
         /\ \A j : Placed(j, q, r, Tail(m), d \cup {Head(m)}) <=> Placed(j, q, r, m, d)
<1>1. \A j : Q!In(j, m) <=> j = Head(m) \/ Q!In(j, Tail(m))
  BY InTail
<1>2. Q!NoDuplicates(Tail(m)) /\ ~Q!In(Head(m), Tail(m))
  BY NoDuplicatesTail DEF Once
<1>3. Head(m) \in Jobs
  OBVIOUS
<1> QED BY <1>1, <1>2, <1>3 DEF Once, Placed

LEMMA PlacedIsPresent ==
  /\ Q!OncePerJob <=> Once(queued, running, completed, done)
  /\ Present = {j \in Jobs : Placed(j, queued, running, completed, done)}
<1>1. \A j : Q!Fresh(j) <=> ~Placed(j, queued, running, completed, done)
  BY DEF Q!Fresh, Placed
<1> QED BY <1>1 DEF Q!OncePerJob, Once, Present

-----------------------------------------------------------------------------
\* No step touches the queue: the same queries are present.
LEMMA QueueStays ==
  ASSUME Q!OncePerJob, UNCHANGED <<queued, running, completed, done>>
  PROVE  Q!OncePerJob' /\ Present' = Present
BY DEF Q!OncePerJob, Q!In, Q!NoDuplicates, Present, Q!Fresh

\* A step queues a new query.
LEMMA QueueGrows ==
  ASSUME Q!OncePerJob, Q!TypeOK, NEW e \in Jobs \ Present,
         queued' = Append(queued, e), UNCHANGED <<running, completed, done>>
  PROVE  Q!OncePerJob' /\ Present' = Present \cup {e}
<1>1. queued \in Seq(Jobs) /\ Once(queued, running, completed, done)
  BY PlacedIsPresent DEF Q!TypeOK
<1>2. ~Placed(e, queued, running, completed, done)
  BY PlacedIsPresent
<1>3. /\ Once(queued', running', completed', done')
      /\ \A j : Placed(j, queued', running', completed', done') <=>
                Placed(j, queued, running, completed, done) \/ j = e
  BY <1>1, <1>2, OnceAppend
<1>4. Q!OncePerJob'
  BY <1>3 DEF Q!OncePerJob, Once
<1>5. Present' = {j \in Jobs : Placed(j, queued', running', completed', done')}
  BY DEF Present, Q!Fresh, Placed
<1> QED BY <1>3, <1>4, <1>5, PlacedIsPresent

\* A worker moves a query or fails it: a failing query was not done before.
LEMMA QueueMoves ==
  ASSUME Q!OncePerJob, Q!TypeOK, NEW w \in Workers,
         Q!Fetch(w) \/ Q!Complete(w) \/ Q!Fail(w)
  PROVE  /\ Q!OncePerJob' /\ Present' = Present
         /\ running[w] # None => running[w] \in Jobs \ done
<1>1. QProofs!Over = done /\ QProofs!Over' = done'
  BY NoneIsNoWorldJob DEF QProofs!Over
<1>2. QProofs!QueueInv /\ [QProofs!Abstract!Next]_(QProofs!Abstract!vars)
  BY <1>1
  DEF Q!TypeOK, Q!OncePerJob, Q!NoDuplicates, Q!In, Q!Fetch, Q!Complete, Q!Fail,
      QProofs!QueueInv, QProofs!Abstract!TypeOK, QProofs!Abstract!OncePerJob,
      QProofs!Abstract!NoDuplicates, QProofs!Abstract!In, QProofs!Abstract!Next,
      QProofs!Abstract!Fetch, QProofs!Abstract!Complete, QProofs!Abstract!Fail
<1>3. QProofs!QueueInv'
  BY <1>2, QProofs!QueueStep, NoneIsNoWorldJob
<1>4. Q!OncePerJob'
  BY <1>1, <1>3
  DEF Q!OncePerJob, Q!NoDuplicates, Q!In, QProofs!QueueInv, QProofs!Abstract!OncePerJob,
      QProofs!Abstract!NoDuplicates, QProofs!Abstract!In
<1>5. running[w] # None => running[w] \in Jobs \ done
  BY DEF Q!TypeOK, Q!OncePerJob
<1>6. ASSUME NEW j \in Jobs PROVE Q!Fresh(j)' <=> Q!Fresh(j)
  <2>0. j # None
    BY NoneIsNoWorldJob
  <2>1. CASE Q!Fetch(w)
    <3>1. /\ queued # <<>> /\ running[w] = None /\ queued' = Tail(queued)
          /\ running' = [running EXCEPT ![w] = Head(queued)]
          /\ UNCHANGED <<completed, done>>
      BY <2>1 DEF Q!Fetch
    <3>2. Q!In(j, queued) <=> j = Head(queued) \/ Q!In(j, queued')
      BY <3>1, InTail DEF Q!TypeOK
    <3>3. Q!In(j, queued)' <=> Q!In(j, queued')
      BY DEF Q!In
    <3>4. (\E v \in Workers : running'[v] = j) <=>
          (\E v \in Workers : running[v] = j) \/ j = Head(queued)
      BY <2>0, <3>1 DEF Q!TypeOK
    <3>5. Q!In(j, completed)' <=> Q!In(j, completed)
      BY <3>1 DEF Q!In
    <3> QED BY <3>1, <3>2, <3>3, <3>4, <3>5 DEF Q!Fresh
  <2>2. CASE Q!Complete(w)
    <3>1. /\ running[w] # None /\ completed' = Append(completed, running[w])
          /\ running' = [running EXCEPT ![w] = None]
          /\ UNCHANGED <<queued, done>>
      BY <2>2 DEF Q!Complete
    <3>2. Q!In(j, completed') <=> Q!In(j, completed) \/ j = running[w]
      BY <1>5, <3>1, InAppend DEF Q!TypeOK
    <3>3. Q!In(j, completed)' <=> Q!In(j, completed')
      BY DEF Q!In
    <3>4. (\E v \in Workers : running'[v] = j) \/ j = running[w] <=>
          (\E v \in Workers : running[v] = j)
      BY <2>0, <3>1 DEF Q!TypeOK
    <3>5. Q!In(j, queued)' <=> Q!In(j, queued)
      BY <3>1 DEF Q!In
    <3> QED BY <3>1, <3>2, <3>3, <3>4, <3>5 DEF Q!Fresh
  <2>3. CASE Q!Fail(w)
    <3>1. /\ running[w] # None /\ done' = done \cup {running[w]}
          /\ running' = [running EXCEPT ![w] = None]
          /\ UNCHANGED <<queued, completed>>
      BY <2>3 DEF Q!Fail
    <3>4. (\E v \in Workers : running'[v] = j) \/ j = running[w] <=>
          (\E v \in Workers : running[v] = j)
      BY <2>0, <3>1 DEF Q!TypeOK
    <3>5. (Q!In(j, queued)' <=> Q!In(j, queued)) /\ (Q!In(j, completed)' <=> Q!In(j, completed))
      BY <3>1 DEF Q!In
    <3> QED BY <3>1, <3>4, <3>5 DEF Q!Fresh
  <2> QED BY <2>1, <2>2, <2>3
<1> QED BY <1>4, <1>5, <1>6 DEF Present

-----------------------------------------------------------------------------
\* The chain's order, for the invariant of the chain.
LEMMA ChainOrder ==
  /\ After["computer"] = "items" /\ After["items"] = "missions"
  /\ After["missions"] = "bank" /\ After["bank"] = "ports"
  /\ Chain \ {"ports"} = {"computer", "items", "missions", "bank"}
BY DEF After, Chain

\* Queries of different kinds or players are different queries.
LEMMA JobsDiffer ==
  ASSUME NEW k, NEW l, NEW c, NEW d
  PROVE  Job(k, c) = Job(l, d) <=> k = l /\ c = d
BY DEF Job

\* A query with its place in the chain is what it was made of.
LEMMA JobIsJob ==
  ASSUME NEW j \in Jobs
  PROVE  j = Job(j.kind, j.player) /\ j.player \in Logins
         /\ j.kind \in Chain \cup {"insert", "update"}
BY DEF Jobs, Job

\* Once the last query was queued, the four before it were answered.
LEMMA ChainAnswered ==
  ASSUME ChainInv, NEW c \in Logins, Job("ports", c) \in Present
  PROVE  \A k \in Chain \ {"ports"} : Job(k, c) \in Answered
<1>1. \A k \in Chain : Job(k, c) \in Answered => Job(k, c) \in Present
  BY JobType DEF Answered, Present, Q!Fresh
<1> QED BY <1>1, ChainOrder DEF ChainInv, Chain

\* The surroundings: a login that is made has no queries yet.
LEMMA OutsideLoadStep ==
  ASSUME IInv, LoadInv, Environment
  PROVE  LoadInv'
<1> USE DEF LoadInv
<1>1. /\ UNCHANGED <<queued, running, completed, done, failed, found, live, dialling,
                     accounts, told>>
      /\ \A d \in live : char'[d] = char[d]
      /\ entering' \cap live = {}
      /\ \A d \in Logins : BeforeChain(d)' => BeforeChain(d)
      /\ \A d \in Logins : Entered(d) => Entered(d)'
  <2>1. CASE \E c \in Clients : Leave(c)
    BY <2>1 DEF Leave, db, players, places, ChainInv, IInv, TypeOK, BeforeChain, Entered
  <2>2. CASE \E c \in Logins, p \in Characters : Select(c, p)
    <3>0. PICK c \in Logins, p \in Characters : Select(c, p)
      BY <2>2
    <3>1. char' = [char EXCEPT ![c] = p] /\ entering' = entering \cup {c} /\ char[c] = None
          /\ UNCHANGED <<conn, db, players, places, accounts, told>>
      BY <3>0 DEF Select
    <3>2. c \notin live
      BY <3>1, WorldAssumption DEF IInv, CharInv
    <3> QED BY <3>1, <3>2
            DEF db, players, places, ChainInv, IInv, TypeOK, BeforeChain, Entered
  <2> QED BY <2>1, <2>2 DEF Environment
<1>2. Q!OncePerJob' /\ Present' = Present /\ Answered' = Answered
  BY <1>1, QueueStays DEF ChainInv, Answered
<1>3. ChainInv'
  BY <1>1, <1>2 DEF ChainInv
<1>4. BankInv' /\ CarriedInv'
  BY <1>1, <1>2 DEF BankInv, CarriedInv
<1> QED BY <1>1, <1>2, <1>3, <1>4 DEF ToldWhenLoaded, Answered

\* CreatePlayer: the new player has no query yet, in particular no "insert".
LEMMA LoggedInLoadStep ==
  ASSUME IInv, LoadInv, NEW c \in Logins, CharacterLoggedIn(c)
  PROVE  LoadInv'
<1> USE DEF LoadInv
<1>1. /\ c \in entering /\ entering' = entering \ {c} /\ dialling = None
      /\ UNCHANGED <<conn, char, queued, running, completed, done, failed, found,
                     accounts, told>>
      /\ \/ UNCHANGED <<live, dialling>>
         \/ live' = live \cup {c} /\ dialling' = c
  BY DEF CharacterLoggedIn, CreatePlayer, db, players
<1>2. Q!OncePerJob' /\ Present' = Present /\ Answered' = Answered
  BY <1>1, QueueStays DEF ChainInv, Answered
<1>3. /\ \A k \in Chain : Job(k, c) \notin Present
      /\ Job("update", c) \notin Present /\ Job("insert", c) \notin Present
  BY <1>1 DEF ChainInv, BeforeChain, Entered
<1>4. Job("bank", c) \notin Answered
  BY <1>3, JobType DEF Answered, Present, Q!Fresh, Chain
<1>5. ChainInv'
  <2>1. \A d \in Logins \ {c} : (BeforeChain(d)' => BeforeChain(d)) /\ (Entered(d)' <=> Entered(d))
    BY <1>1 DEF BeforeChain, Entered
  <2>2. entering' \cap live' = {}
    BY <1>1 DEF ChainInv
  <2> QED BY <1>1, <1>2, <1>3, <2>1, <2>2 DEF ChainInv
<1>6. BankInv'
  BY <1>1, <1>2, <1>3, <1>4 DEF BankInv
<1>7. CarriedInv'
  BY <1>1, <1>2, WorldAssumption DEF CarriedInv, IInv, TypeOK
<1> QED BY <1>1, <1>2, <1>5, <1>6, <1>7 DEF ToldWhenLoaded, Answered

\* The loop ends: the first query of the player is queued.
LEMMA DialLoadStep ==
  ASSUME IInv, LoadInv, Dial
  PROVE  LoadInv'
<1> USE DEF LoadInv
<1> DEFINE c == dialling
<1>1. /\ c \in Logins /\ c \in live /\ char[c] # None
      /\ UNCHANGED <<conn, char, entering, running, completed, done, failed, found, live,
                     accounts, told>>
  BY WorldAssumption DEF Dial, network, players, IInv, TypeOK, DialInv, CharInv
<1>2. Answered' = Answered
  BY <1>1 DEF Answered
<1>3. CASE UNCHANGED <<queued, dialling>>
  <2>1. Q!OncePerJob' /\ Present' = Present
    BY <1>1, <1>3, QueueStays DEF ChainInv
  <2> QED BY <1>1, <1>2, <1>3, <2>1 DEF ChainInv, BeforeChain, Entered, BankInv, CarriedInv, ToldWhenLoaded, Answered
<1>4. CASE queued' = Append(queued, Job("computer", c)) /\ dialling' = None
  <2>1. Job("computer", c) \in Jobs \ Present
    BY <1>1, JobType DEF ChainInv, BeforeChain, Chain
  <2>2. Q!OncePerJob' /\ Present' = Present \cup {Job("computer", c)}
    BY <1>1, <1>4, <2>1, QueueGrows DEF ChainInv, IInv, TypeOK
  <2>3. \A d \in Logins : /\ BeforeChain(d)' => BeforeChain(d) /\ d # c
                          /\ Entered(d)' <=> Entered(d)
    BY <1>1, <1>4, WorldAssumption DEF BeforeChain, Entered, ChainInv
  <2>4. \A d \in Logins : \A k : Job(k, d) \in Present' =>
          Job(k, d) \in Present \/ (k = "computer" /\ d = c)
    BY <2>2, JobsDiffer
  <2>5. ChainInv'
    BY <1>1, <1>2, <2>2, <2>3, <2>4, ChainOrder DEF ChainInv
  <2>6. BankInv'
    BY <1>1, <1>2, <2>4 DEF BankInv, IInv, TypeOK
  <2>7. CarriedInv'
    <3>1. Job("computer", c) \in Present' \ Answered'
      BY <1>2, <2>1, <2>2, JobType DEF Answered, Present, Q!Fresh
    <3> QED BY <1>1, <1>2, <1>4, <2>2, <3>1 DEF CarriedInv, Chain
  <2> QED BY <1>1, <2>5, <2>6, <2>7 DEF ToldWhenLoaded
<1> QED BY <1>3, <1>4 DEF Dial, AddToNetwork

\* OnCommandClientDisconnect: the account goes with the one player who has
\* the character, and "update" is queued for a client only then.
LEMMA DisconnectLoadStep ==
  ASSUME IInv, LoadInv, NEW c \in Clients, ClientDisconnect(c)
  PROVE  LoadInv'
<1> USE DEF LoadInv
<1>1. UNCHANGED <<char, entering, running, completed, done, failed, found, dialling, told>>
  BY DEF ClientDisconnect, places
<1>2. Answered' = Answered
  BY <1>1 DEF Answered
<1>3. PICK l \in Logins \cup {None} : l = bySocket[c]
  BY DEF IInv, TypeOK
<1>4. CASE l = None
  <2>1. UNCHANGED <<queued, live, accounts>>
    BY <1>3, <1>4 DEF ClientDisconnect, players
  <2>2. Q!OncePerJob' /\ Present' = Present
    BY <1>1, <2>1, QueueStays DEF ChainInv
  <2> QED BY <1>1, <1>2, <2>1, <2>2
          DEF ChainInv, BeforeChain, Entered, BankInv, CarriedInv, ToldWhenLoaded, Answered
<1>5. CASE l # None
  <2>1. /\ live' = live \ {l} /\ accounts' = accounts \ {char[l]}
        /\ queued' = IF char[l] \in accounts THEN Append(queued, Job("update", l)) ELSE queued
    BY <1>3, <1>5 DEF ClientDisconnect, RemovePlayer
  <2>2. l \in live /\ l \in Logins /\ char[l] \in Characters
    BY <1>3, <1>5 DEF IInv, IndexesAgree, CharInv, TypeOK
  <2>3. \A d \in live' : char[d] \in accounts => char[d] \in accounts'
    <3>1. \A d \in live : char[d] = char[l] => d = l
      BY <2>2 DEF IInv, TypeOK, IndexesAgree
    <3> QED BY <2>1, <3>1
  <2>4. Entered(l)
    BY <2>2, WorldAssumption DEF Entered, ChainInv
  <2>5. Q!OncePerJob' /\ Present' \in {Present, Present \cup {Job("update", l)}}
    <3>1. CASE queued' = queued
      BY <1>1, <3>1, QueueStays DEF ChainInv
    <3>2. CASE queued' = Append(queued, Job("update", l))
      <4>1. Job("update", l) \in Jobs \ Present
        BY <2>2, JobType DEF ChainInv
      <4> QED BY <1>1, <3>2, <4>1, QueueGrows DEF ChainInv, IInv, TypeOK
    <3> QED BY <2>1, <3>1, <3>2
  <2>6. \A d \in Logins : \A k : Job(k, d) \in Present' =>
          Job(k, d) \in Present \/ (k = "update" /\ d = l)
    BY <2>5, JobsDiffer
  <2>7. \A k \in Chain : k # "update"
    BY DEF Chain
  <2>8. ChainInv'
    <3>1. \A d \in Logins : (BeforeChain(d)' <=> BeforeChain(d)) /\ (Entered(d)' <=> Entered(d))
      BY <1>1 DEF BeforeChain, Entered
    <3> QED BY <1>1, <1>2, <2>1, <2>4, <2>5, <2>6, <2>7, <3>1, AfterType DEF ChainInv
  <2>9. BankInv'
    BY <1>1, <1>2, <2>1, <2>3, <2>6 DEF BankInv, IInv, TypeOK
  <2>10. CarriedInv'
    BY <1>1, <1>2, <2>1, <2>5 DEF CarriedInv
  <2> QED BY <1>1, <2>8, <2>9, <2>10 DEF ToldWhenLoaded, Answered
<1> QED BY <1>4, <1>5

\* OnCommandBankCreateAccount: a player whose account is not there has queued
\* no "insert" yet, and now has the account.
LEMMA BankLoadStep ==
  ASSUME IInv, LoadInv, NEW c \in Clients, BankCreateAccount(c)
  PROVE  LoadInv'
<1> USE DEF LoadInv
<1>0. PICK l \in Logins : l = bySocket[c] /\ l \in live
  BY DEF BankCreateAccount, IInv, TypeOK, IndexesAgree
<1>1. /\ char[l] \notin accounts
      /\ accounts' = accounts \cup {char[l]}
      /\ queued' = Append(queued, Job("insert", l))
      /\ UNCHANGED <<conn, char, entering, running, completed, done, failed, found, live,
                     dialling, told>>
  BY <1>0 DEF BankCreateAccount, network, players, places
<1>2. Answered' = Answered
  BY <1>1 DEF Answered
<1>3. Job("insert", l) \in Jobs \ Present
  BY <1>0, <1>1, JobType DEF BankInv
<1>4. Q!OncePerJob' /\ Present' = Present \cup {Job("insert", l)}
  BY <1>1, <1>3, QueueGrows DEF ChainInv, IInv, TypeOK
<1>5. \A d \in Logins : \A k : Job(k, d) \in Present' =>
        Job(k, d) \in Present \/ (k = "insert" /\ d = l)
  BY <1>4, JobsDiffer
<1>6. \A k \in Chain : k # "insert"
  BY DEF Chain
<1>7. ChainInv'
  <2>1. Entered(l)
    BY <1>0, WorldAssumption DEF Entered, ChainInv, IInv, CharInv
  <2>2. \A d \in Logins : (BeforeChain(d)' <=> BeforeChain(d)) /\ (Entered(d)' <=> Entered(d))
    BY <1>1 DEF BeforeChain, Entered
  <2> QED BY <1>1, <1>2, <1>4, <1>5, <1>6, <2>1, <2>2, AfterType DEF ChainInv
<1>8. BankInv'
  BY <1>1, <1>2, <1>5 DEF BankInv, IInv, TypeOK
<1>9. CarriedInv'
  BY <1>1, <1>2, <1>4 DEF CarriedInv
<1> QED BY <1>1, <1>7, <1>8, <1>9 DEF ToldWhenLoaded, Answered

\* A query that fails was not answered before, and one that is executed has
\* no answer yet: what the bank query finds is not in the game's maps yet.
LEMMA WorkerLoadStep ==
  ASSUME IInv, LoadInv, NEW w \in Workers, Fetch(w) \/ Execute(w) \/ Fail(w)
  PROVE  LoadInv'
<1> USE DEF LoadInv
<1>1. /\ UNCHANGED <<conn, char, entering, live, dialling, accounts, told>>
      /\ Q!Fetch(w) \/ Q!Complete(w) \/ Q!Fail(w)
  BY DEF Fetch, Execute, Fail, network, players, places
<1>2. /\ Q!OncePerJob' /\ Present' = Present
      /\ running[w] # None => running[w] \in Jobs \ done
  BY <1>1, QueueMoves DEF IInv, TypeOK, ChainInv
<1>3. Answered' = Answered /\ failed' \subseteq done'
  BY <1>2 DEF Fetch, Execute, Fail, Q!Fetch, Q!Complete, Q!Fail, Answered, ChainInv
<1>4. ChainInv'
  BY <1>1, <1>2, <1>3 DEF ChainInv, BeforeChain, Entered
<1>5. \A c \in Logins : c \in found' => c \in found \/ Job("bank", c) \notin Answered
  <2>1. CASE Execute(w)
    <3>1. /\ running[w] \in Jobs \ done
          /\ found' \subseteq found \/ (running[w].kind = "bank"
                                        /\ found' = found \cup {running[w].player})
      BY <1>2, <2>1 DEF Execute, Q!Complete
    <3>2. running[w] = Job(running[w].kind, running[w].player)
      BY <3>1, JobIsJob
    <3> QED BY <3>1, <3>2 DEF Answered
  <2>2. CASE Fetch(w) \/ Fail(w)
    BY <2>2 DEF Fetch, Fail
  <2> QED BY <2>1, <2>2
<1>6. BankInv'
  BY <1>1, <1>2, <1>3, <1>5 DEF BankInv, IInv, TypeOK
<1>7. CarriedInv'
  BY <1>1, <1>2, <1>3 DEF CarriedInv
<1> QED BY <1>1, <1>3, <1>4, <1>6, <1>7 DEF ToldWhenLoaded, Answered

\* A result of the chain is answered, and only then the next query is queued.
LEMMA ResultLoadStep ==
  ASSUME IInv, LoadInv, HandleResult
  PROVE  LoadInv'
<1> USE DEF LoadInv
<1> DEFINE h == Head(completed)
           k == h.kind
           c == h.player
<1>1. /\ completed # <<>> /\ completed' = Tail(completed) /\ done' = done \cup {h}
      /\ UNCHANGED <<conn, char, entering, running, failed, found, live, dialling>>
  BY DEF HandleResult, TakeResult, network, players, places
<1>2. h \in Jobs /\ h = Job(k, c) /\ c \in Logins /\ k \in Chain \cup {"insert", "update"}
      /\ Q!In(h, completed)
  <2>1. h \in Jobs
    BY <1>1 DEF IInv, TypeOK, Q!TypeOK
  <2> QED BY <1>1, <2>1, JobIsJob, InTail DEF IInv, TypeOK, Q!TypeOK
<1>3. Once(queued, running, completed, done) /\ completed \in Seq(Jobs) /\ queued \in Seq(Jobs)
  BY PlacedIsPresent DEF ChainInv, IInv, TypeOK, Q!TypeOK
<1>4. /\ Once(queued, running, completed', done') /\ h \notin done
      /\ \A j : Placed(j, queued, running, completed', done') <=>
                Placed(j, queued, running, completed, done)
  BY <1>1, <1>3, OnceTake
<1>5. Answered' = Answered \cup {h} /\ failed' \subseteq done'
  BY <1>1, <1>4 DEF Answered, ChainInv
<1>6. /\ Q!OncePerJob' <=> Once(queued', running', completed', done')
      /\ Present' = {j \in Jobs : Placed(j, queued', running', completed', done')}
  BY DEF Q!OncePerJob, Once, Present, Q!Fresh, Placed
<1>7. h \in Present
  BY <1>2, PlacedIsPresent DEF Placed
<1>8. CASE k \in Chain \ {"ports"}
  <2> DEFINE n == Job(After[k], c)
  <2>1. /\ queued' = Append(queued, n) /\ UNCHANGED told
        /\ accounts' = IF k = "bank" /\ c \in found THEN accounts \cup {char[c]} ELSE accounts
    BY <1>8 DEF HandleResult, Load
  <2>2. n \in Jobs \ Present
    <3>1. h \notin Answered
      BY <1>4 DEF Answered
    <3> QED BY <1>2, <1>8, <3>1, AfterType, JobType DEF ChainInv
  <2>3. ~Placed(n, queued, running, completed', done')
    BY <1>4, <2>2, PlacedIsPresent
  <2>4. /\ Once(queued', running', completed', done')
        /\ \A j : Placed(j, queued', running', completed', done') <=>
                  Placed(j, queued, running, completed', done') \/ j = n
    <3>1. n \in Jobs
      BY <2>2
    <3> HIDE DEF n
    <3>2. /\ Once(Append(queued, n), running, completed', done')
          /\ \A j : Placed(j, Append(queued, n), running, completed', done') <=>
                    Placed(j, queued, running, completed', done') \/ j = n
      BY <1>3, <1>4, <2>3, <3>1, OnceAppend
    <3> QED BY <1>1, <2>1, <3>2
  <2>5. Present' = Present \cup {n}
    BY <1>4, <1>6, <2>2, <2>4, PlacedIsPresent
  <2>6. \A d \in Logins : \A l : Job(l, d) \in Present' =>
          Job(l, d) \in Present \/ (l = After[k] /\ d = c)
    BY <2>5, JobsDiffer
  <2>7. /\ After[k] \in Chain /\ After[k] \notin {"computer", "insert", "update"}
        /\ \A l \in Chain \ {"ports"} : After[l] = After[k] => l = k
    BY <1>8, ChainOrder DEF Chain
  <2>8. ~BeforeChain(c)
    BY <1>2, <1>7, <1>8 DEF ChainInv
  <2>9. ChainInv'
    <3>1. \A d \in Logins : (BeforeChain(d)' <=> BeforeChain(d)) /\ (Entered(d)' <=> Entered(d))
      BY <1>1 DEF BeforeChain, Entered
    <3>2. \A d \in Logins : BeforeChain(d)' => \A l \in Chain : Job(l, d) \notin Present'
      BY <2>6, <2>8, <3>1 DEF ChainInv
    <3>3. \A d \in Logins, l \in Chain \ {"ports"} :
            Job(After[l], d) \in Present' => Job(l, d) \in Answered'
      BY <1>2, <1>5, <2>6, <2>7 DEF ChainInv
    <3> QED BY <1>1, <1>5, <1>6, <2>1, <2>4, <2>6, <2>7, <3>1, <3>2, <3>3 DEF ChainInv
  <2>10. BankInv'
    <3>1. \A d \in live : Job("bank", d) \in Answered' /\ d \in found =>
            Job("bank", d) \in Answered \/ char[d] \in accounts'
      BY <1>2, <1>5, <2>1, JobsDiffer
    <3> QED BY <1>1, <2>1, <2>6, <2>7, <3>1 DEF BankInv, IInv, TypeOK
  <2>11. ToldWhenLoaded'
    BY <1>5, <2>1 DEF ToldWhenLoaded, Answered
  <2>12. CarriedInv'
    <3>1. n \in Present' \ Answered'
      <4>1. n \notin done /\ n # h
        BY <1>2, <1>7, <2>2, <2>5 DEF Present, Q!Fresh
      <4> QED BY <1>5, <2>5, <4>1 DEF Answered
    <3>2. \A d \in live \ {dialling}, l \in Chain :
            Job(l, d) \in Present \ Answered /\ d # c => Job(l, d) \in Present' \ Answered'
      BY <1>2, <1>5, <2>5, JobsDiffer
    <3> QED BY <1>1, <2>1, <2>7, <3>1, <3>2 DEF CarriedInv
  <2> QED BY <2>9, <2>10, <2>11, <2>12
<1>9. CASE k = "ports"
  <2>1. told' = told \cup {c} /\ UNCHANGED <<queued, accounts>>
    BY <1>9 DEF HandleResult, Loaded
  <2>2. Q!OncePerJob' /\ Present' = Present
    BY <1>1, <1>4, <1>6, <2>1, PlacedIsPresent
  <2>3. ChainInv'
    BY <1>1, <1>5, <2>1, <2>2 DEF ChainInv, BeforeChain, Entered
  <2>4. BankInv'
    BY <1>1, <1>2, <1>5, <1>9, <2>1, <2>2, JobsDiffer DEF BankInv
  <2>5. \A l \in Chain : Job(l, c) \in Answered'
    BY <1>2, <1>5, <1>7, <1>9, ChainAnswered DEF ChainInv
  <2>6. ToldWhenLoaded'
    BY <1>5, <2>1, <2>5 DEF ToldWhenLoaded, Answered
  <2>7. CarriedInv'
    BY <1>1, <1>2, <1>5, <2>1, <2>2, JobsDiffer DEF CarriedInv
  <2> QED BY <2>3, <2>4, <2>6, <2>7
<1>10. CASE k \notin Chain
  <2>1. UNCHANGED <<queued, accounts, told>>
    BY <1>10 DEF HandleResult, Chain
  <2>2. Q!OncePerJob' /\ Present' = Present
    BY <1>1, <1>4, <1>6, <2>1, PlacedIsPresent
  <2>3. ChainInv'
    BY <1>1, <1>5, <2>1, <2>2 DEF ChainInv, BeforeChain, Entered
  <2>4. k # "bank"
    BY <1>10 DEF Chain
  <2>5. BankInv'
    BY <1>1, <1>2, <1>5, <2>1, <2>2, <2>4, JobsDiffer DEF BankInv
  <2>6. CarriedInv'
    BY <1>1, <1>2, <1>5, <1>10, <2>1, <2>2, JobsDiffer DEF CarriedInv
  <2> QED BY <1>5, <2>1, <2>3, <2>5, <2>6 DEF ToldWhenLoaded, Answered
<1> QED BY <1>8, <1>9, <1>10

\* Steps that have nothing to do with a query.
LEMMA OtherLoadStep ==
  ASSUME LoadInv, Deliver \/ UNCHANGED vars
  PROVE  LoadInv'
<1>1. UNCHANGED <<conn, char, entering, queued, running, completed, done, failed, found, live,
                  dialling, accounts, told>>
  BY DEF Deliver, vars, network, db, players, places
<1>2. Q!OncePerJob' /\ Present' = Present /\ Answered' = Answered
  BY <1>1, QueueStays DEF LoadInv, ChainInv, Answered
<1> QED BY <1>1, <1>2
        DEF LoadInv, ChainInv, BeforeChain, Entered, BankInv, CarriedInv, ToldWhenLoaded, Answered

LEMMA LoadStep ==
  ASSUME IInv, LoadInv, [Next]_vars
  PROVE  LoadInv'
<1>1. ASSUME Environment PROVE LoadInv'
  BY <1>1, OutsideLoadStep
<1>2. ASSUME SocketThread PROVE LoadInv'
  BY <1>2, LoggedInLoadStep, DisconnectLoadStep, BankLoadStep, DialLoadStep DEF SocketThread
<1>3. ASSUME NEW w \in Workers, Fetch(w) \/ Execute(w) \/ Fail(w) PROVE LoadInv'
  BY <1>3, WorkerLoadStep
<1> QED BY <1>1, <1>2, <1>3, ResultLoadStep, OtherLoadStep DEF Next

LEMMA LoadInit == Init => LoadInv
<1> SUFFICES ASSUME Init PROVE LoadInv
  OBVIOUS
<1>1. /\ queued = <<>> /\ completed = <<>> /\ done = {} /\ failed = {} /\ live = {}
      /\ told = {} /\ entering = {} /\ running = [w \in Workers |-> None]
  BY DEF Init, Q!Init
<1>2. Q!OncePerJob
  BY <1>1 DEF Q!OncePerJob, Q!NoDuplicates, Q!In
<1>3. Present = {}
  BY <1>1, NoneIsNoWorldJob DEF Present, Q!Fresh, Q!In
<1> QED BY <1>1, <1>2, <1>3 DEF LoadInv, ChainInv, BankInv, CarriedInv, ToldWhenLoaded

LEMMA LoadInvHolds == Spec => [](IInv /\ LoadInv)
BY InitHolds, LoadInit, Step, LoadStep, PTL DEF Spec

\* OnDBJob_LoadCharacterPorts tells a client that its character is in the game
\* after all five queries were answered, for any number of workers that may
\* overtake each other and any number of queries that fail.
THEOREM PlayersAreLoaded == Spec => []ToldWhenLoaded
<1>1. LoadInv => ToldWhenLoaded
  BY DEF LoadInv
<1> QED BY <1>1, LoadInvHolds, PTL

\* Whatever a player's earlier session left in the queues, and whenever he
\* creates it, his account stays in m_bankAccounts while he plays.
THEOREM PlayersKeepAccounts == Spec => []AccountsStay
<1>1. ASSUME IInv, LoadInv PROVE AccountsStay
  <2>1. \A l \in told : Job("bank", l) \in Answered
    BY <1>1 DEF LoadInv, ToldWhenLoaded, Answered, Chain
  <2>2. \A l \in Logins : ~Q!Fresh(Job("insert", l)) => Job("insert", l) \in Present
    BY JobType DEF Present
  <2>3. live \subseteq Logins
    BY <1>1 DEF IInv, TypeOK
  <2> QED BY <1>1, <2>1, <2>2, <2>3 DEF LoadInv, BankInv, AccountsStay
<1> QED BY <1>1, LoadInvHolds, PTL

\* The chain of queries of a player who is not answered for has not broken,
\* for any number of workers, failures, and players who leave.
THEOREM LoadsAreCarriedOn == Spec => []LoadIsCarriedOn
<1>1. ASSUME IInv, LoadInv PROVE LoadIsCarriedOn
  <2>1. ASSUME NEW j \in Present \ Answered
        PROVE  UnderWay(j) \/ j \in failed
    BY <2>1 DEF Present, Answered, Q!Fresh, UnderWay
  <2> QED BY <1>1, <2>1 DEF LoadInv, CarriedInv, LoadIsCarriedOn
<1> QED BY <1>1, LoadInvHolds, PTL
=============================================================================
