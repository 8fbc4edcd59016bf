-------------------------------- MODULE World --------------------------------
(***************************************************************************)
(* Players entering and leaving the world service, FCLogicWorld.  The      *)
(* socket thread handles the packets the router forwards, the result       *)
(* thread handles the results of the jobs that load a character one after  *)
(* the other, and the event thread delivers what they emit.  A player      *)
(* object is passed from job to job as a pointer.  The database layer is   *)
(* the abstract JobQueue.                                                  *)
(***************************************************************************)
EXTENDS Naturals, Sequences, FiniteSets

CONSTANTS
  Clients,    \* client sockets on the router
  Logins,     \* names for the selections of a character
  SocketOf,   \* the client socket of each
  Characters, \* rows of fc_characters
  Home,       \* the country_id and city_id of each character
  Countries,  \* the ids of fc_countries
  Cities,     \* the ids of fc_cities
  Hosts,      \* the last two numbers of an address
  Residue,    \* what the uninitialised address of a new player may be
  HasAccount, \* the characters with a row in fc_characterbankaccounts at start
  Workers,    \* the database workers
  None,       \* a null pointer
  MaxSelect,  \* bound: selections
  MaxFail     \* bound: jobs that fail

ASSUME WorldAssumption ==
  /\ None \notin Logins \cup Characters
  /\ SocketOf \in [Logins -> Clients]
  /\ Home \in [Characters -> [country : Nat, city : Nat]]
  /\ HasAccount \subseteq Characters
  /\ MaxSelect \in Nat /\ MaxFail \in Nat

\* A player object is named by the login that creates it.
\* A queued query and the player it is for; "insert" and "update" have no
\* handler.
Chain == {"computer", "items", "missions", "bank", "ports"}
Jobs  == [kind : Chain \cup {"insert", "update"}, player : Logins]
Job(k, l) == [kind |-> k, player |-> l]

ASSUME NoneIsNoWorldJob == None \notin Jobs

\* The query each result leads to.
After == [computer |-> "items", items |-> "missions", missions |-> "bank", bank |-> "ports"]

VARIABLES
  conn,      \* per client: open, gone, or gone and its notice handled
  char,      \* the character of each login
  entering,  \* the logins whose FCSMSG_CHARACTER_LOGGEDIN is on its way
  queued, running, completed, done, \* the database layer, as in JobQueue
  failed,    \* the jobs that failed
  rows,      \* the characters with a row in fc_characterbankaccounts
  found,     \* the players whose bank query found a row
  live,      \* the Player objects that exist
  byID,      \* m_mapIDs and m_mapAliases
  bySocket,  \* m_mapClientSockets
  targets,   \* m_mapEventCodeTargets, the same for both player events
  addr,      \* m_ip of each player
  net,       \* m_mapNetConnections: the character at each address
  dialling,  \* the player the socket thread looks for an address for
  accounts,  \* m_bankAccounts
  told,      \* the logins that were answered with CharacterSelectSucceeded
  events,    \* m_eventQueue
  crashed    \* the process has died of a dangling pointer

network == <<conn, char, entering>>
db      == <<queued, running, completed, done, failed, rows, found>>
players == <<live, byID, bySocket, targets>>
places  == <<addr, net, dialling>>
vars    == <<network, db, players, places, accounts, told, events, crashed>>

Q == INSTANCE JobQueue

\* A country and a city have each a number of their own in an address.
Addresses == {<<a, b, h>> : a \in Countries, b \in Cities, h \in Hosts}
Places    == Addresses \cup Residue

Init ==
  /\ conn = [c \in Clients |-> "open"]
  /\ char = [l \in Logins |-> None]
  /\ entering = {}
  /\ Q!Init
  /\ failed = {} /\ rows = HasAccount /\ found = {}
  /\ live = {} /\ targets = {}
  /\ bySocket = [c \in Clients |-> None]
  /\ byID = [p \in Characters |-> None]
  /\ addr \in [Logins -> Residue]
  /\ net = [a \in Places |-> None]
  /\ dialling = None
  /\ accounts = {}
  /\ told = {}
  /\ events = <<>>
  /\ crashed = FALSE

\* A thread that uses a deleted player may bring the process down.
Touch(l) == \E b \in IF l \in live THEN {FALSE} ELSE BOOLEAN : crashed' = b

-----------------------------------------------------------------------------
(* The clients, the router and the authentication service                  *)

\* OnDBJob_LoginCharacter of the authentication service reports a selection.
\* A client may make several, of one character or of many, and one that
\* another client has made too.
Select(l, p) ==
  /\ char[l] = None /\ Cardinality({m \in Logins : char[m] # None}) < MaxSelect
  /\ char' = [char EXCEPT ![l] = p]
  /\ entering' = entering \cup {l}
  /\ UNCHANGED <<conn, db, players, places, accounts, told, events, crashed>>

\* A client's connection closes.  The router's notice and a packet of the
\* authentication service reach the world service in either order.
Leave(c) ==
  /\ conn[c] = "open"
  /\ conn' = [conn EXCEPT ![c] = "gone"]
  /\ UNCHANGED <<char, entering, db, players, places, accounts, told, events, crashed>>

-----------------------------------------------------------------------------
(* The socket thread                                                       *)

\* CreatePlayer adds the player to every map, over what its socket led to.
CreatePlayer(l) ==
  /\ live' = live \cup {l}
  /\ byID' = [byID EXCEPT ![char[l]] = l]
  /\ bySocket' = [bySocket EXCEPT ![SocketOf[l]] = l]
  /\ targets' = targets \cup {l}

\* Mutant of CharacterLoggedIn: the player is not looked for first.
LoggedInUnseen(l) ==
  /\ l \in entering /\ dialling = None
  /\ entering' = entering \ {l}
  /\ CreatePlayer(l)
  /\ dialling' = l
  /\ UNCHANGED <<conn, char, db, addr, net, accounts, told, events, crashed>>

\* OnCommandCharacterLoggedIn up to the loop.  A player who is there already
\* gets the same RouterSocket again and nothing else.
CharacterLoggedIn(l) ==
  /\ l \in entering /\ dialling = None
  /\ entering' = entering \ {l}
  /\ IF byID[char[l]] # None
     THEN UNCHANGED <<players, dialling>>
     ELSE CreatePlayer(l) /\ dialling' = l
  /\ UNCHANGED <<conn, char, db, addr, net, accounts, told, events, crashed>>

\* CreatePlayer passes the country where the constructor of Player takes the
\* city: GenerateIPAddress looks up each id in the other table.  If either is
\* not there it leaves the address as it was.
Generated(l) ==
  LET home == Home[char[l]]
  IN IF home.city \in Countries /\ home.country \in Cities
     THEN {<<home.city, home.country, h>> : h \in Hosts}
     ELSE {addr[l]}

\* Mutant of AddToNetwork: an address that is taken is taken over.
AddToNetworkAnyway(a) ==
  /\ net' = [net EXCEPT ![a] = char[dialling]]
  /\ queued' = Append(queued, Job("computer", dialling))
  /\ dialling' = None

\* The loop ends when AddToNetwork finds the address free.
AddToNetwork(a) ==
  IF net[a] = None
  THEN /\ net' = [net EXCEPT ![a] = char[dialling]]
       /\ queued' = Append(queued, Job("computer", dialling))
       /\ dialling' = None
  ELSE UNCHANGED <<net, queued, dialling>>

\* One round of the loop.
Dial ==
  /\ dialling # None
  /\ \E a \in Generated(dialling) : /\ addr' = [addr EXCEPT ![dialling] = a]
                                    /\ AddToNetwork(a)
  /\ UNCHANGED <<network, running, completed, done, failed, rows, found, players,
                 accounts, told, events, crashed>>

\* Mutant of RemovePlayer: the client's socket still leads to the player.
RemovePlayerKeepsSocket(l) ==
  /\ live' = live \ {l}
  /\ byID' = [byID EXCEPT ![char[l]] = None]
  /\ targets' = targets \ {l}
  /\ UNCHANGED bySocket

\* PlayerManagerBase::RemovePlayer, with the destructor of Player.
RemovePlayer(l) ==
  /\ live' = live \ {l}
  /\ byID' = [byID EXCEPT ![char[l]] = None]
  /\ bySocket' = [bySocket EXCEPT ![SocketOf[l]] = None]
  /\ targets' = targets \ {l}

\* OnCommandClientDisconnect, with the player the socket leads to.  The
\* address stays in the network.
ClientDisconnect(c) ==
  /\ conn[c] = "gone" /\ dialling = None
  /\ conn' = [conn EXCEPT ![c] = "noticed"]
  /\ LET l == bySocket[c] IN
     IF l = None
     THEN UNCHANGED <<queued, players, accounts, events>>
     ELSE /\ events' = Append(events, [type |-> "LoggedOut", source |-> None])
          /\ queued' = IF char[l] \in accounts THEN Append(queued, Job("update", l))
                                               ELSE queued
          /\ accounts' = accounts \ {char[l]}
          /\ RemovePlayer(l)
  /\ UNCHANGED <<char, entering, running, completed, done, failed, rows, found,
                 places, told, crashed>>

\* OnCommandBankCreateAccount, whatever of the player was loaded.
BankCreateAccount(c) ==
  /\ conn[c] # "noticed" /\ dialling = None
  /\ LET l == bySocket[c] IN
     /\ l # None /\ char[l] \notin accounts
     /\ accounts' = accounts \cup {char[l]}
     /\ queued' = Append(queued, Job("insert", l))
  /\ UNCHANGED <<network, running, completed, done, failed, rows, found, players,
                 places, told, events, crashed>>

-----------------------------------------------------------------------------
(* The database                                                            *)

Fetch(w) ==
  /\ Q!Fetch(w)
  /\ UNCHANGED <<network, failed, rows, found, players, places, accounts, told,
                 events, crashed>>

\* A worker has executed its query: what the bank query finds is decided here.
Execute(w) ==
  /\ Q!Complete(w)
  /\ LET l == running[w].player
         p == char[l]
     IN /\ rows' = IF running[w].kind = "insert" THEN rows \cup {p} ELSE rows
        /\ found' = IF running[w].kind = "bank" /\ p \in rows THEN found \cup {l} ELSE found
  /\ UNCHANGED <<network, failed, players, places, accounts, told, events, crashed>>

Fail(w) ==
  /\ Cardinality(failed) < MaxFail
  /\ Q!Fail(w)
  /\ failed' = failed \cup {running[w]}
  /\ UNCHANGED <<network, rows, found, players, places, accounts, told, events, crashed>>

-----------------------------------------------------------------------------
(* The result thread                                                       *)

\* GetNextCompletedJob
TakeResult ==
  /\ completed # <<>>
  /\ completed' = Tail(completed)
  /\ done' = done \cup {Head(completed)}

\* Mutant of Load: the missions are left out.
LoadSkips(l, k) ==
  /\ Touch(l)
  /\ queued' = Append(queued, Job(IF k = "items" THEN "bank" ELSE After[k], l))
  /\ accounts' = IF k = "bank" /\ l \in found THEN accounts \cup {char[l]} ELSE accounts
  /\ UNCHANGED <<told, events>>

\* Mutant of Load: the handler returns if the query found nothing.
LoadOnlyRows(l, k) ==
  /\ Touch(l)
  /\ IF k = "bank" /\ l \notin found
     THEN UNCHANGED <<queued, accounts>>
     ELSE /\ queued' = Append(queued, Job(After[k], l))
          /\ accounts' = IF k = "bank" THEN accounts \cup {char[l]} ELSE accounts
  /\ UNCHANGED <<told, events>>

\* OnDBJob_LoadCharacterComputer, Items, Missions and BankAccount fill in the
\* player and queue the next query.
Load(l, k) ==
  /\ Touch(l)
  /\ queued' = Append(queued, Job(After[k], l))
  /\ accounts' = IF k = "bank" /\ l \in found THEN accounts \cup {char[l]} ELSE accounts
  /\ UNCHANGED <<told, events>>

\* Mutant of Loaded: the event is emitted by the character's id.
LoadedFromCharacter(l) ==
  /\ Touch(l)
  /\ told' = told \cup {l}
  /\ events' = Append(events, [type |-> "LoggedIn", source |-> char[l]])
  /\ UNCHANGED <<queued, accounts>>

\* OnDBJob_LoadCharacterPorts: the client may go on.
Loaded(l) ==
  /\ Touch(l)
  /\ told' = told \cup {l}
  /\ events' = Append(events, [type |-> "LoggedIn", source |-> l])
  /\ UNCHANGED <<queued, accounts>>

HandleResult ==
  /\ TakeResult
  /\ LET k == Head(completed).kind
         l == Head(completed).player
     IN CASE k \in Chain \ {"ports"} -> Load(l, k)
          [] k = "ports" -> Loaded(l)
          [] OTHER -> UNCHANGED <<queued, accounts, told, events, crashed>>
  /\ UNCHANGED <<network, running, failed, rows, found, players, places>>

-----------------------------------------------------------------------------
(* The event thread                                                        *)

\* ProcessEvent.  A target asks the source for its type; the pop comes last.
Deliver ==
  /\ events # <<>>
  /\ events' = Tail(events)
  /\ IF Head(events).source # None /\ targets # {}
     THEN Touch(Head(events).source)
     ELSE UNCHANGED crashed
  /\ UNCHANGED <<network, db, players, places, accounts, told>>

-----------------------------------------------------------------------------
Environment ==
  \/ \E c \in Clients : Leave(c)
  \/ \E l \in Logins, p \in Characters : Select(l, p)

SocketThread ==
  \/ \E l \in Logins : CharacterLoggedIn(l)
  \/ Dial
  \/ \E c \in Clients : ClientDisconnect(c) \/ BankCreateAccount(c)

Next ==
  /\ ~crashed
  /\ \/ Environment
     \/ SocketThread
     \/ \E w \in Workers : Fetch(w) \/ Execute(w) \/ Fail(w)
     \/ HandleResult
     \/ Deliver

Spec == Init /\ [][Next]_vars

\* The loop runs on, and rand() comes to every host in the end.
Fairness == WF_vars(~crashed /\ Dial /\ dialling' = None)
FairSpec == Spec /\ Fairness

-----------------------------------------------------------------------------
(* Properties *)

\* The type of every variable.
TypeOK ==
  /\ conn \in [Clients -> {"open", "gone", "noticed"}]
  /\ char \in [Logins -> Characters \cup {None}]
  /\ Q!TypeOK
  /\ failed \subseteq Jobs
  /\ rows \subseteq Characters /\ accounts \subseteq Characters
  /\ \A s \in {entering, found, live, targets, told} : s \subseteq Logins
  /\ byID \in [Characters -> Logins \cup {None}]
  /\ bySocket \in [Clients -> Logins \cup {None}]
  /\ addr \in [Logins -> Places]
  /\ net \in [Places -> Characters \cup {None}]
  /\ dialling \in Logins \cup {None}
  /\ events \in Seq([type : {"LoggedIn", "LoggedOut"}, source : Logins \cup {None}])
  /\ crashed \in BOOLEAN

\* CreatePlayer, RemovePlayer and the destructor of Player keep the indexes in
\* step.  The event targets are the players that exist, each is found by its
\* id, and a socket leads to a player of its own that exists: to one as long
\* as it has any, although a second character over one socket takes the place
\* of the first, and although that one outlives the disconnect.
IndexesAgree ==
  /\ targets = live
  /\ \A l \in Logins, p \in Characters : byID[p] = l <=> l \in live /\ char[l] = p
  /\ \A c \in Clients : bySocket[c] # None =>
       bySocket[c] \in live /\ SocketOf[bySocket[c]] = c
  /\ \A l \in live : bySocket[SocketOf[l]] = None => conn[SocketOf[l]] = "noticed"

\* The loop around GenerateIPAddress and AddToNetwork gives every player an
\* address at which the network finds this character and no other player,
\* although the entries of earlier logins are never removed.
AddressesAreOwn ==
  \A l \in live \ {dialling} :
    /\ net[addr[l]] = char[l]
    /\ \A m \in live \ {dialling, l} : addr[m] # addr[l]

\* A login is answered only after the handlers of all five queries were
\* called, each on a result: the player's computer, items, missions, account
\* and ports are there when the client asks for them.
ToldWhenLoaded ==
  \A l \in told, k \in Chain : Job(k, l) \in done \ failed

\* A player keeps his bank account, the one that was loaded or the one he
\* created while it was being loaded: neither the logout of an earlier session
\* of the character nor a late result takes it out of m_bankAccounts.
AccountsStay ==
  \A l \in live :
    (l \in told /\ l \in found) \/ ~Q!Fresh(Job("insert", l)) => char[l] \in accounts

UnderWay(j) == Q!In(j, queued) \/ Q!In(j, completed) \/ \E w \in Workers : running[w] = j

\* The chain of queries does not break between the threads: of a player who
\* has an address and was not answered for, one query is queued, at a worker
\* or waiting to be handled, unless one of them failed.
LoadIsCarriedOn ==
  \A l \in live \ {dialling} :
    l \in told \/ \E k \in Chain : UnderWay(Job(k, l)) \/ Job(k, l) \in failed

\* The socket thread finds an address for every player: the country and the
\* city of a character are rows of the world's tables (CreatePlayer names the
\* arguments "character's country" and "character's city").
AddressIsFound == \A l \in Logins : dialling = l ~> dialling # l \/ crashed
=============================================================================
