-------------------------------- MODULE Auth --------------------------------
(***************************************************************************)
(* The authentication service, FCLogicAuth.  The socket thread handles the *)
(* packets the router forwards and queues database jobs; the result thread *)
(* handles the jobs' results.  Both work on the two maps of accounts; a    *)
(* step is a lookup, an insertion or an erasure.  The database layer is    *)
(* the abstract JobQueue.                                                  *)
(***************************************************************************)
EXTENDS Naturals, Sequences, FiniteSets

CONSTANTS
  Clients,     \* client sockets on the router; the router does not reuse them
  Accounts,    \* rows of fc_accounts
  Characters,  \* rows of fc_characters
  Owner,       \* the account of each character
  Workers,     \* the database workers
  None,        \* a null pointer, no row
  MaxSend,     \* bound: packets of a client
  MaxFail      \* bound: jobs that fail

ASSUME AuthAssumption ==
  /\ MaxSend \in Nat /\ MaxFail \in Nat
  /\ Owner \in [Characters -> Accounts]
  /\ None \notin Clients \cup Accounts \cup Characters

\* A queued query: its arguments, its context's clientSocket, and the number
\* of the packet it answers.
LoadJobs ==
  [kind : {"load_account"}, client : Clients, n : 1 .. MaxSend,
   account : Accounts \cup {None}, char : {None}]
LoginJobs ==
  [kind : {"login_character"}, client : Clients, n : 1 .. MaxSend,
   account : Accounts, char : Characters]
LogoutJobs ==
  [kind : {"logout_character"}, client : Clients, n : {0},
   account : Accounts, char : Characters \cup {None}]
Jobs == LoadJobs \cup LoginJobs \cup LogoutJobs

ASSUME NoneIsNoJob == None \notin Jobs

\* An Account object is named by the job whose result creates it; its m_nID
\* and m_clientSocket are the job's account and client for good.
Objects == {j \in LoadJobs : j.account # None}

VARIABLES
  conn,      \* per client: connected, gone, or gone and its notice handled
  sent,      \* how many of its packets the service has handled
  queued, running, completed, done, \* the database layer, as in JobQueue
  failed,    \* how many jobs failed
  marked,    \* the characters whose is_logged_in is 1 in the database
  live,      \* the Account objects that exist
  char,      \* m_currentCharacterID of each
  loggedIn,  \* m_mapLoggedInAccounts
  bySocket,  \* m_mapSocketToAccount
  granted,   \* the pairs <<client, account>> that were sent LoginSuccess
  missed,    \* history: the accounts whose entry a login looked for and missed
  sockPc,    \* what the socket thread does next
  sockObj,   \* pAccount of AccountLogout
  dbPc,      \* what the result thread does next
  dbJob,     \* the job whose result it handles
  dbObj      \* pAccount of OnDBJob_LoginCharacter

clients  == <<conn, sent>>
jobs     == <<queued, running, completed, done>>
database == <<failed, marked>>
objects  == <<live, char>>
maps     == <<loggedIn, bySocket>>
socket   == <<sockPc, sockObj>>
result   == <<dbPc, dbJob, dbObj>>
history  == <<granted, missed>>
vars     == <<clients, jobs, database, objects, maps, history, socket, result>>

Queue == INSTANCE JobQueue

Init ==
  /\ conn = [c \in Clients |-> "up"]
  /\ sent = [c \in Clients |-> 0]
  /\ Queue!Init
  /\ failed = 0
  /\ marked = {}
  /\ live = {}
  /\ char = [o \in Objects |-> None]
  /\ loggedIn = [a \in Accounts |-> None]
  /\ bySocket = [c \in Clients |-> None]
  /\ granted = {}
  /\ missed = {}
  /\ sockPc = "idle" /\ sockObj = None
  /\ dbPc = "idle" /\ dbJob = None /\ dbObj = None

\* The possible outcomes of find.  The maps are searched without their
\* mutexes: while the other thread inserts or erases the entry of another key
\* the tree may hide this one.  (The entry that is being written is seen as it
\* was or as it will be, which is find before or after the write.)
Find(map, key, changing) ==
  {map[key]} \cup (IF changing THEN {None} ELSE {})

\* Where the two threads look: the socket thread may meet an insertion into
\* bySocket, the result thread an erasure.
FindSocket(c)   == Find(bySocket, c, dbPc = "map" /\ dbJob.client # c)
FindObject(c)   == Find(bySocket, c, sockPc = "unmap" /\ sockObj.client # c)
FindLoggedIn(a) == Find(loggedIn, a, sockPc = "erase" /\ sockObj.account # a)

Job(c, number, kind, a, ch) ==
  [kind |-> kind, client |-> c, n |-> number, account |-> a, char |-> ch]

-----------------------------------------------------------------------------
(* The socket thread. *)

\* The service handles a packet of client c; the router sends none after the
\* notice of its disconnect.
Handles(c) ==
  /\ sockPc = "idle"
  /\ conn[c] # "over"
  /\ sent[c] < MaxSend
  /\ sent' = [sent EXCEPT ![c] = @ + 1]

\* OnCommandLogin; the user name and the password select account a or no row.
Login(c, a) ==
  /\ Handles(c)
  /\ Queue!Submit(Job(c, sent'[c], "load_account", a, None))
  /\ UNCHANGED <<conn, database, objects, maps, history, socket, result>>

\* OnCommandSelectCharacter; the character is not compared with the account.
SelectCharacter(c, ch) ==
  /\ Handles(c)
  /\ \E o \in FindSocket(c) :
       IF o = None
       THEN UNCHANGED <<jobs, char>>
       ELSE /\ char' = [char EXCEPT ![o] = ch]
            /\ Queue!Submit(Job(c, sent'[c], "login_character", o.account, ch))
  /\ UNCHANGED <<conn, database, live, maps, history, socket, result>>

\* The client's connection ends.
Leave(c) ==
  /\ conn[c] = "up"
  /\ conn' = [conn EXCEPT ![c] = "gone"]
  /\ UNCHANGED <<sent, jobs, database, objects, maps, history, socket, result>>

\* OnCommandClientDisconnect, up to the call of AccountLogout.
ClientDisconnect(c) ==
  /\ sockPc = "idle"
  /\ conn[c] = "gone"
  /\ conn' = [conn EXCEPT ![c] = "over"]
  /\ \E o \in FindSocket(c) :
       IF o = None
       THEN UNCHANGED <<jobs, socket>>
       ELSE /\ Queue!Submit(Job(c, 0, "logout_character", o.account, char[o]))
            /\ sockObj' = o
            /\ sockPc' = "erase"
  /\ UNCHANGED <<sent, database, objects, maps, history, result>>

\* AccountLogout erases the account's entry, the socket's entry, and then
\* deletes the object.
EraseAccount ==
  /\ sockPc = "erase"
  /\ loggedIn' = [loggedIn EXCEPT ![sockObj.account] = None]
  /\ sockPc' = "unmap"
  /\ UNCHANGED <<clients, jobs, database, objects, bySocket, history, sockObj, result>>

\* Mutant of EraseSocket: the socket's entry stays.
EraseSocketNot ==
  /\ sockPc = "unmap"
  /\ sockPc' = "delete"
  /\ UNCHANGED <<clients, jobs, database, objects, maps, history, sockObj, result>>

EraseSocket ==
  /\ sockPc = "unmap"
  /\ bySocket' = [bySocket EXCEPT ![sockObj.client] = None]
  /\ sockPc' = "delete"
  /\ UNCHANGED <<clients, jobs, database, objects, loggedIn, history, sockObj, result>>

DeleteAccount ==
  /\ sockPc = "delete"
  /\ live' = live \ {sockObj}
  /\ char' = [char EXCEPT ![sockObj] = None]
  /\ sockPc' = "idle"
  /\ sockObj' = None
  /\ UNCHANGED <<clients, jobs, database, maps, history, result>>

-----------------------------------------------------------------------------
(* The database. *)

\* What the update of a query does to fc_characters.
Effect(j) ==
  LET rows == {ch \in Characters : ch = j.char /\ Owner[ch] = j.account}
  IN  CASE j.kind = "load_account"     -> marked
        [] j.kind = "login_character"  -> marked \cup rows
        [] j.kind = "logout_character" -> marked \ rows

Fetch(w) ==
  /\ Queue!Fetch(w)
  /\ UNCHANGED <<clients, database, objects, maps, history, socket, result>>

Complete(w) ==
  /\ Queue!Complete(w)
  /\ marked' = Effect(running[w])
  /\ UNCHANGED <<clients, failed, objects, maps, history, socket, result>>

\* A query fails before or after its update, or completes without a result
\* set because only its select failed: no handler is called in either case.
Fail(w) ==
  /\ failed < MaxFail
  /\ failed' = failed + 1
  /\ Queue!Fail(w)
  /\ marked' \in {marked, Effect(running[w])}
  /\ UNCHANGED <<clients, objects, maps, history, socket, result>>

-----------------------------------------------------------------------------
(* The result thread. *)

\* The handler goes on, or deletes its context and returns.
Continue(label) == dbPc' = label /\ UNCHANGED dbJob
Return == dbPc' = "idle" /\ dbJob' = None

\* HandleCompletedDBJob finds the handler; a logout has none.
Take ==
  /\ dbPc = "idle"
  /\ Queue!Take
  /\ LET j == Head(completed) IN
     CASE j.kind = "load_account"     -> dbPc' = "check" /\ dbJob' = j
       [] j.kind = "login_character"  -> dbPc' = "find" /\ dbJob' = j
       [] j.kind = "logout_character" -> UNCHANGED <<dbPc, dbJob>>
  /\ UNCHANGED <<clients, database, objects, maps, history, socket, dbObj>>

\* LoginSuccess is sent and the account will be entered.
Grant == /\ Continue("enter")
         /\ granted' = granted \cup {<<dbJob.client, dbJob.account>>}

\* Mutant of LoadAccount: the account is not looked up.
LoadAccountUnseen ==
  /\ dbPc = "check"
  /\ IF dbJob.account = None THEN Return /\ UNCHANGED granted ELSE Grant
  /\ UNCHANGED <<clients, jobs, database, objects, maps, missed, socket, dbObj>>

\* Mutant of LoadAccount: the account_id of a missing row is not tested.
LoadAccountUntested ==
  /\ dbPc = "check"
  /\ \/ dbJob.account = None /\ Grant
     \/ /\ dbJob.account # None
        /\ \E o \in FindLoggedIn(dbJob.account) :
             IF o # None THEN Return /\ UNCHANGED granted ELSE Grant
  /\ UNCHANGED <<clients, jobs, database, objects, maps, missed, socket, dbObj>>

\* OnDBJob_LoadAccount looks the account up and sends the response, which is
\* LoginSuccess only if no object was found.
LoadAccount ==
  /\ dbPc = "check"
  /\ \/ /\ dbJob.account = None
        /\ Return
        /\ UNCHANGED history
     \/ /\ dbJob.account # None
        /\ \E o \in FindLoggedIn(dbJob.account) :
             /\ IF o # None THEN Return /\ UNCHANGED granted ELSE Grant
             /\ missed' = IF o # loggedIn[dbJob.account]
                          THEN missed \cup {dbJob.account} ELSE missed
  /\ UNCHANGED <<clients, jobs, database, objects, maps, socket, dbObj>>

\* AccountLogin looks again, creates the object, whose character is not
\* initialised, and enters it under the account ...
AccountLogin ==
  /\ dbPc = "enter"
  /\ \E o \in FindLoggedIn(dbJob.account),
        ch \in Characters \cup {None} :
       IF o # None
       THEN Return /\ UNCHANGED <<objects, loggedIn>>
       ELSE /\ Continue("map")
            /\ live' = live \cup {dbJob}
            /\ char' = [char EXCEPT ![dbJob] = ch]
            /\ loggedIn' = [loggedIn EXCEPT ![dbJob.account] = dbJob]
  /\ UNCHANGED <<clients, jobs, database, bySocket, history, socket, dbObj>>

\* ... and under the socket.
MapSocket ==
  /\ dbPc = "map"
  /\ bySocket' = [bySocket EXCEPT ![dbJob.client] = dbJob]
  /\ Return
  /\ UNCHANGED <<clients, jobs, database, objects, loggedIn, history, socket, dbObj>>

\* OnDBJob_LoginCharacter looks the account up by the socket ...
FindAccount ==
  /\ dbPc = "find"
  /\ dbObj' \in FindObject(dbJob.client)
  /\ Continue("set")
  /\ UNCHANGED <<clients, jobs, database, objects, maps, history, socket>>

\* ... and writes the character to the object, which may have been deleted,
\* if the row says that it is logged in: not if the account has no such
\* character, or a logout came between the update and the select.
LoginCharacter ==
  /\ dbPc = "set"
  /\ \E in \in BOOLEAN :
       /\ in => Owner[dbJob.char] = dbJob.account
       /\ char' = IF in /\ dbObj \in live
                  THEN [char EXCEPT ![dbObj] = dbJob.char]
                  ELSE char
  /\ Return
  /\ dbObj' = None
  /\ UNCHANGED <<clients, jobs, database, live, maps, history, socket>>

-----------------------------------------------------------------------------
SocketStep ==
  \/ \E c \in Clients, a \in Accounts \cup {None} : Login(c, a)
  \/ \E c \in Clients, ch \in Characters : SelectCharacter(c, ch)
  \/ \E c \in Clients : ClientDisconnect(c)
  \/ EraseAccount \/ EraseSocket \/ DeleteAccount

WorkerStep(w) == Fetch(w) \/ Complete(w) \/ Fail(w)

ResultStep ==
  \/ Take \/ LoadAccount \/ AccountLogin \/ MapSocket \/ FindAccount \/ LoginCharacter

Next ==
  \/ \E c \in Clients : Leave(c)
  \/ SocketStep
  \/ \E w \in Workers : WorkerStep(w)
  \/ ResultStep

Spec == Init /\ [][Next]_vars

-----------------------------------------------------------------------------
(* Properties *)

\* The type of every variable.
TypeOK ==
  /\ conn \in [Clients -> {"up", "gone", "over"}]
  /\ sent \in [Clients -> 0 .. MaxSend]
  /\ Queue!TypeOK
  /\ failed \in 0 .. MaxFail
  /\ marked \subseteq Characters
  /\ live \subseteq Objects
  /\ char \in [Objects -> Characters \cup {None}]
  /\ loggedIn \in [Accounts -> Objects \cup {None}]
  /\ bySocket \in [Clients -> Objects \cup {None}]
  /\ granted \subseteq Clients \X Accounts
  /\ missed \subseteq Accounts
  /\ sockPc \in {"idle", "erase", "unmap", "delete"}
  /\ sockObj \in Objects \cup {None}
  /\ dbPc \in {"idle", "check", "enter", "map", "find", "set"}
  /\ dbJob \in Jobs \cup {None}
  /\ dbObj \in Objects \cup {None}

\* Whatever the socket thread erases and deletes while the result thread
\* enters accounts, and whatever the unlocked lookups miss, an entry of a map
\* leads to an object that exists, of the right account or the right client.
MapsAreLive ==
  /\ \A a \in Accounts : LET o == loggedIn[a] IN
       o # None => o \in live /\ o.account = a
  /\ \A c \in Clients : LET o == bySocket[c] IN
       o # None => o \in live /\ o.client = c

\* An object found by its socket is the one entered under its account, unless
\* AccountLogout is between its two erasures, or a login missed the account's
\* entry because another one was being erased.
MapsAgree ==
  \A c \in Clients : LET o == bySocket[c] IN
    o # None => \/ o.account \in missed
                \/ loggedIn[o.account] = o
                \/ sockPc = "unmap" /\ sockObj = o

\* Two clients that are connected were not both told that they are logged in
\* to one account, unless a login missed the account's entry.
OneSession ==
  \A a \in Accounts \ missed, c, d \in Clients :
    /\ conn[c] = "up" /\ conn[d] = "up"
    /\ <<c, a>> \in granted /\ <<d, a>> \in granted
    => c = d

\* A session begins with the response and lasts while the account is entered.
SessionOf(a) ==
  IF a \in missed THEN None
  ELSE IF dbPc = "enter" /\ dbJob.account = a THEN dbJob.client
  ELSE IF loggedIn[a] = None THEN None
  ELSE loggedIn[a].client

Promise == INSTANCE Sessions WITH alive   <- {c \in Clients : conn[c] = "up"},
                                  granted <- {g \in granted : g[2] \notin missed},
                                  session <- [a \in Accounts |-> SessionOf(a)],
                                  lost    <- missed

\* A session is opened only when the account has none, although the response
\* precedes the insertion, and only its own client's disconnect ends it; an
\* account is lost only when a login misses the entry that is there.
ImplementsSessions == Promise!Spec

\* "log the account associated with this client socket out": when the notice
\* of a disconnect has been handled, the client has no account logged in.
LoggedOutWhenGone ==
  \A a \in Accounts :
    loggedIn[a] # None /\ sockPc = "idle" => conn[loggedIn[a].client] # "over"
=============================================================================
