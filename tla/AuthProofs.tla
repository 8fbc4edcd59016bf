----------------------------- MODULE AuthProofs -----------------------------
(***************************************************************************)
(* For any clients, accounts, characters and database workers the maps of  *)
(* the authentication service lead to live objects; they agree, and the    *)
(* service implements Sessions, but for the accounts that a racing lookup  *)
(* missed.                                                                 *)
(***************************************************************************)
EXTENDS Auth, TLAPS

\* The abstract queue is a database layer that drops whatever is done.
QProofs == INSTANCE DBJobsProofs WITH
  jobs <- queued, job <- running, dropped <- done, handled <- [j \in Jobs |-> 0],
  monJob <- None, monPc <- "count", pc <- running, conn <- running

\* The database layer has every job in one place.
QueueInv == Queue!TypeOK /\ Queue!OncePerJob

\* What AccountLogout has done so far.
SocketInv ==
  /\ sockPc # "idle" => sockObj \in live /\ conn[sockObj.client] = "over"
  /\ sockPc \in {"unmap", "delete"} => \A a \in Accounts : loggedIn[a] # sockObj
  /\ sockPc = "delete" => \A c \in Clients : bySocket[c] # sockObj

\* What the result thread has done so far.  An object is created when the
\* result of its job has been taken, and a result is taken once.
ResultInv ==
  /\ live \subseteq done
  /\ dbPc \in {"check", "enter", "map"} => dbJob \in LoadJobs
  /\ dbPc \in {"enter", "map"} => dbJob.account # None
  /\ dbPc \in {"check", "enter", "map"} => dbJob \in done
  /\ dbPc \in {"check", "enter"} => dbJob \notin live
  /\ dbPc = "map" =>
       /\ dbJob \in live
       /\ sockPc # "idle" => sockObj # dbJob
       /\ \A c \in Clients : bySocket[c] # dbJob
  /\ dbPc \in {"find", "set"} => dbJob \in LoginJobs

IInv == TypeOK /\ QueueInv /\ MapsAreLive /\ SocketInv /\ ResultInv

\* What an object in the hands of one of the two threads has to do with the
\* map of the accounts, if no login missed its account.
ExactInv ==
  /\ MapsAgree
  /\ sockPc = "erase" => \/ sockObj.account \in missed
                         \/ loggedIn[sockObj.account] = sockObj
  /\ dbPc = "enter" => dbJob.account \in missed \/ loggedIn[dbJob.account] = None
  /\ dbPc = "map" => dbJob.account \in missed \/ loggedIn[dbJob.account] = dbJob

-----------------------------------------------------------------------------
\* Objects and jobs, and the null pointer.
LEMMA JobFacts ==
  /\ \A j \in LoadJobs : /\ j.kind = "load_account" /\ j.client \in Clients
                         /\ j.n \in 1 .. MaxSend
                         /\ j.account \in Accounts \cup {None}
  /\ \A j \in LoginJobs : /\ j.kind = "login_character" /\ j.client \in Clients
                          /\ j.account \in Accounts /\ j.char \in Characters
  /\ \A j \in LogoutJobs : j.kind = "logout_character"
  /\ None \notin Objects /\ None \notin Clients /\ None \notin Accounts
  /\ Objects \subseteq LoadJobs /\ Objects \subseteq Jobs
  /\ \A o \in Objects : o.account \in Accounts /\ o.client \in Clients
BY AuthAssumption, NoneIsNoJob DEF LoadJobs, LoginJobs, LogoutJobs, Jobs, Objects

\* What popping a queue leaves.
LEMMA PopType ==
  ASSUME NEW S, NEW s \in Seq(S), s # <<>>
  PROVE  /\ Head(s) \in S /\ Tail(s) \in Seq(S)
         /\ 1 \in DOMAIN s /\ s[1] = Head(s)
OBVIOUS

\* The handlers queue well-formed jobs.
LEMMA JobTypes ==
  ASSUME NEW c \in Clients, NEW n \in 1 .. MaxSend
  PROVE  /\ \A a \in Accounts \cup {None} : Job(c, n, "load_account", a, None) \in LoadJobs
         /\ \A a \in Accounts, ch \in Characters :
              Job(c, n, "login_character", a, ch) \in LoginJobs
         /\ \A a \in Accounts, ch \in Characters \cup {None} :
              Job(c, 0, "logout_character", a, ch) \in LogoutJobs
BY DEF Job, LoadJobs, LoginJobs, LogoutJobs

\* A handler counts the packet within the bound.
LEMMA HandlesCount ==
  ASSUME TypeOK, NEW c \in Clients, Handles(c)
  PROVE  sent'[c] \in 1 .. MaxSend /\ sent' \in [Clients -> 0 .. MaxSend]
<1>1. sent[c] \in 0 .. MaxSend /\ sent[c] < MaxSend /\ MaxSend \in Nat
  BY AuthAssumption DEF TypeOK, Handles
<1>2. sent' = [sent EXCEPT ![c] = @ + 1]
  BY DEF Handles
<1>3. sent[c] + 1 \in 1 .. MaxSend /\ sent[c] + 1 \in 0 .. MaxSend
  BY <1>1
<1> QED BY <1>2, <1>3 DEF TypeOK

-----------------------------------------------------------------------------
\* Every step leaves the database layer alone or is one of its steps.
LEMMA QueueStep ==
  ASSUME IInv, [Next]_vars
  PROVE  [Queue!Next]_(Queue!vars)
<1> USE DEF vars, jobs, Queue!vars
<1>1. ASSUME NEW c \in Clients, NEW a \in Accounts \cup {None}, Login(c, a)
      PROVE  Queue!Next
  <2>1. Job(c, sent'[c], "load_account", a, None) \in Jobs
    BY <1>1, HandlesCount, JobTypes DEF IInv, Login, Jobs
  <2> QED BY <1>1, <2>1 DEF Login, Queue!Next
<1>2. ASSUME NEW c \in Clients, NEW ch \in Characters, SelectCharacter(c, ch)
      PROVE  Queue!Next \/ UNCHANGED jobs
  <2>1. sent'[c] \in 1 .. MaxSend
    BY <1>2, HandlesCount DEF IInv, SelectCharacter
  <2>2. PICK o \in FindSocket(c) :
          IF o = None
          THEN UNCHANGED <<jobs, char>>
          ELSE /\ char' = [char EXCEPT ![o] = ch]
               /\ Queue!Submit(Job(c, sent'[c], "login_character", o.account, ch))
    BY <1>2 DEF SelectCharacter
  <2>3. CASE o = None
    BY <2>2, <2>3
  <2>4. CASE o # None
    <3>1. o \in Objects /\ o.account \in Accounts
      BY <2>2, <2>4, JobFacts DEF IInv, TypeOK, FindSocket, Find
    <3>2. Job(c, sent'[c], "login_character", o.account, ch) \in Jobs
      BY <2>1, <3>1, JobTypes DEF Jobs
    <3> QED BY <2>2, <2>4, <3>2 DEF Queue!Next
  <2> QED BY <2>3, <2>4
<1>3. ASSUME NEW c \in Clients, ClientDisconnect(c)
      PROVE  Queue!Next \/ UNCHANGED jobs
  <2>1. PICK o \in FindSocket(c) :
          IF o = None
          THEN UNCHANGED <<jobs, socket>>
          ELSE Queue!Submit(Job(c, 0, "logout_character", o.account, char[o]))
    BY <1>3 DEF ClientDisconnect
  <2>2. CASE o = None
    BY <2>1, <2>2
  <2>3. CASE o # None
    <3>1. o \in Objects /\ o.account \in Accounts /\ char[o] \in Characters \cup {None}
      BY <2>1, <2>3, JobFacts DEF IInv, TypeOK, FindSocket, Find
    <3>2. Job(c, 0, "logout_character", o.account, char[o]) \in LogoutJobs
      BY <3>1 DEF Job, LogoutJobs
    <3> QED BY <2>1, <2>3, <3>2 DEF Queue!Next, Jobs
  <2> QED BY <2>2, <2>3
<1>4. ASSUME NEW w \in Workers, WorkerStep(w)
      PROVE  Queue!Next
  BY <1>4 DEF WorkerStep, Fetch, Complete, Fail, Queue!Next
<1>5. CASE Take
  BY <1>5 DEF Take, Queue!Next
<1>6. ASSUME \/ \E c \in Clients : Leave(c)
             \/ EraseAccount \/ EraseSocket \/ DeleteAccount
             \/ LoadAccount \/ AccountLogin \/ MapSocket \/ FindAccount \/ LoginCharacter
             \/ UNCHANGED vars
      PROVE  UNCHANGED jobs
  BY <1>6 DEF Leave, EraseAccount, EraseSocket, DeleteAccount, LoadAccount, AccountLogin,
              MapSocket, FindAccount, LoginCharacter
<1> QED
  BY <1>1, <1>2, <1>3, <1>4, <1>5, <1>6 DEF Next, SocketStep, ResultStep

\* No job is forgotten.
LEMMA DoneGrows ==
  ASSUME [Queue!Next]_(Queue!vars)
  PROVE  done \subseteq done'
BY DEF Queue!Next, Queue!vars, Queue!Submit, Queue!Fetch, Queue!Complete, Queue!Fail,
       Queue!Take

\* So the database layer keeps every job in one place.
LEMMA QueueInvStep ==
  ASSUME IInv, [Next]_vars
  PROVE  QueueInv'
<1>1. QProofs!Over = done /\ QProofs!Over' = done'
  BY NoneIsNoJob DEF QProofs!Over
<1>2. QProofs!QueueInv
  BY <1>1 DEF IInv, QueueInv, QProofs!QueueInv, Queue!TypeOK, Queue!OncePerJob,
              Queue!NoDuplicates, Queue!In, QProofs!Abstract!TypeOK,
              QProofs!Abstract!OncePerJob, QProofs!Abstract!NoDuplicates, QProofs!Abstract!In
<1>3. [QProofs!Abstract!Next]_(QProofs!Abstract!vars)
  BY <1>1, QueueStep
  DEF Queue!Next, Queue!vars, Queue!Submit, Queue!Fresh, Queue!In, Queue!Fetch,
      Queue!Complete, Queue!Fail, Queue!Take, QProofs!Abstract!Next, QProofs!Abstract!vars,
      QProofs!Abstract!Submit, QProofs!Abstract!Fresh, QProofs!Abstract!In,
      QProofs!Abstract!Fetch, QProofs!Abstract!Complete, QProofs!Abstract!Fail,
      QProofs!Abstract!Take
<1>4. QProofs!QueueInv'
  BY <1>2, <1>3, QProofs!QueueStep, NoneIsNoJob
<1> QED
  BY <1>1, <1>4
  DEF QueueInv, QProofs!QueueInv, Queue!TypeOK, Queue!OncePerJob, Queue!NoDuplicates,
      Queue!In, QProofs!Abstract!TypeOK, QProofs!Abstract!OncePerJob,
      QProofs!Abstract!NoDuplicates, QProofs!Abstract!In

-----------------------------------------------------------------------------
\* OnDBJob_LoadAccount refuses the login, or grants it to an account that is
\* not entered or whose entry it has missed.
LEMMA LoadAccountCases ==
  ASSUME LoadAccount
  PROVE  \/ Return /\ UNCHANGED history
         \/ /\ Continue("enter")
            /\ dbJob.account # None
            /\ granted' = granted \cup {<<dbJob.client, dbJob.account>>}
            /\ \/ loggedIn[dbJob.account] = None /\ missed' = missed
               \/ /\ loggedIn[dbJob.account] # None
                  /\ missed' = missed \cup {dbJob.account}
BY DEF LoadAccount, FindLoggedIn, Find, Grant, history

\* Every variable keeps its type.
LEMMA TypeStep ==
  ASSUME IInv, [Next]_vars
  PROVE  TypeOK'
<1> USE JobFacts DEF vars, clients, jobs, database, objects, maps, history, socket, result
<1>q. Queue!TypeOK'
  BY QueueInvStep DEF QueueInv
<1>1. ASSUME NEW c \in Clients, NEW a \in Accounts \cup {None}, Login(c, a)
      PROVE  TypeOK'
  <2>1. sent' \in [Clients -> 0 .. MaxSend]
    BY <1>1, HandlesCount DEF IInv, Login
  <2> QED BY <1>1, <1>q, <2>1 DEF IInv, TypeOK, Login
<1>2. ASSUME NEW c \in Clients, NEW ch \in Characters, SelectCharacter(c, ch)
      PROVE  TypeOK'
  <2>1. sent' \in [Clients -> 0 .. MaxSend]
    BY <1>2, HandlesCount DEF IInv, SelectCharacter
  <2>2. char' \in [Objects -> Characters \cup {None}]
    BY <1>2 DEF IInv, TypeOK, SelectCharacter
  <2> QED BY <1>2, <1>q, <2>1, <2>2 DEF IInv, TypeOK, SelectCharacter
<1>3. ASSUME NEW c \in Clients, Leave(c)
      PROVE  TypeOK'
  BY <1>3, <1>q DEF IInv, TypeOK, Leave
<1>4. ASSUME NEW c \in Clients, ClientDisconnect(c)
      PROVE  TypeOK'
  <2>1. /\ sockPc' \in {"idle", "erase", "unmap", "delete"}
        /\ sockObj' \in Objects \cup {None}
    BY <1>4 DEF IInv, TypeOK, ClientDisconnect, FindSocket, Find
  <2> QED BY <1>4, <1>q, <2>1 DEF IInv, TypeOK, ClientDisconnect
<1>5. ASSUME EraseAccount \/ EraseSocket \/ DeleteAccount
      PROVE  TypeOK'
  BY <1>5, <1>q DEF IInv, TypeOK, EraseAccount, EraseSocket, DeleteAccount
<1>6. ASSUME NEW w \in Workers, WorkerStep(w)
      PROVE  TypeOK'
  <2>1. CASE Fetch(w)
    BY <2>1, <1>q DEF IInv, TypeOK, Fetch
  <2>2. CASE Complete(w)
    <3>1. running[w] \in Jobs
      BY <2>2 DEF Complete, Queue!Complete, IInv, QueueInv, Queue!TypeOK
    <3>2. Effect(running[w]) \subseteq Characters
      BY <3>1 DEF Effect, IInv, TypeOK, Jobs
    <3> QED BY <2>2, <1>q, <3>2 DEF IInv, TypeOK, Complete
  <2>3. CASE Fail(w)
    <3>1. running[w] \in Jobs
      BY <2>3 DEF Fail, Queue!Fail, IInv, QueueInv, Queue!TypeOK
    <3>2. Effect(running[w]) \subseteq Characters
      BY <3>1 DEF Effect, IInv, TypeOK, Jobs
    <3>3. failed' \in 0 .. MaxFail
      BY <2>3, AuthAssumption DEF Fail, IInv, TypeOK
    <3> QED BY <2>3, <1>q, <3>2, <3>3 DEF IInv, TypeOK, Fail
  <2> QED BY <1>6, <2>1, <2>2, <2>3 DEF WorkerStep
<1>7. CASE Take
  <2>1. Head(completed) \in Jobs
    BY <1>7, PopType DEF Take, Queue!Take, IInv, QueueInv, Queue!TypeOK
  <2>2. /\ dbPc' \in {"idle", "check", "enter", "map", "find", "set"}
        /\ dbJob' \in Jobs \cup {None}
    BY <1>7, <2>1 DEF Take, IInv, TypeOK, Jobs
  <2> QED BY <1>7, <1>q, <2>2 DEF IInv, TypeOK, Take
<1>8. CASE LoadAccount
  <2>1. dbJob.account # None => <<dbJob.client, dbJob.account>> \in Clients \X Accounts
    BY <1>8 DEF LoadAccount, IInv, ResultInv
  <2>2. granted' \subseteq Clients \X Accounts /\ missed' \subseteq Accounts
    BY <1>8, <2>1, LoadAccountCases DEF IInv, TypeOK
  <2>3. /\ dbPc' \in {"idle", "check", "enter", "map", "find", "set"}
        /\ dbJob' \in Jobs \cup {None}
    BY <1>8, LoadAccountCases DEF Return, Continue, IInv, TypeOK
  <2> QED BY <1>8, <1>q, <2>2, <2>3 DEF IInv, TypeOK, LoadAccount
<1>9. CASE AccountLogin
  <2>1. dbJob \in Objects
    BY <1>9 DEF AccountLogin, IInv, ResultInv, Objects
  <2>2. /\ dbPc' \in {"idle", "check", "enter", "map", "find", "set"}
        /\ dbJob' \in Jobs \cup {None}
        /\ live' \subseteq Objects
        /\ char' \in [Objects -> Characters \cup {None}]
        /\ loggedIn' \in [Accounts -> Objects \cup {None}]
    BY <1>9, <2>1 DEF AccountLogin, Return, Continue, IInv, TypeOK
  <2> QED BY <1>9, <1>q, <2>2 DEF IInv, TypeOK, AccountLogin
<1>10. CASE MapSocket
  <2>1. dbJob \in Objects
    BY <1>10 DEF MapSocket, IInv, ResultInv, Objects
  <2> QED BY <1>10, <1>q, <2>1 DEF IInv, TypeOK, MapSocket, Return
<1>11. CASE FindAccount
  <2>1. dbJob.client \in Clients
    BY <1>11 DEF FindAccount, IInv, ResultInv
  <2>2. dbObj' \in Objects \cup {None}
    BY <1>11, <2>1 DEF FindAccount, FindObject, Find, IInv, TypeOK
  <2> QED BY <1>11, <1>q, <2>2 DEF IInv, TypeOK, FindAccount, Continue
<1>12. CASE LoginCharacter
  <2>1. dbJob.char \in Characters
    BY <1>12 DEF LoginCharacter, IInv, ResultInv
  <2>2. char' \in [Objects -> Characters \cup {None}]
    BY <1>12, <2>1 DEF LoginCharacter, IInv, TypeOK
  <2> QED BY <1>12, <1>q, <2>2 DEF IInv, TypeOK, LoginCharacter, Return
<1>13. CASE UNCHANGED vars
  BY <1>13, <1>q DEF IInv, TypeOK
<1> QED
  BY <1>1, <1>2, <1>3, <1>4, <1>5, <1>6, <1>7, <1>8, <1>9, <1>10, <1>11, <1>12, <1>13
  DEF Next, SocketStep, ResultStep

\* The maps, the objects and the two threads, whatever a lookup misses.
LEMMA ObjectsStep ==
  ASSUME IInv, [Next]_vars
  PROVE  MapsAreLive' /\ SocketInv' /\ ResultInv'
<1> USE JobFacts DEF vars, clients, jobs, database, objects, maps, history, socket, result
<1>d. done \subseteq done'
  BY QueueStep, DoneGrows
<1>1. ASSUME \/ \E c \in Clients, a \in Accounts \cup {None} : Login(c, a)
             \/ \E c \in Clients, ch \in Characters : SelectCharacter(c, ch)
             \/ \E w \in Workers : WorkerStep(w)
             \/ UNCHANGED vars
      PROVE  MapsAreLive' /\ SocketInv' /\ ResultInv'
  <2>1. UNCHANGED <<conn, live, loggedIn, bySocket, sockPc, sockObj, dbPc, dbJob>>
    BY <1>1 DEF Login, SelectCharacter, WorkerStep, Fetch, Complete, Fail
  <2> QED BY <2>1, <1>d DEF IInv, MapsAreLive, SocketInv, ResultInv
<1>2. ASSUME NEW c \in Clients, Leave(c)
      PROVE  MapsAreLive' /\ SocketInv' /\ ResultInv'
  <2>1. sockPc # "idle" => sockObj.client \in Clients /\ conn'[sockObj.client] = "over"
    BY <1>2 DEF Leave, IInv, TypeOK, SocketInv
  <2> QED BY <1>2, <1>d, <2>1 DEF Leave, IInv, MapsAreLive, SocketInv, ResultInv
<1>3. ASSUME NEW c \in Clients, ClientDisconnect(c)
      PROVE  MapsAreLive' /\ SocketInv' /\ ResultInv'
  <2>1. PICK o \in FindSocket(c) :
          IF o = None
          THEN UNCHANGED <<jobs, socket>>
          ELSE sockObj' = o /\ sockPc' = "erase"
    BY <1>3 DEF ClientDisconnect
  <2>2. /\ sockPc = "idle" /\ conn' = [conn EXCEPT ![c] = "over"]
        /\ UNCHANGED <<live, loggedIn, bySocket, dbPc, dbJob>>
    BY <1>3 DEF ClientDisconnect
  <2>3. conn'[c] = "over"
    BY <2>2 DEF IInv, TypeOK
  <2>4. o # None => o = bySocket[c] /\ o \in live /\ o.client = c
    BY <2>1 DEF FindSocket, Find, IInv, MapsAreLive
  <2> QED BY <1>d, <2>1, <2>2, <2>3, <2>4 DEF IInv, MapsAreLive, SocketInv, ResultInv
<1>4. CASE EraseAccount
  <2> DEFINE o == sockObj
  <2>1. o \in Objects /\ o.account \in Accounts
    BY <1>4 DEF EraseAccount, IInv, TypeOK, SocketInv
  <2>2. \A a \in Accounts : loggedIn'[a] = IF a = o.account THEN None ELSE loggedIn[a]
    BY <1>4 DEF EraseAccount, IInv, TypeOK
  <2>3. /\ sockPc = "erase" /\ sockPc' = "unmap"
        /\ o \in live /\ conn[o.client] = "over"
        /\ UNCHANGED <<conn, live, bySocket, sockObj, dbPc, dbJob>>
    BY <1>4 DEF EraseAccount, IInv, SocketInv
  <2>4. MapsAreLive'
    BY <2>1, <2>2, <2>3 DEF IInv, MapsAreLive
  <2>5. SocketInv'
    <3>1. \A a \in Accounts : loggedIn'[a] # o
      BY <2>1, <2>2 DEF IInv, MapsAreLive
    <3> QED BY <2>3, <3>1 DEF SocketInv
  <2>6. ResultInv'
    BY <1>d, <2>3 DEF IInv, ResultInv
  <2> QED BY <2>4, <2>5, <2>6
<1>5. CASE EraseSocket
  <2> DEFINE o == sockObj
  <2>1. o \in Objects /\ o.client \in Clients
    BY <1>5 DEF EraseSocket, IInv, TypeOK, SocketInv
  <2>2. \A c \in Clients : bySocket'[c] = IF c = o.client THEN None ELSE bySocket[c]
    BY <1>5 DEF EraseSocket, IInv, TypeOK
  <2>3. /\ sockPc = "unmap" /\ sockPc' = "delete"
        /\ UNCHANGED <<conn, live, loggedIn, sockObj, dbPc, dbJob>>
    BY <1>5 DEF EraseSocket
  <2>4. MapsAreLive'
    BY <2>1, <2>2, <2>3 DEF IInv, MapsAreLive
  <2>5. SocketInv'
    <3>1. \A c \in Clients : bySocket'[c] # o
      BY <2>1, <2>2 DEF IInv, MapsAreLive
    <3> QED BY <2>3, <3>1 DEF IInv, SocketInv
  <2>6. ResultInv'
    <3>1. dbPc = "map" => \A c \in Clients : bySocket'[c] # dbJob
      BY <2>2 DEF IInv, ResultInv, Objects
    <3> QED BY <1>d, <2>3, <3>1 DEF IInv, ResultInv
  <2> QED BY <2>4, <2>5, <2>6
<1>6. CASE DeleteAccount
  <2>1. /\ sockPc = "delete" /\ sockPc' = "idle" /\ live' = live \ {sockObj}
        /\ UNCHANGED <<conn, loggedIn, bySocket, dbPc, dbJob>>
    BY <1>6 DEF DeleteAccount
  <2>2. /\ \A a \in Accounts : loggedIn[a] # sockObj
        /\ \A c \in Clients : bySocket[c] # sockObj
    BY <2>1 DEF IInv, SocketInv
  <2>3. MapsAreLive'
    BY <2>1, <2>2 DEF IInv, MapsAreLive
  <2>4. SocketInv'
    BY <2>1 DEF SocketInv
  <2>5. ResultInv'
    BY <1>d, <2>1 DEF IInv, ResultInv
  <2> QED BY <2>3, <2>4, <2>5
<1>7. CASE Take
  <2> DEFINE j == Head(completed)
  <2>1. j \in Jobs /\ 1 \in DOMAIN completed /\ completed[1] = j
    BY <1>7, PopType DEF Take, Queue!Take, IInv, QueueInv, Queue!TypeOK
  <2>2. j \notin done
    BY <2>1 DEF IInv, QueueInv, Queue!OncePerJob, Queue!In
  <2>3. j \in done' /\ dbPc = "idle"
    BY <1>7 DEF Take, Queue!Take
  <2>4. UNCHANGED <<conn, live, loggedIn, bySocket, sockPc, sockObj>>
    BY <1>7 DEF Take
  <2>5. CASE j \in LoadJobs
    <3>1. dbPc' = "check" /\ dbJob' = j
      BY <1>7, <2>5 DEF Take
    <3> QED BY <1>d, <2>2, <2>3, <2>4, <2>5, <3>1 DEF IInv, MapsAreLive, SocketInv, ResultInv
  <2>6. CASE j \in LoginJobs
    <3>1. dbPc' = "find" /\ dbJob' = j
      BY <1>7, <2>6 DEF Take
    <3> QED BY <1>d, <2>4, <2>6, <3>1 DEF IInv, MapsAreLive, SocketInv, ResultInv
  <2>7. CASE j \in LogoutJobs
    <3>1. UNCHANGED <<dbPc, dbJob>>
      BY <1>7, <2>7 DEF Take
    <3> QED BY <1>d, <2>3, <2>4, <3>1 DEF IInv, MapsAreLive, SocketInv, ResultInv
  <2> QED BY <2>1, <2>5, <2>6, <2>7 DEF Jobs
<1>8. CASE LoadAccount
  <2>1. /\ dbPc = "check"
        /\ UNCHANGED <<conn, live, loggedIn, bySocket, sockPc, sockObj>>
        /\ Return \/ (Continue("enter") /\ dbJob.account # None)
    BY <1>8, LoadAccountCases DEF LoadAccount
  <2> QED BY <1>d, <2>1 DEF IInv, MapsAreLive, SocketInv, ResultInv, Return, Continue
<1>9. CASE AccountLogin
  <2>1. /\ dbPc = "enter" /\ dbJob \in Objects /\ dbJob \notin live /\ dbJob \in done
        /\ UNCHANGED <<conn, bySocket, sockPc, sockObj>>
    BY <1>9 DEF AccountLogin, IInv, ResultInv, Objects
  <2>2. CASE Return /\ UNCHANGED <<live, loggedIn>>
    BY <1>d, <2>1, <2>2 DEF IInv, MapsAreLive, SocketInv, ResultInv, Return
  <2>3. CASE /\ Continue("map") /\ live' = live \cup {dbJob}
             /\ loggedIn' = [loggedIn EXCEPT ![dbJob.account] = dbJob]
    <3>1. \A a \in Accounts :
            loggedIn'[a] = IF a = dbJob.account THEN dbJob ELSE loggedIn[a]
      BY <2>3 DEF IInv, TypeOK
    <3>2. sockPc # "idle" => sockObj # dbJob
      BY <2>1 DEF IInv, SocketInv
    <3>3. \A c \in Clients : bySocket[c] # dbJob
      BY <2>1 DEF IInv, MapsAreLive
    <3>4. MapsAreLive'
      BY <2>1, <2>3, <3>1 DEF IInv, MapsAreLive
    <3>5. SocketInv'
      BY <2>1, <2>3, <3>1, <3>2 DEF IInv, SocketInv
    <3>6. ResultInv'
      BY <1>d, <2>1, <2>3, <3>2, <3>3 DEF IInv, ResultInv, Continue
    <3> QED BY <3>4, <3>5, <3>6
  <2> QED BY <1>9, <2>2, <2>3 DEF AccountLogin
<1>10. CASE MapSocket
  <2>1. /\ dbPc = "map" /\ dbJob \in Objects /\ dbJob \in live
        /\ sockPc # "idle" => sockObj # dbJob
        /\ UNCHANGED <<conn, live, loggedIn, sockPc, sockObj>> /\ dbPc' = "idle"
    BY <1>10 DEF MapSocket, Return, IInv, ResultInv, Objects
  <2>2. \A c \in Clients : bySocket'[c] = IF c = dbJob.client THEN dbJob ELSE bySocket[c]
    BY <1>10 DEF MapSocket, IInv, TypeOK
  <2>3. MapsAreLive'
    BY <2>1, <2>2 DEF IInv, MapsAreLive
  <2>4. SocketInv'
    BY <2>1, <2>2 DEF IInv, SocketInv
  <2>5. ResultInv'
    BY <1>d, <2>1 DEF IInv, ResultInv
  <2> QED BY <2>3, <2>4, <2>5
<1>11. ASSUME FindAccount \/ LoginCharacter
       PROVE  MapsAreLive' /\ SocketInv' /\ ResultInv'
  BY <1>11, <1>d DEF FindAccount, LoginCharacter, Return, Continue, IInv, MapsAreLive,
                     SocketInv, ResultInv
<1> QED
  BY <1>1, <1>2, <1>3, <1>4, <1>5, <1>6, <1>7, <1>8, <1>9, <1>10, <1>11
  DEF Next, SocketStep, ResultStep

\* The two maps agree, but for the accounts that were missed.
LEMMA ExactStep ==
  ASSUME IInv, ExactInv, [Next]_vars
  PROVE  ExactInv'
<1> USE JobFacts DEF vars, clients, jobs, database, objects, maps, history, socket, result
<1>o. \A c \in Clients :
        bySocket[c] # None =>
          bySocket[c] \in live /\ bySocket[c].client = c /\ bySocket[c].account \in Accounts
  BY DEF IInv, TypeOK, MapsAreLive
<1>1. ASSUME \/ \E c \in Clients, a \in Accounts \cup {None} : Login(c, a)
             \/ \E c \in Clients, ch \in Characters : SelectCharacter(c, ch)
             \/ \E c \in Clients : Leave(c)
             \/ \E w \in Workers : WorkerStep(w)
             \/ UNCHANGED vars
      PROVE  ExactInv'
  <2>1. UNCHANGED <<loggedIn, bySocket, missed, sockPc, sockObj, dbPc, dbJob>>
    BY <1>1 DEF Login, SelectCharacter, Leave, WorkerStep, Fetch, Complete, Fail
  <2> QED BY <2>1 DEF ExactInv, MapsAgree
<1>2. ASSUME NEW c \in Clients, ClientDisconnect(c)
      PROVE  ExactInv'
  <2> DEFINE o == bySocket[c]
  <2>1. /\ sockPc = "idle"
        /\ \/ UNCHANGED socket
           \/ o # None /\ sockObj' = o /\ sockPc' = "erase"
        /\ UNCHANGED <<loggedIn, bySocket, missed, dbPc, dbJob>>
    BY <1>2 DEF ClientDisconnect, FindSocket, Find
  <2>2. o # None => o.account \in missed \/ loggedIn[o.account] = o
    BY <2>1 DEF ExactInv, MapsAgree
  <2> QED BY <2>1, <2>2 DEF ExactInv, MapsAgree
<1>3. CASE EraseAccount
  <2> DEFINE o == sockObj
  <2>1. o \in Objects /\ o.account \in Accounts
    BY <1>3 DEF EraseAccount, IInv, TypeOK, SocketInv
  <2>2. \A a \in Accounts : loggedIn'[a] = IF a = o.account THEN None ELSE loggedIn[a]
    BY <1>3 DEF EraseAccount, IInv, TypeOK
  <2>3. /\ sockPc = "erase" /\ sockPc' = "unmap"
        /\ o.account \in missed \/ loggedIn[o.account] = o
        /\ UNCHANGED <<bySocket, missed, sockObj, dbPc, dbJob>>
    BY <1>3 DEF EraseAccount, ExactInv
  <2>4. MapsAgree'
    BY <1>o, <2>1, <2>2, <2>3 DEF ExactInv, MapsAgree
  <2>5. dbPc = "enter" => dbJob.account \in missed \/ loggedIn'[dbJob.account] = None
    BY <2>2 DEF IInv, ResultInv, ExactInv
  <2>6. dbPc = "map" => dbJob.account \in missed \/ loggedIn'[dbJob.account] = dbJob
    BY <2>2, <2>3 DEF IInv, ResultInv, ExactInv
  <2> QED BY <2>3, <2>4, <2>5, <2>6 DEF ExactInv
<1>4. CASE EraseSocket
  <2>1. sockObj \in Objects /\ sockObj.client \in Clients
    BY <1>4 DEF EraseSocket, IInv, TypeOK, SocketInv
  <2>2. /\ \A c \in Clients :
             bySocket'[c] = IF c = sockObj.client THEN None ELSE bySocket[c]
        /\ sockPc' = "delete" /\ UNCHANGED <<loggedIn, missed, dbPc, dbJob>>
    BY <1>4 DEF EraseSocket, IInv, TypeOK
  <2> QED BY <1>o, <2>1, <2>2 DEF ExactInv, MapsAgree
<1>5. CASE DeleteAccount
  BY <1>5 DEF DeleteAccount, ExactInv, MapsAgree
<1>6. ASSUME Take \/ FindAccount \/ LoginCharacter
      PROVE  ExactInv'
  <2>1. /\ UNCHANGED <<loggedIn, bySocket, missed, sockPc, sockObj>>
        /\ dbPc' \notin {"enter", "map"}
    <3>1. CASE Take
      <4>1. Head(completed) \in Jobs
        BY <3>1, PopType DEF Take, Queue!Take, IInv, QueueInv, Queue!TypeOK
      <4> QED BY <3>1, <4>1 DEF Take, Jobs
    <3> QED BY <1>6, <3>1 DEF FindAccount, LoginCharacter, Return, Continue
  <2> QED BY <2>1 DEF ExactInv, MapsAgree
<1>7. CASE LoadAccount
  <2>1. /\ UNCHANGED <<loggedIn, bySocket, sockPc, sockObj>>
        /\ missed \subseteq missed'
        /\ \/ Return
           \/ /\ Continue("enter")
              /\ dbJob.account \in missed' \/ loggedIn[dbJob.account] = None
    BY <1>7, LoadAccountCases DEF LoadAccount
  <2> QED BY <2>1 DEF ExactInv, MapsAgree, Return, Continue
<1>8. CASE AccountLogin
  <2>1. /\ dbPc = "enter" /\ dbJob \in Objects /\ dbJob \notin live
        /\ dbJob.account \in missed \/ loggedIn[dbJob.account] = None
        /\ UNCHANGED <<bySocket, missed, sockPc, sockObj>>
    BY <1>8 DEF AccountLogin, IInv, ResultInv, ExactInv, Objects
  <2>2. CASE Return /\ UNCHANGED loggedIn
    BY <2>1, <2>2 DEF Return, ExactInv, MapsAgree
  <2>3. CASE /\ Continue("map")
             /\ loggedIn' = [loggedIn EXCEPT ![dbJob.account] = dbJob]
    <3>1. \A a \in Accounts : loggedIn'[a] = IF a = dbJob.account THEN dbJob ELSE loggedIn[a]
      BY <2>3 DEF IInv, TypeOK
    <3>2. MapsAgree'
      BY <1>o, <2>1, <3>1 DEF ExactInv, MapsAgree
    <3>3. sockPc = "erase" =>
            sockObj.account \in missed \/ loggedIn'[sockObj.account] = sockObj
      <4>1. sockPc = "erase" => /\ sockObj \in Objects
                                /\ \/ sockObj.account \in missed
                                   \/ loggedIn[sockObj.account] = sockObj
        BY DEF IInv, TypeOK, SocketInv, ExactInv
      <4> QED BY <2>1, <3>1, <4>1
    <3>4. loggedIn'[dbJob.account] = dbJob
      BY <2>1, <3>1
    <3> QED BY <2>1, <2>3, <3>2, <3>3, <3>4 DEF ExactInv, Continue
  <2> QED BY <1>8, <2>2, <2>3 DEF AccountLogin
<1>9. CASE MapSocket
  <2>1. /\ dbPc = "map" /\ dbPc' = "idle"
        /\ dbJob.account \in missed \/ loggedIn[dbJob.account] = dbJob
        /\ UNCHANGED <<loggedIn, missed, sockPc, sockObj>>
    BY <1>9 DEF MapSocket, Return, ExactInv
  <2>2. \A c \in Clients : bySocket'[c] = IF c = dbJob.client THEN dbJob ELSE bySocket[c]
    BY <1>9 DEF MapSocket, IInv, TypeOK
  <2> QED BY <2>1, <2>2 DEF ExactInv, MapsAgree
<1> QED
  BY <1>1, <1>2, <1>3, <1>4, <1>5, <1>6, <1>7, <1>8, <1>9
  DEF Next, SocketStep, ResultStep

-----------------------------------------------------------------------------
\* What the promise is made of.
LEMMA SessionFacts ==
  ASSUME IInv
  PROVE  /\ \A a \in Accounts : SessionOf(a) \in Clients \cup {None}
         /\ \A a \in missed : SessionOf(a) = None
<1> USE JobFacts
<1>1. ASSUME NEW a \in Accounts
      PROVE  SessionOf(a) \in Clients \cup {None}
  <2>1. dbPc = "enter" => dbJob.client \in Clients
    BY DEF IInv, ResultInv
  <2>2. loggedIn[a] # None => loggedIn[a].client \in Clients
    BY DEF IInv, TypeOK
  <2> QED BY <2>1, <2>2 DEF SessionOf
<1>2. \A a \in missed : SessionOf(a) = None
  BY DEF SessionOf
<1> QED BY <1>1, <1>2

\* Every step of the service is a step of the sessions or none.
LEMMA StepSimulates ==
  ASSUME IInv, ExactInv, [Next]_vars
  PROVE  [Promise!Next]_(Promise!vars)
<1> USE JobFacts DEF vars, clients, jobs, database, objects, maps, history, socket, result
<1> DEFINE alive == {c \in Clients : conn[c] = "up"}
           session == [a \in Accounts |-> SessionOf(a)]
           grants == {g \in granted : g[2] \notin missed}
<1>1. ASSUME \/ \E c \in Clients, a \in Accounts \cup {None} : Login(c, a)
             \/ \E c \in Clients, ch \in Characters : SelectCharacter(c, ch)
             \/ \E w \in Workers : WorkerStep(w)
             \/ EraseSocket \/ DeleteAccount
             \/ UNCHANGED vars
      PROVE  UNCHANGED Promise!vars
  <2>1. UNCHANGED <<conn, loggedIn, granted, missed, dbPc, dbJob>>
    BY <1>1 DEF Login, SelectCharacter, WorkerStep, Fetch, Complete, Fail,
                EraseSocket, DeleteAccount
  <2> QED BY <2>1 DEF Promise!vars, SessionOf
<1>2. ASSUME NEW c \in Clients, Leave(c)
      PROVE  Promise!Leave(c)
  <2>1. /\ c \in alive /\ alive' = alive \ {c}
        /\ UNCHANGED <<loggedIn, granted, missed, dbPc, dbJob>>
    BY <1>2 DEF Leave, IInv, TypeOK
  <2>2. session' = session
    BY <2>1 DEF SessionOf
  <2> QED BY <2>1, <2>2 DEF Promise!Leave
<1>3. ASSUME NEW c \in Clients, ClientDisconnect(c)
      PROVE  UNCHANGED Promise!vars
  <2>1. /\ alive' = alive
        /\ UNCHANGED <<loggedIn, granted, missed, dbPc, dbJob>>
    BY <1>3 DEF ClientDisconnect, IInv, TypeOK
  <2>2. session' = session
    BY <2>1 DEF SessionOf
  <2> QED BY <2>1, <2>2 DEF Promise!vars
<1>4. CASE EraseAccount
  <2> DEFINE a == sockObj.account
  <2>1. /\ sockObj \in Objects /\ a \in Accounts
        /\ a \in missed \/ loggedIn[a] = sockObj
        /\ conn[sockObj.client] = "over"
        /\ loggedIn' = [loggedIn EXCEPT ![a] = None]
        /\ UNCHANGED <<conn, granted, missed, dbPc, dbJob>>
    BY <1>4 DEF EraseAccount, IInv, TypeOK, SocketInv, ExactInv
  <2>2. CASE a \in missed
    <3>1. \A b \in Accounts : SessionOf(b)' = SessionOf(b)
      BY <2>1, <2>2 DEF SessionOf, IInv, TypeOK
    <3>2. session' = session
      BY <3>1
    <3> QED BY <2>1, <3>2 DEF Promise!vars
  <2>3. CASE a \notin missed
    <3>1. ~(dbPc = "enter" /\ dbJob.account = a)
      BY <2>1, <2>3 DEF IInv, ExactInv
    <3>2. session[a] = sockObj.client /\ session[a] # None /\ session[a] \notin alive
      BY <2>1, <2>3, <3>1 DEF SessionOf
    <3>3. \A b \in Accounts : SessionOf(b)' = IF b = a THEN None ELSE SessionOf(b)
      BY <2>1, <2>3, <3>1 DEF SessionOf, IInv, TypeOK
    <3>4. session' = [session EXCEPT ![a] = None]
      BY <2>1, <3>3
    <3>5. Promise!Close(a)
      BY <2>1, <3>2, <3>4 DEF Promise!Close
    <3> QED BY <2>1, <3>5 DEF Promise!Next
  <2> QED BY <2>2, <2>3
<1>5. CASE LoadAccount
  <2>0. PICK a \in Accounts \cup {None} : a = dbJob.account
    BY <1>5 DEF LoadAccount, IInv, ResultInv
  <2>1. dbPc = "check" /\ UNCHANGED <<conn, loggedIn>>
    BY <2>0, <1>5 DEF LoadAccount
  <2>2. CASE Return /\ UNCHANGED history
    BY <2>0, <2>1, <2>2 DEF Return, Promise!vars, SessionOf
  <2>3. CASE /\ Continue("enter")
             /\ a # None
             /\ granted' = granted \cup {<<dbJob.client, a>>}
             /\ \/ loggedIn[a] = None /\ missed' = missed
                \/ loggedIn[a] # None /\ missed' = missed \cup {a}
    <3>1. dbJob.client \in Clients /\ a \in Accounts
      BY <2>0, <2>1, <2>3 DEF IInv, ResultInv
    <3>2. CASE a \in missed
      <4>1. missed' = missed
        BY <2>0, <2>3, <3>2
      <4>2. \A b \in Accounts : SessionOf(b)' = SessionOf(b)
        BY <2>0, <2>1, <2>3, <3>2, <4>1 DEF SessionOf, Continue
      <4>3. session' = session
        BY <2>0, <4>2
      <4>4. grants' = grants
        BY <2>0, <2>3, <3>2, <4>1
      <4> QED BY <2>0, <2>1, <4>1, <4>3, <4>4 DEF Promise!vars
    <3>3. CASE a \notin missed /\ loggedIn[a] = None
      <4>1. missed' = missed
        BY <2>0, <2>3, <3>3
      <4>2. session[a] = None
        BY <2>0, <2>1, <3>1, <3>3 DEF SessionOf
      <4>3. \A b \in Accounts : SessionOf(b)' = IF b = a THEN dbJob.client ELSE SessionOf(b)
        BY <2>0, <2>1, <2>3, <3>3, <4>1 DEF SessionOf, Continue
      <4>4. session' = [session EXCEPT ![a] = dbJob.client]
        BY <2>0, <3>1, <4>3
      <4>5. grants' = grants \cup {<<dbJob.client, a>>}
        BY <2>0, <2>3, <3>3, <4>1
      <4>6. Promise!Open(dbJob.client, a)
        BY <2>0, <2>1, <3>3, <4>1, <4>2, <4>4, <4>5 DEF Promise!Open
      <4> QED BY <2>0, <3>1, <4>6 DEF Promise!Next
    <3>4. CASE a \notin missed /\ loggedIn[a] # None
      <4>1. missed' = missed \cup {a}
        BY <2>0, <2>3, <3>4
      <4>2. session[a] # None
        <5>1. loggedIn[a] \in Objects
          BY <2>0, <3>1, <3>4 DEF IInv, TypeOK
        <5>2. session[a] = loggedIn[a].client
          BY <2>0, <2>1, <3>1, <3>4 DEF SessionOf
        <5> QED BY <2>0, <5>1, <5>2
      <4>3. \A b \in Accounts : SessionOf(b)' = IF b = a THEN None ELSE SessionOf(b)
        BY <2>0, <2>1, <2>3, <4>1 DEF SessionOf, Continue
      <4>4. session' = [session EXCEPT ![a] = None]
        BY <2>0, <3>1, <4>3
      <4>5. grants' = {g \in grants : g[2] # a}
        BY <2>0, <2>3, <4>1
      <4>6. Promise!Lose(a)
        BY <2>0, <2>1, <4>1, <4>2, <4>4, <4>5 DEF Promise!Lose
      <4> QED BY <2>0, <3>1, <4>6 DEF Promise!Next
    <3> QED BY <2>0, <3>2, <3>3, <3>4
  <2> QED BY <2>0, <1>5, <2>2, <2>3, LoadAccountCases
<1>6. CASE AccountLogin
  <2>0. PICK a \in Accounts : a = dbJob.account
    BY <1>6 DEF AccountLogin, IInv, ResultInv, Objects
  <2>1. /\ dbPc = "enter" /\ dbJob \in Objects /\ a \in Accounts
        /\ a \in missed \/ loggedIn[a] = None
        /\ UNCHANGED <<conn, granted, missed>>
    BY <2>0, <1>6 DEF AccountLogin, IInv, ResultInv, ExactInv, Objects
  <2>2. \/ Return /\ loggedIn' = loggedIn
        \/ Continue("map") /\ loggedIn' = [loggedIn EXCEPT ![a] = dbJob]
    BY <2>0, <1>6 DEF AccountLogin
  <2>3. a \notin missed => Continue("map") /\ loggedIn' = [loggedIn EXCEPT ![a] = dbJob]
    BY <2>0, <1>6, <2>1 DEF AccountLogin, FindLoggedIn, Find
  <2>4. \A b \in Accounts : b # a => SessionOf(b)' = SessionOf(b)
    BY <2>0, <2>1, <2>2 DEF SessionOf, Continue, Return, IInv, TypeOK
  <2>5. SessionOf(a)' = SessionOf(a)
    <3>1. CASE a \in missed
      BY <2>0, <2>1, <2>2, <3>1 DEF SessionOf, Return, Continue
    <3>2. CASE a \notin missed
      BY <2>0, <2>1, <2>3, <3>2 DEF SessionOf, Continue, IInv, TypeOK
    <3> QED BY <2>0, <3>1, <3>2
  <2>6. session' = session
    BY <2>0, <2>4, <2>5
  <2> QED BY <2>0, <2>1, <2>6 DEF Promise!vars
<1>7. ASSUME Take \/ MapSocket \/ FindAccount \/ LoginCharacter
      PROVE  UNCHANGED Promise!vars
  <2>1. UNCHANGED <<conn, loggedIn, granted, missed>> /\ dbPc # "enter" /\ dbPc' # "enter"
    <3>1. CASE Take
      <4>1. Head(completed) \in Jobs
        BY <3>1, PopType DEF Take, Queue!Take, IInv, QueueInv, Queue!TypeOK
      <4> QED BY <3>1, <4>1 DEF Take, Jobs
    <3> QED BY <1>7, <3>1 DEF MapSocket, FindAccount, LoginCharacter, Return, Continue
  <2> QED BY <2>1 DEF Promise!vars, SessionOf
<1> QED
  BY <1>1, <1>2, <1>3, <1>4, <1>5, <1>6, <1>7
  DEF Next, SocketStep, ResultStep, Promise!Next

\* The steps of the sessions leave a connected client the session it was
\* granted.
LEMMA GrantsStep ==
  ASSUME Promise!TypeOK, Promise!GrantsAreKept, [Promise!Next]_(Promise!vars)
  PROVE  Promise!GrantsAreKept'
<1> USE JobFacts
<1> DEFINE alive == {c \in Clients : conn[c] = "up"}
           session == [a \in Accounts |-> SessionOf(a)]
           grants == {g \in granted : g[2] \notin missed}
<1> SUFFICES ASSUME NEW c \in alive', NEW a \in Accounts, <<c, a>> \in grants'
             PROVE  session'[a] = c
  BY DEF Promise!GrantsAreKept
<1>1. ASSUME NEW d \in Clients, Promise!Leave(d)
      PROVE  session'[a] = c
  <2>1. c \in alive /\ <<c, a>> \in grants /\ session' = session
    BY <1>1 DEF Promise!Leave
  <2> QED BY <2>1 DEF Promise!GrantsAreKept
<1>2. ASSUME NEW d \in Clients, NEW b \in Accounts, Promise!Open(d, b)
      PROVE  session'[a] = c
  <2>1. /\ session[b] = None /\ session' = [session EXCEPT ![b] = d]
        /\ grants' = grants \cup {<<d, b>>} /\ alive' = alive
    BY <1>2 DEF Promise!Open
  <2>2. c \in alive /\ c # None
    BY <2>1
  <2>3. <<c, a>> \in grants => session[a] = c
    BY <2>2 DEF Promise!GrantsAreKept
  <2>4. <<c, a>> \in grants \/ (c = d /\ a = b)
    BY <2>1
  <2> QED BY <2>1, <2>2, <2>3, <2>4
<1>3. ASSUME NEW b \in Accounts, Promise!Close(b)
      PROVE  session'[a] = c
  <2>1. /\ session[b] \notin alive /\ session' = [session EXCEPT ![b] = None]
        /\ grants' = grants /\ alive' = alive
    BY <1>3 DEF Promise!Close
  <2>2. c \in alive /\ <<c, a>> \in grants
    BY <2>1
  <2>3. session[a] = c
    BY <2>2 DEF Promise!GrantsAreKept
  <2> QED BY <2>1, <2>2, <2>3
<1>4. ASSUME NEW b \in Accounts, Promise!Lose(b)
      PROVE  session'[a] = c
  <2>1. /\ session' = [session EXCEPT ![b] = None]
        /\ grants' = {g \in grants : g[2] # b} /\ alive' = alive
    BY <1>4 DEF Promise!Lose
  <2>2. c \in alive /\ <<c, a>> \in grants /\ a # b
    BY <2>1
  <2>3. session[a] = c
    BY <2>2 DEF Promise!GrantsAreKept
  <2> QED BY <2>1, <2>2, <2>3
<1>5. CASE UNCHANGED Promise!vars
  <2>1. alive' = alive /\ grants' = grants /\ session' = session
    BY <1>5 DEF Promise!vars
  <2> QED BY <2>1 DEF Promise!GrantsAreKept
<1> QED BY <1>1, <1>2, <1>3, <1>4, <1>5 DEF Promise!Next

-----------------------------------------------------------------------------
LEMMA InitInv == Init => IInv /\ ExactInv /\ Promise!GrantsAreKept
<1> SUFFICES ASSUME Init
             PROVE  IInv /\ ExactInv /\ Promise!GrantsAreKept
  OBVIOUS
<1> USE JobFacts, AuthAssumption, NoneIsNoJob
<1>1. QueueInv
  BY DEF Init, QueueInv, Queue!Init, Queue!TypeOK, Queue!OncePerJob, Queue!NoDuplicates,
         Queue!In
<1>2. TypeOK
  BY <1>1 DEF Init, TypeOK, QueueInv
<1>3. MapsAreLive /\ SocketInv /\ ResultInv /\ ExactInv
  BY DEF Init, MapsAreLive, SocketInv, ResultInv, ExactInv, MapsAgree
<1>4. Promise!GrantsAreKept
  BY DEF Init, Promise!GrantsAreKept
<1> QED BY <1>1, <1>2, <1>3, <1>4 DEF IInv

\* The inductive invariant of the service, whatever its lookups miss.
THEOREM Invariance == Spec => []IInv
<1>1. Init => IInv
  BY InitInv
<1>2. IInv /\ [Next]_vars => IInv'
  BY TypeStep, QueueInvStep, ObjectsStep DEF IInv
<1> QED BY <1>1, <1>2, PTL DEF Spec

\* But for the accounts that were missed the maps agree too, and the sessions
\* are kept.
THEOREM ExactInvariance == Spec => [](IInv /\ ExactInv /\ Promise!GrantsAreKept)
<1>1. Init => IInv /\ ExactInv /\ Promise!GrantsAreKept
  BY InitInv
<1>2. IInv /\ ExactInv /\ Promise!GrantsAreKept /\ [Next]_vars
        => IInv' /\ ExactInv' /\ Promise!GrantsAreKept'
  <2> SUFFICES ASSUME IInv, ExactInv, Promise!GrantsAreKept, [Next]_vars
               PROVE  IInv' /\ ExactInv' /\ Promise!GrantsAreKept'
    OBVIOUS
  <2>1. IInv' /\ ExactInv'
    BY TypeStep, QueueInvStep, ObjectsStep, ExactStep DEF IInv
  <2>2. Promise!TypeOK
    <3>1. [a \in Accounts |-> SessionOf(a)] \in [Accounts -> Clients \cup {None}]
      BY SessionFacts
    <3> QED BY <3>1 DEF IInv, TypeOK, Promise!TypeOK
  <2>3. Promise!GrantsAreKept'
    BY <2>2, StepSimulates, GrantsStep
  <2> QED BY <2>1, <2>3
<1> QED BY <1>1, <1>2, PTL DEF Spec

\* Every variable of the service keeps its type.
THEOREM TypeCorrect == Spec => []TypeOK
<1>1. IInv => TypeOK
  BY DEF IInv
<1> QED BY <1>1, Invariance, PTL

\* An entry of a map leads to a live object of the right account or client,
\* whatever the unlocked lookups miss.
THEOREM EntriesAreLive == Spec => []MapsAreLive
<1>1. IInv => MapsAreLive
  BY DEF IInv
<1> QED BY <1>1, Invariance, PTL

\* An object found by its socket is the one entered under its account, unless
\* a login missed the account.
THEOREM EntriesAgree == Spec => []MapsAgree
<1>1. ExactInv => MapsAgree
  BY DEF ExactInv
<1> QED BY <1>1, ExactInvariance, PTL

\* A session is opened only when there is none, and ended only after its
\* client has gone; an account is lost only when a login misses its entry.
THEOREM Refinement == Spec => ImplementsSessions
<1>1. Init => Promise!Init
  <2> SUFFICES ASSUME Init
               PROVE  Promise!Init
    OBVIOUS
  <2>1. \A a \in Accounts : SessionOf(a) = None
    BY DEF Init, SessionOf
  <2> QED BY <2>1 DEF Init, Promise!Init
<1>2. IInv /\ ExactInv /\ [Next]_vars => [Promise!Next]_(Promise!vars)
  BY StepSimulates
<1>3. Spec => Promise!Init /\ [][Promise!Next]_(Promise!vars)
  BY <1>1, <1>2, ExactInvariance, PTL DEF Spec
<1> QED BY <1>3 DEF ImplementsSessions, Promise!Spec

\* Two connected clients are never told that they are logged in to one
\* account, unless a login missed it.
THEOREM SingleSession == Spec => []OneSession
<1>1. Promise!GrantsAreKept => OneSession
  BY DEF Promise!GrantsAreKept, OneSession
<1> QED BY <1>1, ExactInvariance, PTL
=============================================================================
