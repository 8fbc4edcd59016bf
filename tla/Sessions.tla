------------------------------ MODULE Sessions ------------------------------
(***************************************************************************)
(* What the authentication service promises: an account has at most one    *)
(* session, which begins when its client is told that the login succeeded  *)
(* and ends only after that client has gone.  An account can be lost:      *)
(* nothing is promised about it from then on.                              *)
(***************************************************************************)
CONSTANTS
  Clients,  \* client connections
  Accounts, \* accounts
  None      \* no client, not in Clients

VARIABLES
  alive,   \* the clients that are connected
  granted, \* the pairs <<client, account>> of successful logins
  session, \* the client each account's session belongs to
  lost     \* the accounts the service has lost track of

vars == <<alive, granted, session, lost>>

Init ==
  /\ alive = Clients
  /\ granted = {}
  /\ session = [a \in Accounts |-> None]
  /\ lost = {}

Open(c, a) ==
  /\ a \notin lost
  /\ session[a] = None
  /\ session' = [session EXCEPT ![a] = c]
  /\ granted' = granted \cup {<<c, a>>}
  /\ UNCHANGED <<alive, lost>>

Leave(c) ==
  /\ c \in alive
  /\ alive' = alive \ {c}
  /\ UNCHANGED <<granted, session, lost>>

Close(a) ==
  /\ session[a] # None
  /\ session[a] \notin alive
  /\ session' = [session EXCEPT ![a] = None]
  /\ UNCHANGED <<alive, granted, lost>>

\* An account that has a session is lost, and with it what was granted.
Lose(a) ==
  /\ session[a] # None
  /\ lost' = lost \cup {a}
  /\ session' = [session EXCEPT ![a] = None]
  /\ granted' = {g \in granted : g[2] # a}
  /\ UNCHANGED alive

Next ==
  \/ \E c \in Clients : Leave(c)
  \/ \E c \in Clients, a \in Accounts : Open(c, a)
  \/ \E a \in Accounts : Close(a) \/ Lose(a)

Spec == Init /\ [][Next]_vars

-----------------------------------------------------------------------------
\* The type of every variable.
TypeOK ==
  /\ alive \subseteq Clients
  /\ granted \subseteq Clients \X Accounts
  /\ session \in [Accounts -> Clients \cup {None}]
  /\ lost \subseteq Accounts

\* A connected client that was told it is logged in has the account's session.
GrantsAreKept == \A c \in alive, a \in Accounts : <<c, a>> \in granted => session[a] = c
=============================================================================
