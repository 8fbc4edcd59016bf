----------------------------- MODULE MCComputer -----------------------------
(* Instances of Computer for TLC.                                          *)
EXTENDS Computer, TLC

CONSTANTS p1, p2, http, db, console, forum, news

MCPorts    == {p1, p2}
MCServices == {http, db}
MCApps     == {console, forum, news}

\* The console needs no service, the forum a web server and a database, the
\* news a web server.
MCNeeds      == console :> {} @@ forum :> {http, db} @@ news :> {http}
MCWindowless == {news}

\* The console fits twice, or once beside a service that is enabled at login.
MCCost ==
  http :> [cpu |-> 1, mem |-> 1] @@ db :> [cpu |-> 1, mem |-> 1]
    @@ console :> [cpu |-> 2, mem |-> 2]
    @@ forum :> [cpu |-> 2, mem |-> 1] @@ news :> [cpu |-> 1, mem |-> 1]

\* Two web servers and one database in the inventory; one of each in the ports
\* and enabled, with the row of that web server in the inventory still there.
MCTables ==
  {[inv |-> http :> 2 @@ db :> 1, ports |-> Empty]} \cup
  {[inv |-> http :> 2 @@ db :> 0,
    ports |-> [x \in MCPorts |-> [item |-> IF x = p THEN http ELSE db, on |-> TRUE]]] :
     p \in MCPorts}

AllPorts == Permutations(MCPorts)
=============================================================================
