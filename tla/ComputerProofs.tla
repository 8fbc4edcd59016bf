---------------------------- MODULE ComputerProofs ----------------------------
(***************************************************************************)
(* For any ports, items and packets under way: no empty port is enabled on *)
(* either side, no request makes a second copy of an item, the usage       *)
(* covers the processes, and client and service agree when nothing is      *)
(* under way.                                                              *)
(***************************************************************************)
EXTENDS Computer, FiniteSetTheorems, WellFoundedInduction, TLAPS

\* The port tables in which every enabled port has software.
Sound == {ps \in [Ports -> Port] : \A p \in Ports : ps[p].on => ps[p].item # None}

\* The responses the service sends: a port table in one is sound.
SoundResponse == {m \in Response : m.op = "assets" => m.ports \in Sound}

\* The inductive invariant of ports and items.  The usage is not in it: no
\* step's guard on the way to a port or an item reads it.  UsageInv and
\* ViewInv below carry the usage and what is under way.
IInv ==
  /\ inv \in [Services -> Nat] /\ count \in [Services -> Int]
  /\ ports \in Sound /\ view \in Sound
  /\ toServer \in Seq(Request) /\ toClient \in Seq(SoundResponse)
  /\ logins \in Nat

\* What a push and a pop leave of a connection.
LEMMA Pushed ==
  ASSUME NEW S, NEW s \in Seq(S), NEW e \in S
  PROVE  Append(s, e) \in Seq(S)
OBVIOUS

LEMMA Popped ==
  ASSUME NEW S, NEW s \in Seq(S), s # <<>>
  PROVE  Head(s) \in S /\ Tail(s) \in Seq(S)
OBVIOUS

\* What a packet carries.
LEMMA RequestFields ==
  ASSUME NEW m \in Request
  PROVE  /\ m.op \in {"activate", "stopped"} => m.app \in Apps
         /\ m.op = "install" => m.port \in Ports /\ m.item \in Services
         /\ m.op = "uninstall" => m.port \in Ports
         /\ m.op = "enable" => m.port \in Ports /\ m.on \in BOOLEAN
BY DEF Request

LEMMA ResponseFields ==
  ASSUME NEW m \in SoundResponse
  PROVE  /\ m.op = "items" => m.count \in [Services -> Int]
         /\ m.op = "assets" => m.ports \in Sound
         /\ m.op = "install" => m.port \in Ports /\ m.item \in Services
         /\ m.op = "uninstall" => m.port \in Ports
         /\ m.op = "enable" => m.port \in Ports /\ m.on \in BOOLEAN
BY DEF SoundResponse, Response

\* NetworkPorts keeps a sound table sound, whatever it is asked.
LEMMA PortsStaySound ==
  ASSUME NEW ps \in Sound, NEW p \in Ports
  PROVE  /\ \A i \in Services : Installed(ps, p, i) \in Sound
         /\ Uninstalled(ps, p) \in Sound
         /\ \A b \in BOOLEAN : Enabled(ps, p, b) \in Sound
<1>1. /\ ps \in [Ports -> Port] /\ \A q \in Ports : ps[q].on => ps[q].item # None
      /\ None \notin Services
  BY ComputerAssumption DEF Sound, Items
<1>2. ASSUME NEW i \in Services PROVE Installed(ps, p, i) \in Sound
  BY <1>1 DEF Installed, Sound, Port
<1>3. Uninstalled(ps, p) \in Sound
  BY <1>1 DEF Uninstalled, Sound, Port
<1>4. ASSUME NEW b \in BOOLEAN PROVE Enabled(ps, p, b) \in Sound
  <2> DEFINE new == Enabled(ps, p, b)
  <2>1. new \in [Ports -> Port] /\ \A q \in Ports \ {p} : new[q] = ps[q]
    BY <1>1 DEF Enabled, Port
  <2>2. new[p].on => new[p].item # None
    BY <1>1 DEF Enabled, Port
  <2> QED BY <1>1, <2>1, <2>2 DEF Sound
<1> QED BY <1>2, <1>3, <1>4

LEMMA EmptyIsSound == Empty \in Sound
BY DEF Empty, Sound, Port

\* What is loaded at a login has a type, and no port is on without an item.
LEMMA TablesAreSound ==
  \A t \in Tables : t.inv \in [Services -> Nat] /\ t.ports \in Sound
BY ComputerAssumption DEF Sound

-----------------------------------------------------------------------------
\* What the world service does with a request.
LEMMA ServeStep ==
  ASSUME IInv, Serve
  PROVE  IInv'
<1> USE DEF IInv, server, client
<1> DEFINE m == Head(toServer)
<1>1. /\ m \in Request /\ toServer' \in Seq(Request)
      /\ UNCHANGED <<count, view, logins>> /\ None \notin Services
  BY Popped, ComputerAssumption DEF Serve, Items
<1>2. SUFFICES /\ inv' \in [Services -> Nat] /\ ports' \in Sound
               /\ toClient' \in Seq(SoundResponse)
  BY <1>1
<1>3. ASSUME NEW r \in SoundResponse, Reply(r) PROVE toClient' \in Seq(SoundResponse)
  BY <1>3, Pushed DEF Reply
<1>4. CASE m.op = "items" /\ ServeItems
  <2>1. [op |-> "items", count |-> inv] \in SoundResponse
    BY DEF SoundResponse, Response
  <2> QED BY <1>3, <1>4, <2>1 DEF ServeItems
<1>5. CASE m.op = "assets" /\ ServeAssets
  <2>1. [op |-> "assets", ports |-> ports] \in SoundResponse
    BY DEF SoundResponse, Response, Sound
  <2> QED BY <1>3, <1>5, <2>1 DEF ServeAssets
<1>6. CASE m.op = "activate" /\ ServeActivate(m.app)
  <2>1. CanActivate(m.app) \in BOOLEAN
    BY DEF CanActivate, Affordable
  <2>2. [op |-> "activate", app |-> m.app, ok |-> CanActivate(m.app)] \in SoundResponse
    BY <1>1, <1>6, <2>1, RequestFields DEF SoundResponse, Response
  <2> QED BY <1>3, <1>6, <2>2 DEF ServeActivate
<1>7. CASE m.op = "stopped" /\ ServeStopped(m.app)
  <2>1. [op |-> "stopped", app |-> m.app] \in SoundResponse
    BY <1>1, <1>7, RequestFields DEF SoundResponse, Response
  <2> QED BY <1>3, <1>7, <2>1 DEF ServeStopped
<1>8. CASE m.op = "install" /\ ServeInstall(m.port, m.item)
  <2>1. m.port \in Ports /\ m.item \in Services
    BY <1>1, <1>8, RequestFields
  <2>2. CASE inv[m.item] = 0
    BY <1>8, <2>2 DEF ServeInstall
  <2>3. CASE inv[m.item] # 0
    <3>1. inv' \in [Services -> Nat] /\ ports' = Installed(ports, m.port, m.item)
      <4>1. /\ inv' = [inv EXCEPT ![m.item] = @ - 1]
            /\ ports' = Installed(ports, m.port, m.item)
        BY <1>8, <2>3 DEF ServeInstall
      <4>2. inv[m.item] - 1 \in Nat
        BY <2>1, <2>3
      <4> QED BY <2>1, <4>1, <4>2
    <3>2. [op |-> "install", port |-> m.port, item |-> m.item,
           ok |-> ports[m.port].item = None] \in SoundResponse
      BY <2>1 DEF SoundResponse, Response
    <3> QED BY <1>3, <1>8, <2>1, <2>3, <3>1, <3>2, PortsStaySound DEF ServeInstall
  <2> QED BY <2>2, <2>3
<1>9. CASE m.op = "uninstall" /\ ServeUninstall(m.port)
  <2>1. m.port \in Ports
    BY <1>1, <1>9, RequestFields
  <2>2. CASE ports[m.port].item = None
    BY <1>9, <2>2 DEF ServeUninstall
  <2>3. CASE ports[m.port].item # None
    <3>1. ports[m.port].item \in Services
      BY <2>1, <2>3 DEF Sound, Port
    <3>2. inv' \in [Services -> Nat] /\ ports' = Uninstalled(ports, m.port)
      BY <1>9, <2>3, <3>1 DEF ServeUninstall
    <3>3. [op |-> "uninstall", port |-> m.port] \in SoundResponse
      BY <2>1 DEF SoundResponse, Response
    <3> QED BY <1>3, <1>9, <2>1, <2>3, <3>2, <3>3, PortsStaySound DEF ServeUninstall
  <2> QED BY <2>2, <2>3
<1>10. CASE m.op = "enable" /\ ServeEnable(m.port, m.on)
  <2>1. m.port \in Ports /\ m.on \in BOOLEAN
    BY <1>1, <1>10, RequestFields
  <2>2. ports' \in Sound
    BY <1>10, <2>1, PortsStaySound DEF ServeEnable
  <2>3. [op |-> "enable", port |-> m.port, on |-> ports'[m.port].on] \in SoundResponse
    BY <2>1, <2>2 DEF SoundResponse, Response, Sound, Port
  <2> QED BY <1>3, <1>10, <2>2, <2>3 DEF ServeEnable
<1> QED BY <1>4, <1>5, <1>6, <1>7, <1>8, <1>9, <1>10 DEF Serve

\* What the client does with a response.
LEMMA ReceiveStep ==
  ASSUME IInv, Receive
  PROVE  IInv'
<1> USE DEF IInv, server
<1> DEFINE m == Head(toClient)
<1>1. /\ m \in SoundResponse /\ toClient' \in Seq(SoundResponse)
      /\ UNCHANGED <<inv, ports, logins>>
  BY Popped DEF Receive
<1>2. SUFFICES /\ count' \in [Services -> Int] /\ view' \in Sound
               /\ toServer' \in Seq(Request)
  BY <1>1
<1>3. CASE m.op = "items" /\ ReceiveItems(m.count)
  <2>1. [op |-> "assets"] \in Request
    BY DEF Request
  <2>2. toServer' \in Seq(Request)
    BY <1>3, <2>1, Pushed DEF ReceiveItems
  <2> QED BY <1>1, <1>3, <2>2, ResponseFields DEF ReceiveItems
<1>4. CASE m.op = "assets" /\ ReceiveAssets(m.ports)
  BY <1>1, <1>4, ResponseFields DEF ReceiveAssets
<1>5. CASE m.op = "activate" /\ ReceiveActivate(m.app, m.ok)
  BY <1>5 DEF ReceiveActivate
<1>6. CASE m.op = "stopped" /\ ReceiveStopped(m.app)
  BY <1>6 DEF ReceiveStopped
<1>7. CASE m.op = "install" /\ ReceiveInstall(m.port, m.item, m.ok)
  <2>1. m.port \in Ports /\ m.item \in Services
    BY <1>1, <1>7, ResponseFields
  <2>2. CASE m.ok
    <3>1. /\ count' = [count EXCEPT ![m.item] = @ - 1]
          /\ view' = Installed(view, m.port, m.item) /\ toServer' = toServer
      BY <1>7, <2>2 DEF ReceiveInstall
    <3>2. count[m.item] - 1 \in Int
      BY <2>1
    <3> QED BY <2>1, <3>1, <3>2, PortsStaySound
  <2>3. CASE ~m.ok
    BY <1>7, <2>3 DEF ReceiveInstall
  <2> QED BY <2>2, <2>3
<1>8. CASE m.op = "uninstall" /\ ReceiveUninstall(m.port)
  <2>1. m.port \in Ports /\ view' = Uninstalled(view, m.port) /\ toServer' = toServer
    BY <1>1, <1>8, ResponseFields DEF ReceiveUninstall
  <2>2. count' \in [Services -> Int]
    <3> DEFINE i == view[m.port].item
    <3>1. CASE i = None
      BY <1>8, <3>1 DEF ReceiveUninstall
    <3>2. CASE i # None
      <4>1. i \in Services
        BY <2>1, <3>2 DEF Sound, Port
      <4>2. count' = [count EXCEPT ![i] = @ + 1]
        BY <1>8, <3>2 DEF ReceiveUninstall
      <4>3. count[i] + 1 \in Int
        BY <4>1
      <4> QED BY <4>2, <4>3
    <3> QED BY <3>1, <3>2
  <2> QED BY <2>1, <2>2, PortsStaySound
<1>9. CASE m.op = "enable" /\ ReceiveEnable(m.port, m.on)
  BY <1>1, <1>9, ResponseFields, PortsStaySound DEF ReceiveEnable
<1> QED BY <1>3, <1>4, <1>5, <1>6, <1>7, <1>8, <1>9 DEF Receive

\* The user only adds a request, or comes back with nothing under way.
LEMMA UserStep ==
  ASSUME IInv, User
  PROVE  IInv'
<1> USE DEF IInv, server
<1>1. ASSUME NEW r \in Request, Send(r) PROVE IInv'
  BY <1>1, Pushed DEF Send
<1>2. ASSUME NEW a \in Apps, OpenApp(a) \/ CloseApp(a) PROVE IInv'
  <2>1. /\ [op |-> "activate", app |-> a] \in Request
        /\ [op |-> "stopped", app |-> a] \in Request
    BY DEF Request
  <2> QED BY <1>1, <1>2, <2>1 DEF OpenApp, CloseApp
<1>3. ASSUME NEW p \in Ports, Uninstall(p) \/ Toggle(p) PROVE IInv'
  <2>1. /\ [op |-> "uninstall", port |-> p] \in Request
        /\ [op |-> "enable", port |-> p, on |-> ~view[p].on] \in Request
    BY DEF Request
  <2> QED BY <1>1, <1>3, <2>1 DEF Uninstall, Toggle
<1>4. ASSUME NEW p \in Ports, NEW s \in Services, Install(p, s) PROVE IInv'
  <2>1. [op |-> "install", port |-> p, item |-> s] \in Request
    BY DEF Request
  <2> QED BY <1>1, <1>4, <2>1 DEF Install
<1>5. CASE Relogin
  <2>1. toServer' \in Seq(Request) /\ toClient' \in Seq(SoundResponse)
    BY <1>5 DEF Relogin, Request
  <2>2. inv' \in [Services -> Nat] /\ ports' \in Sound
    BY <1>5, TablesAreSound DEF Relogin
  <2> QED BY <1>5, <2>1, <2>2, EmptyIsSound DEF Relogin
<1> QED BY <1>2, <1>3, <1>4, <1>5 DEF User

LEMMA InitHolds == Init => IInv
<1> SUFFICES ASSUME Init PROVE IInv
  OBVIOUS
<1>1. toServer \in Seq(Request) /\ toClient \in Seq(SoundResponse)
  BY DEF Init, Request
<1>2. inv \in [Services -> Nat] /\ ports \in Sound
  BY TablesAreSound DEF Init
<1> QED BY <1>1, <1>2, EmptyIsSound DEF Init, IInv

LEMMA Step ==
  ASSUME IInv, [Next]_vars
  PROVE  IInv'
<1>1. CASE UNCHANGED vars
  BY <1>1 DEF vars, server, client, network, IInv
<1> QED BY <1>1, ServeStep, ReceiveStep, UserStep DEF Next

\* No empty port is ever enabled, in the world service and in the client, for
\* any number of ports and any packets under way.
THEOREM PortsHaveSoftware == Spec => []EnabledPortHasSoftware
<1>1. IInv => EnabledPortHasSoftware
  BY DEF IInv, Sound, EnabledPortHasSoftware
<1> QED BY <1>1, InitHolds, Step, PTL DEF Spec

-----------------------------------------------------------------------------
(* Copies of items                                                         *)

InPorts(ps, s) == {q \in Ports : ps[q].item = s}

LEMMA InPortsFinite ==
  ASSUME NEW ps, NEW s
  PROVE  IsFiniteSet(InPorts(ps, s)) /\ Cardinality(InPorts(ps, s)) \in Nat
BY FS_Subset, FS_CardinalityType, ComputerAssumption DEF InPorts

\* Installing an item puts one copy more in a port at most ...
LEMMA InstallAdds ==
  ASSUME NEW ps \in Sound, NEW p \in Ports, NEW i \in Services, NEW s \in Services
  PROVE  /\ s = i => Cardinality(InPorts(Installed(ps, p, i), s))
                       <= Cardinality(InPorts(ps, s)) + 1
         /\ s # i => InPorts(Installed(ps, p, i), s) = InPorts(ps, s)
<1> DEFINE new == Installed(ps, p, i)
<1>1. ps \in [Ports -> Port] /\ None \notin Services
  BY ComputerAssumption DEF Sound, Items
<1>2. CASE ps[p].item # None
  <2>1. new = ps
    BY <1>2 DEF Installed
  <2> QED BY <2>1, InPortsFinite
<1>3. CASE ps[p].item = None
  <2>1. \A q \in Ports : new[q].item = IF q = p THEN i ELSE ps[q].item
    BY <1>1, <1>3 DEF Installed, Port
  <2>2. s # i => InPorts(new, s) = InPorts(ps, s)
    BY <1>1, <1>3, <2>1 DEF InPorts
  <2>3. s = i => InPorts(new, s) = InPorts(ps, s) \cup {p}
    BY <2>1 DEF InPorts
  <2>4. p \notin InPorts(ps, s)
    BY <1>1, <1>3 DEF InPorts
  <2>5. Cardinality(InPorts(ps, s) \cup {p}) = Cardinality(InPorts(ps, s)) + 1
    BY <2>4, InPortsFinite, FS_AddElement
  <2>6. Cardinality(InPorts(ps, s)) \in Nat
    BY InPortsFinite
  <2>7. s = i => Cardinality(InPorts(new, s)) <= Cardinality(InPorts(ps, s)) + 1
    <3> SUFFICES ASSUME s = i
                 PROVE  Cardinality(InPorts(new, s)) <= Cardinality(InPorts(ps, s)) + 1
      OBVIOUS
    <3>1. Cardinality(InPorts(new, s)) = Cardinality(InPorts(ps, s)) + 1
      BY <2>3, <2>5
    <3> HIDE DEF new
    <3> QED BY <2>6, <3>1
  <2> QED BY <2>2, <2>7
<1> QED BY <1>2, <1>3

\* ... and removing it takes exactly one out.
LEMMA UninstallRemoves ==
  ASSUME NEW ps \in Sound, NEW p \in Ports, NEW s \in Services
  PROVE  /\ ps[p].item = s => Cardinality(InPorts(Uninstalled(ps, p), s))
                                = Cardinality(InPorts(ps, s)) - 1
         /\ ps[p].item # s => InPorts(Uninstalled(ps, p), s) = InPorts(ps, s)
<1> DEFINE new == Uninstalled(ps, p)
<1>1. ps \in [Ports -> Port] /\ None \notin Services
  BY ComputerAssumption DEF Sound, Items
<1>2. \A q \in Ports : new[q].item = IF q = p THEN None ELSE ps[q].item
  BY <1>1 DEF Uninstalled
<1>3. InPorts(new, s) = InPorts(ps, s) \ {p}
  BY <1>1, <1>2 DEF InPorts
<1>4. p \in InPorts(ps, s) <=> ps[p].item = s
  BY DEF InPorts
<1>5. p \in InPorts(ps, s) =>
        Cardinality(InPorts(ps, s) \ {p}) = Cardinality(InPorts(ps, s)) - 1
  BY InPortsFinite, FS_RemoveElement
<1> QED BY <1>3, <1>4, <1>5

\* Enabling leaves the items where they are.
LEMMA EnableKeeps ==
  ASSUME NEW ps \in Sound, NEW p \in Ports, NEW b \in BOOLEAN, NEW s
  PROVE  InPorts(Enabled(ps, p, b), s) = InPorts(ps, s)
BY DEF InPorts, Enabled, Sound, Port

\* A request that the service handles.
LEMMA ServeKeepsTotal ==
  ASSUME IInv, Serve, NEW s \in Services
  PROVE  Total(s)' <= Total(s)
<1> USE DEF IInv
<1> DEFINE m == Head(toServer)
           n == Cardinality(InPorts(ports, s))
<1>1. m \in Request
  BY Popped DEF Serve
<1>2. Total(s) = inv[s] + n /\ Total(s)' = inv'[s] + Cardinality(InPorts(ports', s))
  BY DEF Total, InPorts
<1>3. inv[s] \in Nat /\ n \in Nat /\ Cardinality(InPorts(ports', s)) \in Nat
  BY InPortsFinite
<1>4. ASSUME UNCHANGED <<inv, ports>> PROVE Total(s)' <= Total(s)
  BY <1>2, <1>3, <1>4
<1>5. CASE m.op = "install" /\ ServeInstall(m.port, m.item)
  <2>1. m.port \in Ports /\ m.item \in Services
    BY <1>1, <1>5, RequestFields
  <2>2. CASE inv[m.item] = 0
    BY <1>4, <1>5, <2>2 DEF ServeInstall, server
  <2>3. CASE inv[m.item] # 0
    <3>1. /\ inv' = [inv EXCEPT ![m.item] = @ - 1]
          /\ ports' = Installed(ports, m.port, m.item)
      BY <1>5, <2>3 DEF ServeInstall
    <3>2. CASE s = m.item
      <4>1. inv'[s] = inv[s] - 1
        BY <3>1, <3>2, <2>1
      <4>2. Cardinality(InPorts(ports', s)) <= n + 1
        BY <3>1, <3>2, <2>1, InstallAdds
      <4> QED BY <4>1, <4>2, <1>2, <1>3
    <3>3. CASE s # m.item
      <4>1. inv'[s] = inv[s]
        BY <3>1, <3>3, <2>1
      <4>2. InPorts(ports', s) = InPorts(ports, s)
        BY <3>1, <3>3, <2>1, InstallAdds
      <4> QED BY <4>1, <4>2, <1>2, <1>3
    <3> QED BY <3>2, <3>3
  <2> QED BY <2>2, <2>3
<1>6. CASE m.op = "uninstall" /\ ServeUninstall(m.port)
  <2>1. m.port \in Ports
    BY <1>1, <1>6, RequestFields
  <2>2. CASE ports[m.port].item = None
    BY <1>4, <1>6, <2>2 DEF ServeUninstall, server
  <2>3. CASE ports[m.port].item # None
    <3> DEFINE i == ports[m.port].item
    <3>1. i \in Services
      BY <2>1, <2>3 DEF Sound, Port
    <3>2. inv' = [inv EXCEPT ![i] = @ + 1] /\ ports' = Uninstalled(ports, m.port)
      BY <1>6, <2>3 DEF ServeUninstall
    <3>3. CASE s = i
      <4>1. inv'[s] = inv[s] + 1
        BY <3>1, <3>2, <3>3
      <4>2. Cardinality(InPorts(ports', s)) = n - 1
        BY <3>2, <3>3, <2>1, UninstallRemoves
      <4> QED BY <4>1, <4>2, <1>2, <1>3
    <3>4. CASE s # i
      <4>1. inv'[s] = inv[s]
        BY <3>1, <3>2, <3>4
      <4>2. InPorts(ports', s) = InPorts(ports, s)
        BY <3>2, <3>4, <2>1, UninstallRemoves
      <4> QED BY <4>1, <4>2, <1>2, <1>3
    <3> QED BY <3>3, <3>4
  <2> QED BY <2>2, <2>3
<1>7. CASE m.op = "enable" /\ ServeEnable(m.port, m.on)
  <2>1. m.port \in Ports /\ m.on \in BOOLEAN
    BY <1>1, <1>7, RequestFields
  <2>2. ports' = Enabled(ports, m.port, m.on) /\ inv' = inv
    BY <1>7 DEF ServeEnable
  <2>3. InPorts(ports', s) = InPorts(ports, s)
    BY <2>1, <2>2, EnableKeeps
  <2> QED BY <2>2, <2>3, <1>2, <1>3
<1> QED BY <1>4, <1>5, <1>6, <1>7
        DEF Serve, ServeItems, ServeAssets, ServeActivate, ServeStopped, server

\* No sequence of requests between two logins makes a second copy of an item,
\* for any number of items, ports and packets under way, and whatever the rows
\* held that were loaded.
THEOREM ItemsAreNotDuplicated == Spec => NothingIsDuplicated
<1>1. IInv /\ [Next]_vars
        => [logins' = logins => \A s \in Services : Total(s)' <= Total(s)]_vars
  <2> SUFFICES ASSUME IInv, Next, logins' = logins
               PROVE  \A s \in Services : Total(s)' <= Total(s)
    OBVIOUS
  <2>1. ASSUME UNCHANGED <<inv, ports>>, NEW s \in Services PROVE Total(s)' <= Total(s)
    <3>1. Total(s) = inv[s] + Cardinality(InPorts(ports, s)) /\ Total(s)' = Total(s)
      BY <2>1 DEF Total, InPorts
    <3>2. Total(s) \in Nat
      BY <3>1, InPortsFinite DEF IInv
    <3> QED BY <3>1, <3>2
  <2>2. CASE Receive \/ (User /\ ~Relogin)
    <3>1. UNCHANGED <<inv, ports>>
      BY <2>2 DEF Receive, User, OpenApp, CloseApp, Install, Uninstall, Toggle, Send,
                  server
    <3> QED BY <2>1, <3>1
  <2>3. ~Relogin
    BY DEF Relogin, IInv
  <2> QED BY <2>2, <2>3, ServeKeepsTotal DEF Next
<1>2. IInv /\ [Next]_vars => IInv'
  BY Step
<1> QED BY <1>1, <1>2, InitHolds, PTL DEF Spec, NothingIsDuplicated

-----------------------------------------------------------------------------
(* What processes cost                                                     *)

\* The element a fold takes out of a set, and what it leaves.
Chosen(T) == CHOOSE x \in T : TRUE
Rest(T)   == T \ {Chosen(T)}

\* Induction over the numbers and over the subsets of a finite set, with a
\* set in place of a predicate: a least counterexample would have a smaller one.
LEMMA NumberInduction ==
  ASSUME NEW G, 0 \in G, \A k \in Nat : k \in G => k + 1 \in G
  PROVE  Nat \subseteq G
<1> SUFFICES ASSUME NEW m \in Nat, m \notin G PROVE FALSE
  OBVIOUS
<1> DEFINE Bad == Nat \ G
<1>1. PICK k \in Bad : \A y \in Bad : ~(<<y, k>> \in OpToRel(<, Nat))
  BY NatLessThanWellFounded, WFMin
<1>2. k \in Nat /\ k # 0
  BY <1>1
<1>3. k - 1 \in Nat /\ k - 1 < k
  BY <1>2
<1>4. k - 1 \in Bad
  <2>1. (k - 1) + 1 = k
    BY <1>2
  <2> QED BY <1>1, <1>3, <2>1
<1> QED BY <1>1, <1>2, <1>3, <1>4 DEF OpToRel

LEMMA RestIsSmaller ==
  ASSUME NEW S, IsFiniteSet(S), NEW T \in SUBSET S
  PROVE  /\ IsFiniteSet(T) /\ Cardinality(T) \in Nat /\ Cardinality(T) <= Cardinality(S)
         /\ T # {} => /\ Chosen(T) \in T /\ Rest(T) \in SUBSET S
                      /\ Cardinality(Rest(T)) = Cardinality(T) - 1
                      /\ Cardinality(T) - 1 \in Nat
<1>1. IsFiniteSet(T) /\ Cardinality(T) \in Nat /\ Cardinality(T) <= Cardinality(S)
  BY FS_Subset, FS_CardinalityType
<1>2. T # {} => Chosen(T) \in T
  BY DEF Chosen
<1>3. T # {} => Cardinality(Rest(T)) = Cardinality(T) - 1
  BY <1>1, <1>2, FS_RemoveElement DEF Rest
<1>4. Cardinality(Rest(T)) \in Nat
  BY <1>1, FS_Subset, FS_CardinalityType DEF Rest
<1> QED BY <1>1, <1>2, <1>3, <1>4 DEF Rest

LEMMA SubsetInduction ==
  ASSUME NEW S, IsFiniteSet(S), NEW G, {} \in G,
         \A T \in SUBSET S : T # {} /\ Rest(T) \in G => T \in G
  PROVE  \A T \in SUBSET S : T \in G
<1> SUFFICES ASSUME NEW R \in SUBSET S, R \notin G PROVE FALSE
  OBVIOUS
<1> DEFINE Bad == {k \in Nat : \E T \in SUBSET S : T \notin G /\ Cardinality(T) = k}
<1>1. Bad \in SUBSET Nat /\ Bad # {}
  BY RestIsSmaller
<1>2. PICK k \in Bad : \A y \in Bad : ~(<<y, k>> \in OpToRel(<, Nat))
  BY <1>1, NatLessThanWellFounded, WFMin
<1>3. PICK T \in SUBSET S : T \notin G /\ Cardinality(T) = k
  BY <1>2
<1>4. /\ Rest(T) \in SUBSET S /\ Rest(T) \notin G
      /\ Cardinality(Rest(T)) = k - 1 /\ k - 1 \in Nat
  BY <1>3, RestIsSmaller
<1>5. k - 1 \in Bad
  BY <1>4
<1>6. <<k - 1, k>> \in OpToRel(<, Nat)
  BY <1>4, <1>1 DEF OpToRel
<1> QED BY <1>2, <1>5, <1>6

\* One more item in the sum, and the sum over the subsets of the items: the
\* recursive function inside FoldSet.
Plus(n, i, u) ==
  [cpu |-> u.cpu + n[i] * Cost[i].cpu, mem |-> u.mem + n[i] * Cost[i].mem]
Body(n, f, T) == IF T = {} THEN Idle ELSE Plus(n, Chosen(T), f[Rest(T)])
CostIn(n)     == CHOOSE f : f = [T \in SUBSET Items |-> Body(n, f, T)]

LEMMA CostOfIn ==
  ASSUME NEW n
  PROVE  CostOf(n) = CostIn(n)[Items]
BY DEF CostOf, FoldSet, MapThenFoldSet, CostIn, Body, Plus, Chosen, Rest

\* The recursive function exists: on the subsets of k items, for every k.
LEMMA CostInExists ==
  ASSUME NEW n
  PROVE  CostIn(n) = [T \in SUBSET Items |-> Body(n, CostIn(n), T)]
<1> DEFINE Small(k) == {T \in SUBSET Items : Cardinality(T) <= k}
           G == {k \in Nat : \E f : f = [T \in Small(k) |-> Body(n, f, T)]}
<1>1. \A T \in SUBSET Items : /\ Cardinality(T) \in Nat
                              /\ Cardinality(T) <= Cardinality(Items)
  BY ComputerAssumption, RestIsSmaller
<1>2. \A T \in SUBSET Items : T # {} =>
        Rest(T) \in SUBSET Items /\ Cardinality(Rest(T)) = Cardinality(T) - 1
  BY ComputerAssumption, RestIsSmaller
<1>3. 0 \in G
  <2> DEFINE f == [T \in Small(0) |-> Idle]
  <2>1. \A T \in Small(0) : T = {}
    BY <1>1, <1>2
  <2>2. f = [T \in Small(0) |-> Body(n, f, T)]
    BY <2>1 DEF Body
  <2> QED BY <2>2
<1>4. ASSUME NEW k \in Nat, k \in G PROVE k + 1 \in G
  <2>1. PICK f : f = [T \in Small(k) |-> Body(n, f, T)]
    BY <1>4
  <2> DEFINE g == [T \in Small(k + 1) |-> Body(n, f, T)]
  <2>2. \A T \in Small(k) : T \in Small(k + 1) /\ g[T] = f[T]
    BY <1>1, <2>1
  <2>3. \A T \in Small(k + 1) : T # {} => Rest(T) \in Small(k)
    BY <1>1, <1>2
  <2>4. \A T \in Small(k + 1) : Body(n, g, T) = Body(n, f, T)
    <3> HIDE DEF g
    <3> TAKE T \in Small(k + 1)
    <3>1. CASE T = {}
      BY <3>1 DEF Body
    <3>2. CASE T # {}
      <4>1. g[Rest(T)] = f[Rest(T)]
        BY <2>2, <2>3, <3>2
      <4> QED BY <3>2, <4>1 DEF Body
    <3> QED BY <3>1, <3>2
  <2>5. g = [T \in Small(k + 1) |-> Body(n, g, T)]
    BY <2>4
  <2> HIDE DEF g
  <2> QED BY <2>5
<1>5. Cardinality(Items) \in G
  <2> HIDE DEF G
  <2>1. Cardinality(Items) \in Nat
    BY <1>1
  <2> QED BY <1>3, <1>4, <2>1, NumberInduction
<1>6. Small(Cardinality(Items)) = SUBSET Items
  BY <1>1
<1>7. \E f : f = [T \in SUBSET Items |-> Body(n, f, T)]
  BY <1>5, <1>6
<1> QED BY <1>7 DEF CostIn

\* The sum as an equation.
LEMMA CostInStep ==
  ASSUME NEW n
  PROVE  /\ CostIn(n)[{}] = Idle
         /\ \A T \in SUBSET Items : T # {} =>
              /\ Chosen(T) \in T /\ Rest(T) \in SUBSET Items
              /\ CostIn(n)[T] = Plus(n, Chosen(T), CostIn(n)[Rest(T)])
<1>1. \A T \in SUBSET Items : CostIn(n)[T] = Body(n, CostIn(n), T)
  BY CostInExists
<1>2. \A T \in SUBSET Items : T # {} => Chosen(T) \in T /\ Rest(T) \in SUBSET Items
  BY ComputerAssumption, RestIsSmaller
<1> QED BY <1>1, <1>2 DEF Body

Load == [cpu : Nat, mem : Nat]

LEMMA ProductType ==
  ASSUME NEW n \in [Items -> Nat], NEW i \in Items
  PROVE  /\ n[i] * Cost[i].cpu \in Nat /\ n[i] * Cost[i].mem \in Nat
         /\ Cost[i].cpu \in Nat /\ Cost[i].mem \in Nat
<1>1. n[i] \in Nat /\ Cost[i].cpu \in Nat /\ Cost[i].mem \in Nat
  BY ComputerAssumption
<1> QED BY <1>1

\* Processes cost a natural number of each resource.
LEMMA CostInType ==
  ASSUME NEW n \in [Items -> Nat]
  PROVE  \A T \in SUBSET Items : CostIn(n)[T] \in Load
<1> DEFINE G == {T \in SUBSET Items : CostIn(n)[T] \in Load}
<1>1. {} \in G
  BY CostInStep DEF Load, Idle
<1>2. ASSUME NEW T \in SUBSET Items, T # {}, Rest(T) \in G PROVE T \in G
  <2>1. /\ Chosen(T) \in Items /\ CostIn(n)[T] = Plus(n, Chosen(T), CostIn(n)[Rest(T)])
        /\ CostIn(n)[Rest(T)] \in Load
    BY <1>2, CostInStep
  <2>2. /\ n[Chosen(T)] * Cost[Chosen(T)].cpu \in Nat
        /\ n[Chosen(T)] * Cost[Chosen(T)].mem \in Nat
    BY <2>1, ProductType
  <2> QED BY <2>1, <2>2 DEF Plus, Load
<1>3. \A T \in SUBSET Items : T \in G
  <2> HIDE DEF G
  <2> QED BY <1>1, <1>2, SubsetInduction, ComputerAssumption
<1> QED BY <1>3

\* One process more costs what its item costs.
LEMMA CostInRaise ==
  ASSUME NEW n \in [Items -> Nat], NEW a \in Items
  PROVE  \A T \in SUBSET Items :
           CostIn([n EXCEPT ![a] = @ + 1])[T] =
             IF a \in T THEN Add(CostIn(n)[T], a) ELSE CostIn(n)[T]
<1> DEFINE m == [n EXCEPT ![a] = @ + 1]
           G == {T \in SUBSET Items :
                   CostIn(m)[T] = IF a \in T THEN Add(CostIn(n)[T], a) ELSE CostIn(n)[T]}
<1>1. /\ m \in [Items -> Nat] /\ m[a] = n[a] + 1
      /\ \A i \in Items \ {a} : m[i] = n[i]
  OBVIOUS
<1> HIDE DEF m
<1>2. {} \in G
  BY CostInStep
<1>3. ASSUME NEW T \in SUBSET Items, T # {}, Rest(T) \in G PROVE T \in G
  <2> DEFINE i == Chosen(T)
             u == CostIn(n)[Rest(T)]
             v == CostIn(m)[Rest(T)]
  <2>1. /\ i \in T /\ i \in Items /\ Rest(T) \in SUBSET Items /\ Rest(T) = T \ {i}
        /\ CostIn(n)[T] = Plus(n, i, u) /\ CostIn(m)[T] = Plus(m, i, v)
    BY <1>3, CostInStep DEF Rest
  <2>2. u \in Load /\ v = IF a \in Rest(T) THEN Add(u, a) ELSE u
    BY <1>3, <2>1, CostInType
  <2>3. /\ n[i] \in Nat /\ Cost[i].cpu \in Nat /\ Cost[i].mem \in Nat
        /\ Cost[a].cpu \in Nat /\ Cost[a].mem \in Nat /\ u.cpu \in Nat /\ u.mem \in Nat
    BY <2>1, <2>2, ProductType DEF Load
  <2> HIDE DEF i, u, v
  <2>4. CASE a = i
    <3>1. v = u
      BY <2>1, <2>2, <2>4
    <3>2. Plus(m, i, u) = Add(Plus(n, i, u), i)
      <4>1. (n[i] + 1) * Cost[i].cpu = n[i] * Cost[i].cpu + Cost[i].cpu
        BY <2>3
      <4>2. (n[i] + 1) * Cost[i].mem = n[i] * Cost[i].mem + Cost[i].mem
        BY <2>3
      <4>3. n[i] * Cost[i].cpu \in Nat /\ n[i] * Cost[i].mem \in Nat
        BY <2>3
      <4> QED BY <1>1, <2>3, <2>4, <4>1, <4>2, <4>3 DEF Plus, Add
    <3> QED BY <2>1, <2>4, <3>1, <3>2
  <2>5. CASE a # i
    <3>1. m[i] = n[i] /\ (a \in T <=> a \in Rest(T))
      BY <1>1, <2>1, <2>5
    <3>2. n[i] * Cost[i].cpu \in Nat /\ n[i] * Cost[i].mem \in Nat
      BY <2>3
    <3>3. Plus(m, i, Add(u, a)) = Add(Plus(n, i, u), a) /\ Plus(m, i, u) = Plus(n, i, u)
      BY <2>3, <3>1, <3>2 DEF Plus, Add
    <3> QED BY <2>1, <2>2, <3>1, <3>3
  <2> QED BY <2>4, <2>5
<1>4. \A T \in SUBSET Items : T \in G
  <2> HIDE DEF G
  <2> QED BY <1>2, <1>3, SubsetInduction, ComputerAssumption
<1> QED BY <1>4 DEF m

\* Fewer processes of each item cost no more.
LEMMA CostInCovers ==
  ASSUME NEW n \in [Items -> Nat], NEW m \in [Items -> Nat],
         \A i \in Items : m[i] <= n[i]
  PROVE  \A T \in SUBSET Items : /\ CostIn(m)[T].cpu <= CostIn(n)[T].cpu
                                 /\ CostIn(m)[T].mem <= CostIn(n)[T].mem
<1> DEFINE G == {T \in SUBSET Items : /\ CostIn(m)[T].cpu <= CostIn(n)[T].cpu
                                      /\ CostIn(m)[T].mem <= CostIn(n)[T].mem}
<1>1. {} \in G
  BY CostInStep DEF Idle
<1>2. ASSUME NEW T \in SUBSET Items, T # {}, Rest(T) \in G PROVE T \in G
  <2> DEFINE i == Chosen(T)
             u == CostIn(n)[Rest(T)]
             v == CostIn(m)[Rest(T)]
  <2>1. /\ i \in Items /\ Rest(T) \in SUBSET Items
        /\ CostIn(n)[T] = Plus(n, i, u) /\ CostIn(m)[T] = Plus(m, i, v)
    BY <1>2, CostInStep
  <2>2. /\ v.cpu \in Nat /\ u.cpu \in Nat /\ v.mem \in Nat /\ u.mem \in Nat
        /\ v.cpu <= u.cpu /\ v.mem <= u.mem
    BY <1>2, <2>1, CostInType DEF Load
  <2>3. m[i] \in Nat /\ n[i] \in Nat /\ m[i] <= n[i]
        /\ Cost[i].cpu \in Nat /\ Cost[i].mem \in Nat
    BY <2>1, ProductType
  <2>4. ASSUME NEW x \in Nat, NEW y \in Nat, NEW z \in Nat, x <= y PROVE x * z <= y * z
    <3>1. (y - x) * z >= 0 /\ (y - x) * z = y * z - x * z
      BY <2>4
    <3>2. x * z \in Nat /\ y * z \in Nat
      OBVIOUS
    <3> QED BY <3>1, <3>2
  <2> HIDE DEF i, u, v
  <2>5. /\ m[i] * Cost[i].cpu <= n[i] * Cost[i].cpu /\ m[i] * Cost[i].mem <= n[i] * Cost[i].mem
        /\ m[i] * Cost[i].cpu \in Nat /\ n[i] * Cost[i].cpu \in Nat
        /\ m[i] * Cost[i].mem \in Nat /\ n[i] * Cost[i].mem \in Nat
    BY <2>3, <2>4
  <2> QED BY <2>1, <2>2, <2>5 DEF Plus
<1>3. \A T \in SUBSET Items : T \in G
  <2> HIDE DEF G
  <2> QED BY <1>1, <1>2, SubsetInduction, ComputerAssumption
<1> QED BY <1>3

\* What the steps of the usage need of all this.
LEMMA CostType ==
  ASSUME NEW n \in [Items -> Nat]
  PROVE  CostOf(n) \in Load
BY CostOfIn, CostInType

LEMMA CostRaise ==
  ASSUME NEW n \in [Items -> Nat], NEW a \in Items
  PROVE  CostOf([n EXCEPT ![a] = @ + 1]) = Add(CostOf(n), a)
BY CostOfIn, CostInRaise

LEMMA CostLower ==
  ASSUME NEW n \in [Items -> Nat], NEW a \in Items, n[a] > 0
  PROVE  CostOf([n EXCEPT ![a] = @ - 1]) = Sub(CostOf(n), a)
<1> DEFINE m == [n EXCEPT ![a] = @ - 1]
<1>1. m \in [Items -> Nat] /\ n = [m EXCEPT ![a] = @ + 1]
  <2>1. n[a] - 1 \in Nat /\ (n[a] - 1) + 1 = n[a]
    OBVIOUS
  <2>2. m[a] + 1 = n[a] /\ \A i \in Items \ {a} : m[i] = n[i]
    BY <2>1
  <2>3. m \in [Items -> Nat]
    BY <2>1
  <2> HIDE DEF m
  <2> QED BY <2>2, <2>3
<1> HIDE DEF m
<1>2. CostOf(n) = Add(CostOf(m), a) /\ CostOf(m) \in Load
  BY <1>1, CostRaise, CostType
<1>3. Cost[a].cpu \in Nat /\ Cost[a].mem \in Nat
  BY ProductType
<1>4. Sub(Add(CostOf(m), a), a) = CostOf(m)
  BY <1>2, <1>3 DEF Load, Add, Sub
<1> QED BY <1>2, <1>4 DEF m

LEMMA CostCovers ==
  ASSUME NEW n \in [Items -> Nat], NEW m \in [Items -> Nat],
         \A i \in Items : m[i] <= n[i]
  PROVE  CostOf(m).cpu <= CostOf(n).cpu /\ CostOf(m).mem <= CostOf(n).mem
BY CostOfIn, CostInCovers

LEMMA BootType ==
  ASSUME NEW ps
  PROVE  BootProcs(ps) \in [Items -> Nat] /\ Booted(ps) \in Load
<1>1. \A i : Cardinality({p \in Ports : ps[p].on /\ ps[p].item = i}) \in Nat
  BY FS_Subset, FS_CardinalityType, ComputerAssumption
<1> QED BY <1>1, CostType DEF BootProcs, Booted

-----------------------------------------------------------------------------
(* The usage of the world service                                          *)

\* How many packets m are under way in s.
Places(s, m) == {i \in DOMAIN s : s[i] = m}
Number(s, m) == Cardinality(Places(s, m))

LEMMA NumberType ==
  ASSUME NEW S, NEW s \in Seq(S), NEW m
  PROVE  Number(s, m) \in Nat /\ IsFiniteSet(Places(s, m))
<1>1. IsFiniteSet(DOMAIN s)
  BY FS_Interval
<1> QED BY <1>1, FS_Subset, FS_CardinalityType DEF Number, Places

LEMMA NumberOfNone == \A m, e : Number(<<>>, m) = 0 /\ (e # m => Number(<<e>>, m) = 0)
<1>1. \A m, e : Places(<<>>, m) = {} /\ (e # m => Places(<<e>>, m) = {})
  BY DEF Places
<1> QED BY <1>1, FS_EmptySet DEF Number

LEMMA NumberAppended ==
  ASSUME NEW S, NEW s \in Seq(S), NEW e \in S, NEW m
  PROVE  Number(Append(s, e), m) = Number(s, m) + IF e = m THEN 1 ELSE 0
<1>1. /\ DOMAIN Append(s, e) = DOMAIN s \cup {Len(s) + 1}
      /\ \A i \in DOMAIN s : Append(s, e)[i] = s[i]
      /\ Append(s, e)[Len(s) + 1] = e /\ Len(s) + 1 \notin DOMAIN s
  OBVIOUS
<1>2. CASE e = m
  <2>1. /\ Places(Append(s, e), m) = Places(s, m) \cup {Len(s) + 1}
        /\ Len(s) + 1 \notin Places(s, m)
    BY <1>1, <1>2 DEF Places
  <2> QED BY <1>2, <2>1, NumberType, FS_AddElement DEF Number
<1>3. CASE e # m
  <2>1. Places(Append(s, e), m) = Places(s, m)
    BY <1>1, <1>3 DEF Places
  <2> QED BY <1>3, <2>1, NumberType DEF Number
<1> QED BY <1>2, <1>3

LEMMA NumberPopped ==
  ASSUME NEW S, NEW s \in Seq(S), s # <<>>, NEW m
  PROVE  Number(s, m) = Number(Tail(s), m) + IF Head(s) = m THEN 1 ELSE 0
<1>1. /\ DOMAIN Tail(s) = 1..(Len(s) - 1)
      /\ \A i \in DOMAIN Tail(s) : Tail(s)[i] = s[i + 1]
      /\ DOMAIN s = 1..Len(s) /\ Len(s) \in Nat /\ Len(s) > 0
      /\ Head(s) = s[1] /\ Tail(s) \in Seq(S)
  OBVIOUS
<1> DEFINE T == Places(Tail(s), m)
           F == [i \in T |-> i + 1]
<1>2. T \subseteq 1..(Len(s) - 1) /\ IsFiniteSet(T)
  BY <1>1, NumberType DEF Places
<1>3. Places(s, m) \ {1} = {i + 1 : i \in T}
  <2>1. \A i \in T : i + 1 \in Places(s, m) \ {1}
    BY <1>1 DEF Places
  <2>2. \A j \in Places(s, m) \ {1} : j - 1 \in T /\ (j - 1) + 1 = j
    BY <1>1 DEF Places
  <2> QED BY <2>1, <2>2
<1>4. F \in Bijection(T, Places(s, m) \ {1})
  <2>1. F \in [T -> Places(s, m) \ {1}]
    BY <1>3
  <2>2. \A i, j \in T : F[i] = F[j] => i = j
    BY <1>2
  <2>3. \A j \in Places(s, m) \ {1} : \E i \in T : F[i] = j
    BY <1>3
  <2>4. DOMAIN F = T
    OBVIOUS
  <2> HIDE DEF F, T
  <2> QED BY <2>1, <2>2, <2>3, <2>4 DEF Bijection, Injection, Surjection, IsInjective
<1>5. Cardinality(Places(s, m) \ {1}) = Number(Tail(s), m)
  BY <1>2, <1>4, FS_Bijection DEF ExistsBijection, Number
<1>6. 1 \in Places(s, m) <=> Head(s) = m
  BY <1>1 DEF Places
<1>7. 1 \in Places(s, m) => Cardinality(Places(s, m) \ {1}) = Number(s, m) - 1
  BY NumberType, FS_RemoveElement DEF Number
<1>8. 1 \notin Places(s, m) => Places(s, m) \ {1} = Places(s, m)
  OBVIOUS
<1>9. Number(s, m) \in Nat /\ Number(Tail(s), m) \in Nat
  BY <1>1, NumberType
<1>10. Number(Tail(s), m) = IF 1 \in Places(s, m) THEN Number(s, m) - 1 ELSE Number(s, m)
  BY <1>5, <1>7, <1>8 DEF Number
<1> QED BY <1>6, <1>9, <1>10

\* The answer that opens a window, and the request of one that was closed.
Ok(a)   == [op |-> "activate", app |-> a, ok |-> TRUE]
Stop(a) == [op |-> "stopped", app |-> a]

\* The starts of an app that the service has counted in the usage and that no
\* served stop has taken out: one for an open window, one for an answer under
\* way and one for a stop under way.
Slack(a) ==
  (IF a \in windows THEN 1 ELSE 0) + Number(toClient, Ok(a)) + Number(toServer, Stop(a))

\* The usage is the cost of some processes: at least those in the list, and
\* enough of every app to take out what the stops under way will take.
UsageInv ==
  /\ procs \in [Items -> Nat] /\ windows \subseteq Apps
  /\ \E n \in [Items -> Nat] :
       /\ used = CostOf(n)
       /\ \A i \in Items : procs[i] <= n[i]
       /\ \A a \in Apps : Slack(a) <= n[a]

LEMMA SlackType ==
  ASSUME IInv, NEW a \in Apps
  PROVE  /\ Number(toClient, Ok(a)) \in Nat /\ Number(toServer, Stop(a)) \in Nat
         /\ Slack(a) \in Nat
         /\ Number(toServer, Stop(a)) <= Slack(a)
<1>1. Number(toClient, Ok(a)) \in Nat /\ Number(toServer, Stop(a)) \in Nat
  BY NumberType DEF IInv
<1> QED BY <1>1 DEF Slack

\* A step that does not touch the usage and adds nothing to what is under way.
LEMMA UsageStays ==
  ASSUME IInv, UsageInv, UNCHANGED <<used, procs>>, windows' \subseteq Apps,
         IInv', \A a \in Apps : Slack(a)' <= Slack(a)
  PROVE  UsageInv'
<1>1. PICK n \in [Items -> Nat] : /\ used = CostOf(n)
                                  /\ \A i \in Items : procs[i] <= n[i]
                                  /\ \A a \in Apps : Slack(a) <= n[a]
  BY DEF UsageInv
<1>2. \A a \in Apps : a \in Items /\ n[a] \in Nat /\ Slack(a) \in Nat /\ Slack(a)' \in Nat
  <2>1. \A a \in Apps : Slack(a)' \in Nat
    <3> TAKE a \in Apps
    <3>1. Number(toClient', Ok(a)) \in Nat /\ Number(toServer', Stop(a)) \in Nat
      BY NumberType DEF IInv
    <3> QED BY <3>1 DEF Slack
  <2> QED BY <2>1, SlackType DEF Items
<1>3. \A a \in Apps : Slack(a)' <= n[a]
  BY <1>1, <1>2
<1>4. used' = CostOf(n) /\ \A i \in Items : procs'[i] <= n[i]
  BY <1>1
<1> QED BY <1>3, <1>4 DEF UsageInv

\* A request is handled: a start adds a process and the answer for it, a stop
\* takes out one process of those the usage still counts.
LEMMA ServeUsageStep ==
  ASSUME IInv, IInv', UsageInv, Serve
  PROVE  UsageInv'
<1> DEFINE m == Head(toServer)
<1>1. /\ toServer # <<>> /\ toServer' = Tail(toServer) /\ m \in Request
      /\ windows' = windows /\ toServer \in Seq(Request) /\ toClient \in Seq(SoundResponse)
      /\ toClient' \in Seq(SoundResponse)
  BY Popped DEF Serve, IInv, client
<1>2. \A a \in Apps : Number(toServer, Stop(a)) =
                        Number(toServer', Stop(a)) + IF m = Stop(a) THEN 1 ELSE 0
  BY <1>1, NumberPopped
<1>3. \A a \in Apps : /\ Number(toServer, Stop(a)) \in Nat /\ Number(toServer', Stop(a)) \in Nat
                      /\ Number(toClient, Ok(a)) \in Nat /\ Number(toClient', Ok(a)) \in Nat
  BY NumberType DEF IInv
<1>4. ASSUME NEW r \in SoundResponse, Reply(r)
      PROVE  \A a \in Apps : Number(toClient', Ok(a)) =
                               Number(toClient, Ok(a)) + IF r = Ok(a) THEN 1 ELSE 0
  BY <1>1, <1>4, NumberAppended DEF Reply
<1>5. ASSUME UNCHANGED <<used, procs>>,
             \/ UNCHANGED toClient
             \/ \E r \in SoundResponse : Reply(r) /\ \A a \in Apps : r # Ok(a)
      PROVE  UsageInv'
  <2>1. \A a \in Apps : Number(toClient', Ok(a)) = Number(toClient, Ok(a))
    BY <1>3, <1>4, <1>5
  <2>2. \A a \in Apps : Slack(a)' <= Slack(a)
    <3> TAKE a \in Apps
    <3>1. Slack(a)' = (IF a \in windows THEN 1 ELSE 0) + Number(toClient', Ok(a))
                        + Number(toServer', Stop(a))
      BY <1>1 DEF Slack
    <3> QED BY <1>2, <1>3, <2>1, <3>1 DEF Slack
  <2> QED BY <1>1, <1>5, <2>2, UsageStays DEF UsageInv
<1>6. PICK n \in [Items -> Nat] : /\ used = CostOf(n)
                                  /\ \A i \in Items : procs[i] <= n[i]
                                  /\ \A a \in Apps : Slack(a) <= n[a]
  BY DEF UsageInv
<1>7. CASE m.op = "activate" /\ ServeActivate(m.app)
  <2> DEFINE a == m.app
             r == [op |-> "activate", app |-> a, ok |-> CanActivate(a)]
  <2>1. a \in Apps /\ a \in Items /\ m # Stop(a) /\ \A b \in Apps : m # Stop(b)
    BY <1>1, <1>7, RequestFields DEF Items, Stop
  <2>2. CanActivate(a) \in BOOLEAN
    BY DEF CanActivate, Affordable
  <2>3. r \in SoundResponse /\ Reply(r)
    BY <1>7, <2>1, <2>2 DEF SoundResponse, Response, ServeActivate
  <2>4. CASE ~CanActivate(a)
    <3>1. \A b \in Apps : r # Ok(b)
      BY <2>2, <2>4 DEF Ok
    <3>2. UNCHANGED <<used, procs>>
      BY <1>7, <2>4 DEF ServeActivate
    <3> QED BY <1>5, <2>3, <3>1, <3>2
  <2>5. CASE CanActivate(a)
    <3>1. CanActivate(a) = TRUE
      BY <2>2, <2>5
    <3>2. \A b \in Apps : r = Ok(b) <=> b = a
      BY <3>1 DEF Ok
    <3> HIDE DEF r
    <3>3. used' = Add(used, a) /\ procs' = [procs EXCEPT ![a] = @ + 1]
      BY <1>7, <2>5 DEF ServeActivate
    <3> DEFINE k == [n EXCEPT ![a] = @ + 1]
    <3>4. k \in [Items -> Nat] /\ k[a] = n[a] + 1 /\ \A i \in Items \ {a} : k[i] = n[i]
      BY <2>1
    <3>5. used' = CostOf(k)
      BY <1>6, <2>1, <3>3, CostRaise
    <3> HIDE DEF k
    <3>6. procs' \in [Items -> Nat] /\ \A i \in Items : procs'[i] <= k[i]
      <4>1. procs \in [Items -> Nat]
        BY DEF UsageInv
      <4>2. procs'[a] = procs[a] + 1 /\ \A i \in Items \ {a} : procs'[i] = procs[i]
        BY <2>1, <3>3, <4>1
      <4>3. procs' \in [Items -> Nat]
        BY <2>1, <3>3, <4>1
      <4>4. procs[a] \in Nat /\ n[a] \in Nat /\ procs[a] <= n[a]
        BY <1>6, <2>1, <4>1
      <4>5. procs'[a] <= k[a]
        BY <3>4, <4>2, <4>4
      <4> QED BY <1>6, <3>4, <4>2, <4>3, <4>5
    <3>7. \A b \in Apps : Slack(b)' <= k[b]
      <4> TAKE b \in Apps
      <4>1. Slack(b)' = (IF b \in windows THEN 1 ELSE 0) + Number(toClient', Ok(b))
                          + Number(toServer', Stop(b))
        BY <1>1 DEF Slack
      <4>2. Number(toClient', Ok(b)) = Number(toClient, Ok(b)) + IF b = a THEN 1 ELSE 0
        BY <1>4, <2>3, <3>2
      <4>3. Number(toServer', Stop(b)) = Number(toServer, Stop(b))
        BY <1>2, <1>3, <2>1
      <4>4. Slack(b)' = Slack(b) + IF b = a THEN 1 ELSE 0
        BY <1>3, <4>1, <4>2, <4>3 DEF Slack
      <4>5. Slack(b) \in Nat /\ n[b] \in Nat /\ Slack(b) <= n[b] /\ b \in Items
        BY <1>6, SlackType DEF Items
      <4> QED BY <3>4, <4>4, <4>5
    <3> QED BY <1>1, <3>4, <3>5, <3>6, <3>7 DEF UsageInv
  <2> QED BY <2>4, <2>5
<1>8. CASE m.op = "stopped" /\ ServeStopped(m.app)
  <2> DEFINE a == m.app
             r == [op |-> "stopped", app |-> a]
  <2>1. a \in Apps /\ a \in Items /\ m = Stop(a)
    BY <1>1, <1>8 DEF Request, Items, Stop
  <2>2. r \in SoundResponse /\ Reply(r) /\ \A b \in Apps : r # Ok(b)
    BY <1>8, <2>1 DEF SoundResponse, Response, ServeStopped, Ok
  <2>3. used' = Sub(used, a) /\ procs' = [procs EXCEPT ![a] = 0]
    BY <1>8 DEF ServeStopped
  <2>4. n[a] > 0 /\ n[a] \in Nat
    <3>1. Number(toServer, Stop(a)) >= 1
      BY <1>2, <1>3, <2>1
    <3> QED BY <1>3, <1>6, <2>1, <3>1, SlackType
  <2> DEFINE k == [n EXCEPT ![a] = @ - 1]
  <2>5. k \in [Items -> Nat] /\ k[a] = n[a] - 1 /\ \A i \in Items \ {a} : k[i] = n[i]
    BY <2>1, <2>4
  <2>6. used' = CostOf(k)
    BY <1>6, <2>1, <2>3, <2>4, CostLower
  <2> HIDE DEF k
  <2>7. procs' \in [Items -> Nat] /\ \A i \in Items : procs'[i] <= k[i]
    <3>1. procs \in [Items -> Nat]
      BY DEF UsageInv
    <3>2. procs' \in [Items -> Nat] /\ procs'[a] = 0
          /\ \A i \in Items \ {a} : procs'[i] = procs[i]
      BY <2>1, <2>3, <3>1
    <3>3. procs'[a] <= k[a]
      BY <2>1, <2>5, <3>2
    <3> QED BY <1>6, <2>5, <3>2, <3>3
  <2>8. \A b \in Apps : Slack(b)' <= k[b]
    <3> TAKE b \in Apps
    <3>1. Slack(b)' = (IF b \in windows THEN 1 ELSE 0) + Number(toClient', Ok(b))
                        + Number(toServer', Stop(b))
      BY <1>1 DEF Slack
    <3>2. Number(toClient', Ok(b)) = Number(toClient, Ok(b))
      BY <1>3, <1>4, <2>2
    <3>3. Number(toServer, Stop(b)) = Number(toServer', Stop(b)) + IF b = a THEN 1 ELSE 0
      BY <1>2, <2>1 DEF Stop
    <3>4. Slack(b) = Slack(b)' + IF b = a THEN 1 ELSE 0
      BY <1>3, <3>1, <3>2, <3>3 DEF Slack
    <3>5. Slack(b) \in Nat /\ n[b] \in Nat /\ Slack(b) <= n[b] /\ b \in Items
          /\ Slack(b)' \in Nat
      BY <1>3, <1>6, <3>1, SlackType DEF Items
    <3> QED BY <2>5, <3>4, <3>5
  <2> QED BY <1>1, <2>5, <2>6, <2>7, <2>8 DEF UsageInv
<1>9. CASE m.op = "items" /\ ServeItems
  <2>1. [op |-> "items", count |-> inv] \in SoundResponse
    BY DEF SoundResponse, Response, IInv
  <2> QED BY <1>5, <1>9, <2>1 DEF ServeItems, Ok, server
<1>10. CASE m.op = "assets" /\ ServeAssets
  <2>1. [op |-> "assets", ports |-> ports] \in SoundResponse
    BY DEF SoundResponse, Response, Sound, IInv
  <2> QED BY <1>5, <1>10, <2>1 DEF ServeAssets, Ok, server
<1>11. CASE m.op = "install" /\ ServeInstall(m.port, m.item)
  <2>1. [op |-> "install", port |-> m.port, item |-> m.item,
         ok |-> ports[m.port].item = None] \in SoundResponse
    BY <1>1, <1>11, RequestFields DEF SoundResponse, Response
  <2> QED BY <1>5, <1>11, <2>1 DEF ServeInstall, Ok, server
<1>12. CASE m.op = "uninstall" /\ ServeUninstall(m.port)
  <2>1. [op |-> "uninstall", port |-> m.port] \in SoundResponse
    BY <1>1, <1>12, RequestFields DEF SoundResponse, Response
  <2> QED BY <1>5, <1>12, <2>1 DEF ServeUninstall, Ok, server
<1>13. CASE m.op = "enable" /\ ServeEnable(m.port, m.on)
  <2>1. [op |-> "enable", port |-> m.port, on |-> ports'[m.port].on] \in SoundResponse
    BY <1>1, <1>13, RequestFields DEF SoundResponse, Response, Sound, Port, IInv
  <2> QED BY <1>5, <1>13, <2>1 DEF ServeEnable, Ok
<1> QED BY <1>7, <1>8, <1>9, <1>10, <1>11, <1>12, <1>13 DEF Serve

\* A response is handled: a start that was answered becomes a window or is
\* forgotten.
LEMMA ReceiveUsageStep ==
  ASSUME IInv, IInv', UsageInv, Receive
  PROVE  UsageInv'
<1> DEFINE m == Head(toClient)
<1>1. /\ toClient # <<>> /\ toClient' = Tail(toClient) /\ m \in SoundResponse
      /\ UNCHANGED <<used, procs>>
      /\ toServer \in Seq(Request) /\ toClient \in Seq(SoundResponse)
  BY Popped DEF Receive, IInv, server
<1>2. \A a \in Apps : Number(toClient, Ok(a)) =
                        Number(toClient', Ok(a)) + IF m = Ok(a) THEN 1 ELSE 0
  BY <1>1, NumberPopped
<1>3. \A a \in Apps : /\ Number(toServer, Stop(a)) \in Nat /\ Number(toServer', Stop(a)) \in Nat
                      /\ Number(toClient, Ok(a)) \in Nat /\ Number(toClient', Ok(a)) \in Nat
  BY NumberType DEF IInv
<1>4. \A a \in Apps : Number(toServer', Stop(a)) = Number(toServer, Stop(a))
  <2>1. CASE m.op = "items" /\ ReceiveItems(m.count)
    <3>1. [op |-> "assets"] \in Request /\ \A a \in Apps : [op |-> "assets"] # Stop(a)
      BY DEF Request, Stop
    <3>2. toServer' = Append(toServer, [op |-> "assets"])
      BY <2>1 DEF ReceiveItems
    <3> QED BY <1>1, <1>3, <3>1, <3>2, NumberAppended
  <2>2. CASE UNCHANGED toServer
    BY <2>2
  <2> QED BY <2>1, <2>2 DEF Receive, ReceiveAssets, ReceiveActivate, ReceiveStopped,
                            ReceiveInstall, ReceiveUninstall, ReceiveEnable
<1>5. /\ windows' \subseteq Apps
      /\ \A a \in Apps : a \in windows' => a \in windows \/ m = Ok(a)
  <2>1. CASE m.op = "activate" /\ ReceiveActivate(m.app, m.ok)
    <3>1. m.app \in Apps /\ m.ok \in BOOLEAN /\ m = [op |-> "activate", app |-> m.app, ok |-> m.ok]
      BY <1>1, <2>1 DEF SoundResponse, Response
    <3>2. m.ok => m = Ok(m.app)
      BY <3>1 DEF Ok
    <3> QED BY <2>1, <3>1, <3>2 DEF ReceiveActivate, UsageInv
  <2>2. CASE UNCHANGED windows
    BY <2>2 DEF UsageInv
  <2> QED BY <2>1, <2>2 DEF Receive, ReceiveItems, ReceiveAssets, ReceiveStopped,
                            ReceiveInstall, ReceiveUninstall, ReceiveEnable
<1>6. \A a \in Apps : Slack(a)' <= Slack(a)
  <2> TAKE a \in Apps
  <2>1. Slack(a)' = (IF a \in windows' THEN 1 ELSE 0) + Number(toClient', Ok(a))
                      + Number(toServer', Stop(a))
    BY DEF Slack
  <2>2. a \in windows' => a \in windows \/ m = Ok(a)
    BY <1>5
  <2> QED BY <1>2, <1>3, <1>4, <2>1, <2>2 DEF Slack
<1> QED BY <1>1, <1>5, <1>6, UsageStays

\* The user: a window that is closed becomes a stop under way.
LEMMA UserUsageStep ==
  ASSUME IInv, IInv', UsageInv, User
  PROVE  UsageInv'
<1>1. \A a \in Apps : /\ Number(toServer, Stop(a)) \in Nat /\ Number(toServer', Stop(a)) \in Nat
                      /\ Number(toClient, Ok(a)) \in Nat
  BY NumberType DEF IInv
<1>2. ASSUME NEW r \in Request, Send(r), windows' \subseteq windows,
             \A a \in Apps : r = Stop(a) => a \in windows \ windows'
      PROVE  UsageInv'
  <2>1. UNCHANGED <<used, procs, toClient>> /\ toServer' = Append(toServer, r)
    BY <1>2 DEF Send, server
  <2>2. \A a \in Apps : Number(toServer', Stop(a)) =
                          Number(toServer, Stop(a)) + IF r = Stop(a) THEN 1 ELSE 0
    BY <2>1, NumberAppended DEF IInv
  <2>3. \A a \in Apps : Slack(a)' <= Slack(a)
    <3> TAKE a \in Apps
    <3>1. Slack(a)' = (IF a \in windows' THEN 1 ELSE 0) + Number(toClient, Ok(a))
                        + Number(toServer', Stop(a))
      BY <2>1 DEF Slack
    <3>2. (a \in windows' => a \in windows) /\ (r = Stop(a) => a \in windows /\ a \notin windows')
      BY <1>2
    <3> QED BY <1>1, <2>2, <3>1, <3>2 DEF Slack
  <2> QED BY <1>2, <2>1, <2>3, UsageStays DEF UsageInv
<1>3. ASSUME NEW a \in Apps, OpenApp(a) PROVE UsageInv'
  <2>1. /\ [op |-> "activate", app |-> a] \in Request
        /\ \A b \in Apps : [op |-> "activate", app |-> a] # Stop(b)
    BY DEF Request, Stop
  <2> QED BY <1>2, <1>3, <2>1 DEF OpenApp
<1>4. ASSUME NEW a \in Apps, CloseApp(a) PROVE UsageInv'
  <2>1. /\ [op |-> "stopped", app |-> a] \in Request
        /\ \A b \in Apps : [op |-> "stopped", app |-> a] = Stop(b) => b = a
    BY DEF Request, Stop
  <2>2. a \in windows /\ windows' = windows \ {a} /\ Send([op |-> "stopped", app |-> a])
    BY <1>4 DEF CloseApp
  <2> QED BY <1>2, <2>1, <2>2
<1>5. ASSUME NEW p \in Ports, Uninstall(p) \/ Toggle(p) PROVE UsageInv'
  <2>1. /\ [op |-> "uninstall", port |-> p] \in Request
        /\ [op |-> "enable", port |-> p, on |-> ~view[p].on] \in Request
        /\ \A b \in Apps : /\ [op |-> "uninstall", port |-> p] # Stop(b)
                           /\ [op |-> "enable", port |-> p, on |-> ~view[p].on] # Stop(b)
    BY DEF Request, Stop
  <2> QED BY <1>2, <1>5, <2>1 DEF Uninstall, Toggle
<1>6. ASSUME NEW p \in Ports, NEW s \in Services, Install(p, s) PROVE UsageInv'
  <2>1. /\ [op |-> "install", port |-> p, item |-> s] \in Request
        /\ \A b \in Apps : [op |-> "install", port |-> p, item |-> s] # Stop(b)
    BY DEF Request, Stop
  <2> QED BY <1>2, <1>6, <2>1 DEF Install
<1>7. CASE Relogin
  <2>0. PICK t \in Tables : procs' = BootProcs(t.ports) /\ used' = Booted(t.ports)
    BY <1>7 DEF Relogin
  <2> DEFINE n == BootProcs(t.ports)
  <2>1. /\ used' = CostOf(n) /\ procs' = n /\ windows' = {}
        /\ toServer' = <<[op |-> "items"]>> /\ toClient' = <<>>
    BY <1>7, <2>0 DEF Relogin, Booted
  <2>2. n \in [Items -> Nat]
    BY BootType
  <2>3. \A a \in Apps : Slack(a)' = 0
    <3> TAKE a \in Apps
    <3>1. [op |-> "items"] # Stop(a)
      BY DEF Stop
    <3>2. Number(toServer', Stop(a)) = 0 /\ Number(toClient', Ok(a)) = 0
      BY <2>1, <3>1, NumberOfNone
    <3> QED BY <2>1, <3>2 DEF Slack
  <2> HIDE DEF n
  <2>4. \A a \in Apps : Slack(a)' <= n[a]
    BY <2>2, <2>3 DEF Items
  <2>5. \A i \in Items : procs'[i] <= n[i]
    BY <2>1, <2>2
  <2> QED BY <2>1, <2>2, <2>4, <2>5 DEF UsageInv
<1> QED BY <1>3, <1>4, <1>5, <1>6, <1>7 DEF User

LEMMA UsageStep ==
  ASSUME IInv, UsageInv, [Next]_vars
  PROVE  UsageInv'
<1>1. IInv'
  BY Step
<1>2. CASE UNCHANGED vars
  BY <1>2 DEF vars, server, client, network, UsageInv, Slack, Number, Places
<1> QED BY <1>1, <1>2, ServeUsageStep, ReceiveUsageStep, UserUsageStep DEF Next

LEMMA UsageInit == Init => UsageInv
<1> SUFFICES ASSUME Init PROVE UsageInv
  OBVIOUS
<1>0. PICK t \in Tables : procs = BootProcs(t.ports) /\ used = Booted(t.ports)
  BY DEF Init
<1> DEFINE n == BootProcs(t.ports)
<1>1. /\ procs = n /\ used = CostOf(n) /\ windows = {}
      /\ toServer = <<[op |-> "items"]>> /\ toClient = <<>>
  BY <1>0 DEF Init, Booted
<1>3. \A a \in Apps : Slack(a) = 0
  <2> TAKE a \in Apps
  <2>1. [op |-> "items"] # Stop(a)
    BY DEF Stop
  <2>2. Number(toServer, Stop(a)) = 0 /\ Number(toClient, Ok(a)) = 0
    BY <1>1, <2>1, NumberOfNone
  <2> QED BY <1>1, <2>2 DEF Slack
<1>4. n \in [Items -> Nat]
  BY BootType
<1> HIDE DEF n
<1>5. (\A a \in Apps : Slack(a) <= n[a]) /\ \A i \in Items : procs[i] <= n[i]
  BY <1>1, <1>3, <1>4 DEF Items
<1> QED BY <1>1, <1>4, <1>5 DEF UsageInv

\* The usage of a computer covers the processes in its list, whatever is
\* started and stopped before an answer has arrived, for any items and costs.
THEOREM UsageCovers == Spec => []UsageCoversProcesses
<1>1. UsageInv => UsageCoversProcesses
  <2> SUFFICES ASSUME UsageInv PROVE UsageCoversProcesses
    OBVIOUS
  <2>1. PICK n \in [Items -> Nat] : used = CostOf(n) /\ \A i \in Items : procs[i] <= n[i]
    BY DEF UsageInv
  <2>2. procs \in [Items -> Nat]
    BY DEF UsageInv
  <2>3. CostOf(procs).cpu <= CostOf(n).cpu /\ CostOf(procs).mem <= CostOf(n).mem
    BY <2>1, <2>2, CostCovers
  <2>4. CostOf(n) \in Load /\ CostOf(procs) \in Load
    BY <2>2, CostType
  <2> QED BY <2>1, <2>3, <2>4 DEF UsageCoversProcesses, Running, Load
<1> QED BY <1>1, InitHolds, Step, UsageInit, UsageStep, PTL DEF Spec

-----------------------------------------------------------------------------
(* The two copies                                                          *)

\* What the client shows, and what a response makes of it.
State == [ports : Sound, load : Usage, count : [Services -> Int]]
Seen  == [ports |-> view, load |-> load, count |-> count]

PortsAfter(ps, m) ==
  IF m.op = "assets" THEN m.ports
  ELSE IF m.op = "install" /\ m.ok THEN Installed(ps, m.port, m.item)
  ELSE IF m.op = "uninstall" THEN Uninstalled(ps, m.port)
  ELSE IF m.op = "enable" THEN Enabled(ps, m.port, m.on)
  ELSE ps

LoadAfter(u, m) ==
  IF m.op = "assets"
  THEN [cpu |-> u.cpu + Booted(m.ports).cpu, mem |-> u.mem + Booted(m.ports).mem]
  ELSE IF m.op = "activate" /\ m.ok THEN Add(u, m.app)
  ELSE IF m.op = "stopped" THEN Sub(u, m.app)
  ELSE u

CountAfter(c, ps, m) ==
  IF m.op = "install" /\ m.ok THEN [c EXCEPT ![m.item] = @ - 1]
  ELSE IF m.op = "uninstall" /\ ps[m.port].item # None
       THEN [c EXCEPT ![ps[m.port].item] = @ + 1]
  ELSE c

Effect(st, m) == [ports |-> PortsAfter(st.ports, m), load |-> LoadAfter(st.load, m),
                  count |-> CountAfter(st.count, st.ports, m)]

\* Handling the responses s one after the other leads from st to e.
Replays(st, s, e) ==
  \E h \in [0..Len(s) -> State] :
    h[0] = st /\ h[Len(s)] = e /\ \A i \in 1..Len(s) : h[i] = Effect(h[i - 1], s[i])

\* When the client has handled what is under way it shows what the service has.
Replayed ==
  \E e \in State : /\ Replays(Seen, toClient, e)
                   /\ e.ports = ports /\ e.load = used
                   /\ \A s \in Services : e.count[s] >= inv[s]

\* None of the packets asks for the items or the assets, or answers that.
Later(s) == \A i \in DOMAIN s : s[i].op \notin {"items", "assets"}

\* The five stages of a login.
AskedItems ==
  /\ phase = "selected" /\ windows = {} /\ load = Idle /\ used = Booted(ports)
  /\ toServer = <<[op |-> "items"]>> /\ toClient = <<>>
GotItems ==
  /\ phase = "selected" /\ windows = {} /\ load = Idle /\ used = Booted(ports)
  /\ toServer = <<>> /\ toClient = <<[op |-> "items", count |-> inv]>>
AskedAssets ==
  /\ phase = "items" /\ load = Idle /\ used = Booted(ports) /\ count = inv
  /\ toServer # <<>> /\ Head(toServer).op = "assets" /\ Later(Tail(toServer))
  /\ toClient = <<>>
GotAssets ==
  /\ phase = "items" /\ Later(toServer)
  /\ toClient # <<>> /\ Head(toClient).op = "assets" /\ Later(Tail(toClient))
  /\ Replayed
Playing == phase = "playing" /\ Later(toServer) /\ Later(toClient) /\ Replayed

ViewInv ==
  /\ load \in Usage /\ sent \in Nat /\ logins \in Nat
  /\ AskedItems \/ GotItems \/ AskedAssets \/ GotAssets \/ Playing

LEMMA UsageType ==
  /\ Load \subseteq Usage /\ Idle \in Usage
  /\ \A u \in Usage, i \in Items : Add(u, i) \in Usage /\ Sub(u, i) \in Usage
  /\ \A ps : [cpu |-> Idle.cpu + Booted(ps).cpu, mem |-> Idle.mem + Booted(ps).mem] = Booted(ps)
  /\ \A u \in Usage : \A ps :
       [cpu |-> u.cpu + Booted(ps).cpu, mem |-> u.mem + Booted(ps).mem] \in Usage
<1>1. \A i \in Items : Cost[i].cpu \in Int /\ Cost[i].mem \in Int
  BY ComputerAssumption
<1>2. \A ps : Booted(ps) \in Load
  BY BootType
<1>3. \A ps : Booted(ps).cpu \in Int /\ Booted(ps).mem \in Int
  BY <1>2 DEF Load
<1>4. \A u \in Load : [cpu |-> 0 + u.cpu, mem |-> 0 + u.mem] = u
  BY DEF Load
<1>5. \A ps : [cpu |-> Idle.cpu + Booted(ps).cpu, mem |-> Idle.mem + Booted(ps).mem] = Booted(ps)
  BY <1>2, <1>4 DEF Idle
<1>6. Load \subseteq Usage /\ Idle \in Usage
  BY DEF Load, Usage, Idle
<1>7. \A u \in Usage, i \in Items : Add(u, i) \in Usage /\ Sub(u, i) \in Usage
  BY <1>1 DEF Add, Sub, Usage
<1>8. \A u \in Usage : \A ps :
       [cpu |-> u.cpu + Booted(ps).cpu, mem |-> u.mem + Booted(ps).mem] \in Usage
  BY <1>3 DEF Usage
<1> QED BY <1>5, <1>6, <1>7, <1>8

LEMMA EffectType ==
  ASSUME NEW st \in State, NEW m \in SoundResponse
  PROVE  Effect(st, m) \in State
<1>1. st.ports \in Sound /\ st.load \in Usage /\ st.count \in [Services -> Int]
  BY DEF State
<1>2. PortsAfter(st.ports, m) \in Sound
  BY <1>1, ResponseFields, PortsStaySound DEF PortsAfter
<1>3. LoadAfter(st.load, m) \in Usage
  <2>1. m.op \in {"activate", "stopped"} => m.app \in Items
    BY DEF SoundResponse, Response, Items
  <2> QED BY <1>1, <2>1, UsageType DEF LoadAfter
<1>4. CountAfter(st.count, st.ports, m) \in [Services -> Int]
  <2>1. CASE m.op = "install" /\ m.ok
    BY <1>1, <2>1, ResponseFields DEF CountAfter
  <2>2. CASE m.op = "uninstall" /\ st.ports[m.port].item # None
    <3>1. st.ports[m.port].item \in Services
      BY <1>1, <2>2, ResponseFields DEF Sound, Port
    <3>2. m.op # "install"
      BY <2>2
    <3>3. CountAfter(st.count, st.ports, m) =
            [st.count EXCEPT ![st.ports[m.port].item] = @ + 1]
      BY <2>2, <3>2 DEF CountAfter
    <3>4. st.count[st.ports[m.port].item] + 1 \in Int
      BY <1>1, <3>1
    <3> QED BY <1>1, <3>1, <3>3, <3>4
  <2>3. CASE ~(m.op = "install" /\ m.ok)
             /\ ~(m.op = "uninstall" /\ st.ports[m.port].item # None)
    BY <1>1, <2>3 DEF CountAfter
  <2> QED BY <2>1, <2>2, <2>3
<1> QED BY <1>2, <1>3, <1>4 DEF Effect, State

\* No response, one more at the end, and the first one handled.
LEMMA ReplaysNone ==
  /\ \A st \in State : Replays(st, <<>>, st)
  /\ \A st, e : Replays(st, <<>>, e) => st = e
<1>1. ASSUME NEW st \in State PROVE Replays(st, <<>>, st)
  <2> DEFINE h == [i \in 0..0 |-> st]
  <2>1. Len(<<>>) = 0 /\ 1..Len(<<>>) = {}
    OBVIOUS
  <2>2. h \in [0..0 -> State] /\ h[0] = st
    OBVIOUS
  <2> HIDE DEF h
  <2>3. \E f \in [0..0 -> State] : f[0] = st
    BY <2>2
  <2> QED BY <2>1, <2>3 DEF Replays
<1> QED BY <1>1 DEF Replays

LEMMA ReplaysAppend ==
  ASSUME NEW S, NEW s \in Seq(S), NEW m \in S, NEW st, NEW e, Replays(st, s, e),
         Effect(e, m) \in State
  PROVE  Replays(st, Append(s, m), Effect(e, m))
<1>1. /\ Len(s) \in Nat /\ Len(Append(s, m)) = Len(s) + 1
      /\ \A i \in 1..Len(s) : Append(s, m)[i] = s[i]
      /\ Append(s, m)[Len(s) + 1] = m
  OBVIOUS
<1>2. PICK h \in [0..Len(s) -> State] :
        h[0] = st /\ h[Len(s)] = e /\ \A i \in 1..Len(s) : h[i] = Effect(h[i - 1], s[i])
  BY DEF Replays
<1> DEFINE g == [i \in 0..Len(s) + 1 |-> IF i = Len(s) + 1 THEN Effect(e, m) ELSE h[i]]
<1>3. /\ g \in [0..Len(s) + 1 -> State]
      /\ g[Len(s) + 1] = Effect(e, m) /\ \A i \in 0..Len(s) : g[i] = h[i]
  BY <1>1, <1>2
<1> HIDE DEF g
<1>4. \A i \in 1..Len(s) + 1 : g[i] = Effect(g[i - 1], Append(s, m)[i])
  <2> TAKE i \in 1..Len(s) + 1
  <2>1. CASE i = Len(s) + 1
    <3>1. i - 1 = Len(s) /\ Len(s) \in 0..Len(s)
      BY <1>1, <2>1
    <3> QED BY <1>1, <1>2, <1>3, <2>1, <3>1
  <2>2. CASE i # Len(s) + 1
    <3>1. i \in 1..Len(s) /\ i - 1 \in 0..Len(s) /\ i \in 0..Len(s)
      BY <1>1, <2>2
    <3> QED BY <1>1, <1>2, <1>3, <3>1
  <2> QED BY <2>1, <2>2
<1>5. g[0] = st
  BY <1>1, <1>2, <1>3
<1> QED BY <1>1, <1>3, <1>4, <1>5 DEF Replays

LEMMA ReplaysPop ==
  ASSUME NEW S, NEW s \in Seq(S), s # <<>>, NEW st, NEW e, Replays(st, s, e)
  PROVE  Replays(Effect(st, Head(s)), Tail(s), e)
<1>1. /\ Len(s) \in Nat /\ Len(s) > 0 /\ Len(Tail(s)) = Len(s) - 1 /\ Head(s) = s[1]
      /\ \A i \in 1..Len(s) - 1 : Tail(s)[i] = s[i + 1]
  OBVIOUS
<1>2. PICK h \in [0..Len(s) -> State] :
        h[0] = st /\ h[Len(s)] = e /\ \A i \in 1..Len(s) : h[i] = Effect(h[i - 1], s[i])
  BY DEF Replays
<1> DEFINE g == [i \in 0..Len(s) - 1 |-> h[i + 1]]
<1>3. /\ g \in [0..Len(s) - 1 -> State] /\ \A i \in 0..Len(s) - 1 : g[i] = h[i + 1]
  BY <1>1, <1>2
<1> HIDE DEF g
<1>4. g[0] = Effect(st, Head(s)) /\ g[Len(s) - 1] = e
  <2>1. 0 + 1 = 1 /\ (Len(s) - 1) + 1 = Len(s) /\ 0 \in 0..Len(s) - 1
        /\ Len(s) - 1 \in 0..Len(s) - 1 /\ 1 \in 1..Len(s) /\ 1 - 1 = 0
    BY <1>1
  <2> QED BY <1>1, <1>2, <1>3, <2>1
<1>5. \A i \in 1..Len(s) - 1 : g[i] = Effect(g[i - 1], Tail(s)[i])
  <2> TAKE i \in 1..Len(s) - 1
  <2>1. /\ i \in 0..Len(s) - 1 /\ i - 1 \in 0..Len(s) - 1 /\ i + 1 \in 1..Len(s)
        /\ (i - 1) + 1 = i /\ (i + 1) - 1 = i
    BY <1>1
  <2>2. h[i + 1] = Effect(h[(i + 1) - 1], s[i + 1])
    BY <1>2, <2>1
  <2> QED BY <1>1, <1>3, <2>1, <2>2
<1> QED BY <1>1, <1>3, <1>4, <1>5 DEF Replays

LEMMA LaterAppend ==
  ASSUME NEW S, NEW s \in Seq(S), NEW m \in S, m.op \notin {"items", "assets"}, Later(s)
  PROVE  Later(Append(s, m))
BY DEF Later

LEMMA LaterPop ==
  ASSUME NEW S, NEW s \in Seq(S), s # <<>>, Later(s)
  PROVE  Later(Tail(s)) /\ Head(s).op \notin {"items", "assets"}
<1>1. /\ \A i \in DOMAIN Tail(s) : i + 1 \in DOMAIN s /\ Tail(s)[i] = s[i + 1]
      /\ 1 \in DOMAIN s /\ Head(s) = s[1]
  OBVIOUS
<1> QED BY <1>1 DEF Later

\* A request after the login: the answer has the effect on the client that the
\* service's own step had.
LEMMA ServeEffect ==
  ASSUME IInv, UsageInv, Serve, Head(toServer).op \notin {"items", "assets"},
         NEW e \in State, e.ports = ports, e.load = used,
         \A s \in Services : e.count[s] >= inv[s]
  PROVE  \/ UNCHANGED <<server, toClient>>
         \/ \E r \in SoundResponse :
              /\ Reply(r) /\ r.op \notin {"items", "assets"}
              /\ Effect(e, r) \in State
              /\ Effect(e, r).ports = ports' /\ Effect(e, r).load = used'
              /\ \A s \in Services : Effect(e, r).count[s] >= inv'[s]
<1> DEFINE m == Head(toServer)
<1>1. m \in Request
  BY Popped DEF Serve, IInv
<1>2. /\ inv \in [Services -> Nat] /\ ports \in [Ports -> Port] /\ None \notin Services
      /\ e.count \in [Services -> Int]
  BY ComputerAssumption DEF IInv, Sound, State, Items
<1>3. ASSUME NEW r \in SoundResponse, Reply(r), r.op \notin {"items", "assets"},
             PortsAfter(ports, r) = ports', LoadAfter(used, r) = used',
             \A s \in Services : CountAfter(e.count, ports, r)[s] >= inv'[s]
      PROVE  \E q \in SoundResponse :
              /\ Reply(q) /\ q.op \notin {"items", "assets"}
              /\ Effect(e, q) \in State
              /\ Effect(e, q).ports = ports' /\ Effect(e, q).load = used'
              /\ \A s \in Services : Effect(e, q).count[s] >= inv'[s]
  <2>1. Effect(e, r) \in State
    BY EffectType
  <2>2. /\ Effect(e, r).ports = ports' /\ Effect(e, r).load = used'
        /\ Effect(e, r).count = CountAfter(e.count, ports, r)
    BY <1>3 DEF Effect
  <2> QED BY <1>3, <2>1, <2>2
<1>4. CASE m.op = "activate" /\ ServeActivate(m.app)
  <2> DEFINE r == [op |-> "activate", app |-> m.app, ok |-> CanActivate(m.app)]
  <2>1. CanActivate(m.app) \in BOOLEAN
    BY DEF CanActivate, Affordable
  <2>2. r \in SoundResponse /\ Reply(r)
    BY <1>1, <1>4, <2>1, RequestFields DEF SoundResponse, Response, ServeActivate
  <2>3. r.op = "activate" /\ r.app = m.app /\ (r.ok <=> CanActivate(m.app))
    OBVIOUS
  <2> HIDE DEF r
  <2>4. /\ PortsAfter(ports, r) = ports' /\ LoadAfter(used, r) = used'
        /\ CountAfter(e.count, ports, r) = e.count /\ inv' = inv
    BY <1>4, <2>3 DEF PortsAfter, LoadAfter, CountAfter, ServeActivate
  <2> QED BY <1>3, <2>2, <2>3, <2>4
<1>5. CASE m.op = "stopped" /\ ServeStopped(m.app)
  <2> DEFINE r == [op |-> "stopped", app |-> m.app]
  <2>1. r \in SoundResponse /\ Reply(r)
    BY <1>1, <1>5, RequestFields DEF SoundResponse, Response, ServeStopped
  <2>2. r.op = "stopped" /\ r.app = m.app
    OBVIOUS
  <2> HIDE DEF r
  <2>3. /\ PortsAfter(ports, r) = ports' /\ LoadAfter(used, r) = used'
        /\ CountAfter(e.count, ports, r) = e.count /\ inv' = inv
    BY <1>5, <2>2 DEF PortsAfter, LoadAfter, CountAfter, ServeStopped
  <2> QED BY <1>3, <2>1, <2>2, <2>3
<1>6. CASE m.op = "install" /\ ServeInstall(m.port, m.item)
  <2>1. m.port \in Ports /\ m.item \in Services
    BY <1>1, <1>6, RequestFields
  <2>2. CASE inv[m.item] = 0
    BY <1>6, <2>2 DEF ServeInstall
  <2>3. CASE inv[m.item] # 0
    <3> DEFINE r == [op |-> "install", port |-> m.port, item |-> m.item,
                     ok |-> ports[m.port].item = None]
    <3>1. r \in SoundResponse /\ Reply(r)
      BY <1>6, <2>1, <2>3 DEF SoundResponse, Response, ServeInstall
    <3>2. /\ r.op = "install" /\ r.port = m.port /\ r.item = m.item
          /\ r.ok <=> ports[m.port].item = None
      OBVIOUS
    <3> HIDE DEF r
    <3>3. /\ inv' = [inv EXCEPT ![m.item] = @ - 1] /\ used' = used
          /\ ports' = Installed(ports, m.port, m.item)
      BY <1>6, <2>3 DEF ServeInstall
    <3>4. PortsAfter(ports, r) = ports' /\ LoadAfter(used, r) = used'
      BY <3>2, <3>3 DEF PortsAfter, LoadAfter, Installed
    <3>5. \A s \in Services : CountAfter(e.count, ports, r)[s] >= inv'[s]
      <4> TAKE s \in Services
      <4>1. inv[s] \in Nat /\ e.count[s] \in Int /\ e.count[s] >= inv[s]
        BY <1>2
      <4>2. inv'[s] = IF s = m.item THEN inv[s] - 1 ELSE inv[s]
        BY <1>2, <2>1, <3>3
      <4>3. CountAfter(e.count, ports, r)[s] \in {e.count[s], inv'[s] + e.count[s] - inv[s]}
        <5>1. CASE r.ok
          <6>1. CountAfter(e.count, ports, r) = [e.count EXCEPT ![m.item] = @ - 1]
            BY <3>2, <5>1 DEF CountAfter
          <6>2. CountAfter(e.count, ports, r)[s] =
                  IF s = m.item THEN e.count[s] - 1 ELSE e.count[s]
            BY <1>2, <2>1, <6>1
          <6> QED BY <4>1, <4>2, <6>2
        <5>2. CASE ~r.ok
          BY <3>2, <5>2 DEF CountAfter
        <5> QED BY <5>1, <5>2
      <4> QED BY <4>1, <4>2, <4>3
    <3> QED BY <1>3, <3>1, <3>2, <3>4, <3>5
  <2> QED BY <2>2, <2>3
<1>7. CASE m.op = "uninstall" /\ ServeUninstall(m.port)
  <2>1. m.port \in Ports
    BY <1>1, <1>7, RequestFields
  <2>2. CASE ports[m.port].item = None
    BY <1>7, <2>2 DEF ServeUninstall
  <2>3. CASE ports[m.port].item # None
    <3> DEFINE r == [op |-> "uninstall", port |-> m.port]
               i == ports[m.port].item
    <3>1. r \in SoundResponse /\ Reply(r)
      BY <1>7, <2>1, <2>3 DEF SoundResponse, Response, ServeUninstall
    <3>2. r.op = "uninstall" /\ r.port = m.port
      OBVIOUS
    <3> HIDE DEF r
    <3>3. /\ inv' = [inv EXCEPT ![i] = @ + 1] /\ used' = used
          /\ ports' = Uninstalled(ports, m.port)
      BY <1>7, <2>3 DEF ServeUninstall
    <3>4. PortsAfter(ports, r) = ports' /\ LoadAfter(used, r) = used'
      BY <3>2, <3>3 DEF PortsAfter, LoadAfter
    <3>5. CountAfter(e.count, ports, r) = [e.count EXCEPT ![i] = @ + 1]
      BY <2>3, <3>2 DEF CountAfter
    <3>6. \A s \in Services : CountAfter(e.count, ports, r)[s] >= inv'[s]
      <4> TAKE s \in Services
      <4>1. inv[s] \in Nat /\ e.count[s] \in Int /\ e.count[s] >= inv[s]
        BY <1>2
      <4>2. i \in Services
        BY <1>2, <2>1, <2>3 DEF Port
      <4>3. /\ inv'[s] = IF s = i THEN inv[s] + 1 ELSE inv[s]
            /\ CountAfter(e.count, ports, r)[s] =
                 IF s = i THEN e.count[s] + 1 ELSE e.count[s]
        BY <1>2, <3>3, <3>5, <4>2
      <4> QED BY <4>1, <4>3
    <3> QED BY <1>3, <3>1, <3>2, <3>4, <3>6
  <2> QED BY <2>2, <2>3
<1>8. CASE m.op = "enable" /\ ServeEnable(m.port, m.on)
  <2> DEFINE r == [op |-> "enable", port |-> m.port, on |-> ports'[m.port].on]
  <2>1. m.port \in Ports /\ m.on \in BOOLEAN
    BY <1>1, <1>8, RequestFields
  <2>2. ports' = Enabled(ports, m.port, m.on) /\ used' = used /\ inv' = inv /\ Reply(r)
    BY <1>8 DEF ServeEnable
  <2>3. ports' \in Sound
    BY <2>1, <2>2, PortsStaySound DEF IInv
  <2>4. r \in SoundResponse
    BY <2>1, <2>3 DEF SoundResponse, Response, Sound, Port
  <2>5. r.op = "enable" /\ r.port = m.port /\ r.on = ports'[m.port].on
    OBVIOUS
  <2> HIDE DEF r
  <2>6. Enabled(ports, m.port, ports'[m.port].on) = ports'
    <3> DEFINE p == m.port
    <3>1. ports'[p].on = (m.on /\ (ports[p].on \/ ports[p].item # None))
      BY <1>2, <2>1, <2>2 DEF Enabled, Port
    <3>2. ports[p].on \in BOOLEAN
      BY <1>2, <2>1 DEF Port
    <3>3. (ports'[p].on /\ (ports[p].on \/ ports[p].item # None)) =
            (m.on /\ (ports[p].on \/ ports[p].item # None))
      BY <2>1, <3>1, <3>2
    <3> QED BY <2>2, <3>3 DEF Enabled
  <2>7. /\ PortsAfter(ports, r) = ports' /\ LoadAfter(used, r) = used'
        /\ CountAfter(e.count, ports, r) = e.count
    BY <2>2, <2>5, <2>6 DEF PortsAfter, LoadAfter, CountAfter
  <2> QED BY <1>3, <2>2, <2>4, <2>5, <2>7
<1> QED BY <1>4, <1>5, <1>6, <1>7, <1>8 DEF Serve

\* A response after the items: the client's step is its effect.
LEMMA ReceiveEffect ==
  ASSUME IInv, ViewInv, Receive, Head(toClient).op # "items"
  PROVE  /\ Seen \in State /\ Seen' = Effect(Seen, Head(toClient)) /\ Seen' \in State
         /\ UNCHANGED toServer
         /\ phase' = IF Head(toClient).op = "assets" THEN "playing" ELSE phase
<1> DEFINE m == Head(toClient)
<1>1. m \in SoundResponse
  BY Popped DEF Receive, IInv
<1>2. Seen \in State
  BY DEF Seen, State, IInv, ViewInv
<1>3. /\ Seen.ports = view /\ Seen.load = load /\ Seen.count = count
      /\ Seen' = [ports |-> view', load |-> load', count |-> count']
  BY DEF Seen
<1>4. SUFFICES /\ view' = PortsAfter(view, m) /\ load' = LoadAfter(load, m)
               /\ count' = CountAfter(count, view, m)
               /\ UNCHANGED toServer /\ phase' = IF m.op = "assets" THEN "playing" ELSE phase
  BY <1>1, <1>2, <1>3, EffectType DEF Effect
<1> USE DEF PortsAfter, LoadAfter, CountAfter
<1>5. CASE m.op = "assets" /\ ReceiveAssets(m.ports)
  BY <1>5 DEF ReceiveAssets
<1>6. CASE m.op = "activate" /\ ReceiveActivate(m.app, m.ok)
  BY <1>6 DEF ReceiveActivate
<1>7. CASE m.op = "stopped" /\ ReceiveStopped(m.app)
  BY <1>7 DEF ReceiveStopped
<1>8. CASE m.op = "install" /\ ReceiveInstall(m.port, m.item, m.ok)
  BY <1>8 DEF ReceiveInstall
<1>9. CASE m.op = "uninstall" /\ ReceiveUninstall(m.port)
  BY <1>9 DEF ReceiveUninstall
<1>10. CASE m.op = "enable" /\ ReceiveEnable(m.port, m.on)
  BY <1>10 DEF ReceiveEnable
<1> QED BY <1>5, <1>6, <1>7, <1>8, <1>9, <1>10 DEF Receive

\* A request is handled, in each stage of the login.
LEMMA ServeViewStep ==
  ASSUME IInv, UsageInv, ViewInv, Serve
  PROVE  ViewInv'
<1> DEFINE m == Head(toServer)
<1>1. /\ toServer # <<>> /\ toServer' = Tail(toServer)
      /\ UNCHANGED <<phase, count, view, load, windows, sent, logins>>
      /\ toServer \in Seq(Request) /\ toClient \in Seq(SoundResponse)
  BY DEF Serve, client, IInv
<1>2. Seen' = Seen
  BY <1>1 DEF Seen
<1>3. CASE AskedItems
  <2>1. m.op = "items" /\ toServer' = <<>>
    BY <1>1, <1>3 DEF AskedItems
  <2>2. ServeItems
    BY <2>1 DEF Serve
  <2>3. toClient' = <<[op |-> "items", count |-> inv]>> /\ UNCHANGED server
    BY <1>3, <2>2 DEF ServeItems, Reply, AskedItems
  <2> QED BY <1>1, <1>3, <2>1, <2>3 DEF AskedItems, GotItems, ViewInv, server
<1>4. CASE GotItems
  BY <1>1, <1>4 DEF GotItems
<1>5. CASE AskedAssets
  <2> DEFINE r == [op |-> "assets", ports |-> ports]
  <2>1. ServeAssets
    BY <1>5 DEF AskedAssets, Serve
  <2>2. toClient' = Append(<<>>, r) /\ toClient' = <<r>> /\ UNCHANGED server
    BY <1>5, <2>1 DEF ServeAssets, Reply, AskedAssets
  <2>3. Head(toClient').op = "assets" /\ Tail(toClient') = <<>> /\ toClient' # <<>>
    BY <2>2
  <2>4. r \in SoundResponse /\ r.op = "assets" /\ r.ports = ports
    BY DEF SoundResponse, Response, Sound, IInv
  <2> HIDE DEF r
  <2>5. Seen \in State
    BY DEF Seen, State, IInv, ViewInv
  <2>6. Effect(Seen, r) \in State /\ Replays(Seen, toClient', Effect(Seen, r))
    <3>1. <<>> \in Seq(SoundResponse) /\ Replays(Seen, <<>>, Seen)
      BY <2>5, ReplaysNone
    <3>2. Effect(Seen, r) \in State
      BY <2>4, <2>5, EffectType
    <3> QED BY <2>2, <2>4, <3>1, <3>2, ReplaysAppend
  <2>7. /\ Effect(Seen, r).ports = ports /\ Effect(Seen, r).load = used
        /\ Effect(Seen, r).count = inv
    BY <1>5, <2>4, UsageType
    DEF Effect, Seen, PortsAfter, LoadAfter, CountAfter, AskedAssets
  <2>8. \A s \in Services : inv[s] >= inv[s]
    BY DEF IInv
  <2>9. Replayed'
    BY <1>2, <2>2, <2>6, <2>7, <2>8 DEF Replayed, server
  <2>10. Later(toServer') /\ Later(Tail(toClient'))
    BY <1>1, <1>5, <2>3 DEF AskedAssets, Later
  <2> QED BY <1>1, <1>5, <2>3, <2>9, <2>10 DEF AskedAssets, GotAssets, ViewInv
<1>6. CASE GotAssets \/ Playing
  <2>1. Later(toServer) /\ Replayed
    BY <1>6 DEF GotAssets, Playing
  <2>2. Later(toServer') /\ m.op \notin {"items", "assets"}
    BY <1>1, <2>1, LaterPop
  <2>3. PICK e \in State : /\ Replays(Seen, toClient, e)
                           /\ e.ports = ports /\ e.load = used
                           /\ \A s \in Services : e.count[s] >= inv[s]
    BY <2>1 DEF Replayed
  <2>4. /\ Replayed'
        /\ \/ UNCHANGED toClient
           \/ \E r \in SoundResponse :
                toClient' = Append(toClient, r) /\ r.op \notin {"items", "assets"}
    <3>1. CASE UNCHANGED <<server, toClient>>
      BY <1>2, <2>3, <3>1 DEF Replayed, server
    <3>2. CASE \E r \in SoundResponse :
                 /\ Reply(r) /\ r.op \notin {"items", "assets"}
                 /\ Effect(e, r) \in State
                 /\ Effect(e, r).ports = ports' /\ Effect(e, r).load = used'
                 /\ \A s \in Services : Effect(e, r).count[s] >= inv'[s]
      <4>1. PICK r \in SoundResponse :
                 /\ Reply(r) /\ r.op \notin {"items", "assets"}
                 /\ Effect(e, r) \in State
                 /\ Effect(e, r).ports = ports' /\ Effect(e, r).load = used'
                 /\ \A s \in Services : Effect(e, r).count[s] >= inv'[s]
        BY <3>2
      <4>2. toClient' = Append(toClient, r)
        BY <4>1 DEF Reply
      <4>3. Replays(Seen, toClient', Effect(e, r))
        BY <1>1, <2>3, <4>1, <4>2, ReplaysAppend
      <4> QED BY <1>2, <4>1, <4>2, <4>3 DEF Replayed
    <3> QED BY <2>2, <2>3, <3>1, <3>2, ServeEffect
  <2>5. CASE Playing
    <3>1. Later(toClient')
      BY <1>1, <2>4, <2>5, LaterAppend DEF Playing
    <3> QED BY <1>1, <2>2, <2>4, <2>5, <3>1 DEF Playing, ViewInv
  <2>6. CASE GotAssets
    <3>1. toClient' # <<>> /\ Head(toClient') = Head(toClient) /\ Later(Tail(toClient'))
      <4>1. CASE UNCHANGED toClient
        BY <2>6, <4>1 DEF GotAssets
      <4>2. CASE \E r \in SoundResponse :
                   toClient' = Append(toClient, r) /\ r.op \notin {"items", "assets"}
        <5>1. PICK r \in SoundResponse :
                   toClient' = Append(toClient, r) /\ r.op \notin {"items", "assets"}
          BY <4>2
        <5>2. toClient # <<>> /\ Later(Tail(toClient)) /\ Tail(toClient) \in Seq(SoundResponse)
          BY <1>1, <2>6 DEF GotAssets
        <5>3. /\ toClient' # <<>> /\ Head(toClient') = Head(toClient)
              /\ Tail(toClient') = Append(Tail(toClient), r)
          BY <1>1, <5>1, <5>2
        <5> QED BY <5>1, <5>2, <5>3, LaterAppend
      <4> QED BY <2>4, <4>1, <4>2
    <3> QED BY <1>1, <2>2, <2>4, <2>6, <3>1 DEF GotAssets, ViewInv
  <2> QED BY <1>6, <2>5, <2>6
<1> QED BY <1>3, <1>4, <1>5, <1>6 DEF ViewInv

\* A response is handled.
LEMMA ReceiveViewStep ==
  ASSUME IInv, ViewInv, Receive
  PROVE  ViewInv'
<1> DEFINE m == Head(toClient)
<1>1. /\ toClient # <<>> /\ toClient' = Tail(toClient)
      /\ UNCHANGED <<inv, ports, used, sent, logins>>
      /\ toServer \in Seq(Request) /\ toClient \in Seq(SoundResponse)
  BY DEF Receive, server, IInv
<1>2. CASE AskedItems \/ AskedAssets
  BY <1>1, <1>2 DEF AskedItems, AskedAssets
<1>3. CASE GotItems
  <2>1. m.op = "items" /\ m.count = inv /\ toClient' = <<>>
    BY <1>1, <1>3 DEF GotItems
  <2>2. ReceiveItems(inv)
    BY <2>1 DEF Receive
  <2>3. /\ phase' = "items" /\ count' = inv /\ load' = load
        /\ toServer' = <<[op |-> "assets"]>>
    BY <1>3, <2>2 DEF ReceiveItems, GotItems
  <2>4. toServer' # <<>> /\ Head(toServer').op = "assets" /\ Later(Tail(toServer'))
    BY <2>3 DEF Later
  <2> QED BY <1>1, <1>3, <2>1, <2>3, <2>4 DEF GotItems, AskedAssets, ViewInv
<1>4. CASE GotAssets \/ Playing
  <2>1. Replayed /\ Later(toServer)
    BY <1>4 DEF GotAssets, Playing
  <2>2. /\ m.op # "items" /\ Later(toClient')
        /\ GotAssets => m.op = "assets"
        /\ Playing => m.op # "assets"
    BY <1>1, <1>4, LaterPop DEF GotAssets, Playing
  <2>3. /\ Seen' = Effect(Seen, m) /\ Seen' \in State /\ toServer' = toServer
        /\ phase' = "playing"
    BY <1>4, <2>2, ReceiveEffect DEF GotAssets, Playing
  <2>4. load' \in Usage
    <3>1. Seen'.load = load'
      BY DEF Seen
    <3> QED BY <2>3, <3>1 DEF State
  <2>5. Replayed'
    <3>1. PICK e \in State : /\ Replays(Seen, toClient, e)
                             /\ e.ports = ports /\ e.load = used
                             /\ \A s \in Services : e.count[s] >= inv[s]
      BY <2>1 DEF Replayed
    <3>2. Replays(Seen', toClient', e)
      BY <1>1, <2>3, <3>1, ReplaysPop
    <3> QED BY <1>1, <3>1, <3>2 DEF Replayed
  <2> QED BY <1>1, <2>1, <2>2, <2>3, <2>4, <2>5 DEF Playing, ViewInv
<1> QED BY <1>2, <1>3, <1>4 DEF ViewInv

\* The user adds a request behind the others, or logs in again.
LEMMA UserViewStep ==
  ASSUME IInv, ViewInv, User
  PROVE  ViewInv'
<1>1. ASSUME NEW r \in Request, Send(r), r.op \notin {"items", "assets"},
             phase # "selected"
      PROVE  ViewInv'
  <2>1. /\ UNCHANGED <<inv, ports, used, phase, count, view, load, toClient, logins>>
        /\ toServer' = Append(toServer, r) /\ toServer \in Seq(Request)
        /\ sent' = sent + 1
    BY <1>1 DEF Send, server, IInv
  <2>2. Replayed => Replayed'
    BY <2>1 DEF Replayed, Seen
  <2>3. Later(toServer) => Later(toServer')
    BY <1>1, <2>1, LaterAppend
  <2>4. sent' \in Nat
    BY <2>1 DEF ViewInv
  <2>5. CASE AskedAssets
    <3>1. toServer # <<>> /\ Later(Tail(toServer)) /\ Tail(toServer) \in Seq(Request)
      BY <2>1, <2>5 DEF AskedAssets
    <3>2. /\ toServer' # <<>> /\ Head(toServer') = Head(toServer)
          /\ Tail(toServer') = Append(Tail(toServer), r)
      BY <2>1, <3>1
    <3>3. Later(Tail(toServer'))
      BY <1>1, <3>1, <3>2, LaterAppend
    <3> QED BY <2>1, <2>4, <2>5, <3>2, <3>3 DEF AskedAssets, ViewInv
  <2>6. CASE GotAssets \/ Playing
    BY <2>1, <2>2, <2>3, <2>4, <2>6 DEF GotAssets, Playing, ViewInv
  <2> QED BY <1>1, <2>5, <2>6 DEF ViewInv, AskedItems, GotItems
<1>2. ASSUME NEW a \in Apps, OpenApp(a) \/ CloseApp(a) PROVE ViewInv'
  <2>1. /\ [op |-> "activate", app |-> a] \in Request
        /\ [op |-> "stopped", app |-> a] \in Request
    BY DEF Request
  <2>2. phase # "selected"
    <3>1. CASE OpenApp(a)
      BY <3>1 DEF OpenApp
    <3>2. CASE CloseApp(a)
      BY <3>2 DEF CloseApp, ViewInv, AskedItems, GotItems, AskedAssets, GotAssets, Playing
    <3> QED BY <1>2, <3>1, <3>2
  <2> QED BY <1>1, <1>2, <2>1, <2>2 DEF OpenApp, CloseApp
<1>3. ASSUME NEW p \in Ports, Uninstall(p) \/ Toggle(p) PROVE ViewInv'
  <2>1. /\ [op |-> "uninstall", port |-> p] \in Request
        /\ [op |-> "enable", port |-> p, on |-> ~view[p].on] \in Request
    BY DEF Request
  <2> QED BY <1>1, <1>3, <2>1 DEF Uninstall, Toggle
<1>4. ASSUME NEW p \in Ports, NEW s \in Services, Install(p, s) PROVE ViewInv'
  <2>1. [op |-> "install", port |-> p, item |-> s] \in Request
    BY DEF Request
  <2> QED BY <1>1, <1>4, <2>1 DEF Install
<1>5. CASE Relogin
  <2>1. used' = Booted(ports')
    BY <1>5 DEF Relogin
  <2> QED BY <1>5, <2>1, UsageType DEF Relogin, ViewInv, AskedItems
<1> QED BY <1>2, <1>3, <1>4, <1>5 DEF User

LEMMA ViewStep ==
  ASSUME IInv, UsageInv, ViewInv, [Next]_vars
  PROVE  ViewInv'
<1>1. CASE UNCHANGED vars
  BY <1>1 DEF vars, server, client, network, ViewInv, AskedItems, GotItems, AskedAssets,
              GotAssets, Playing, Replayed, Seen, Later
<1> QED BY <1>1, ServeViewStep, ReceiveViewStep, UserViewStep DEF Next

LEMMA ViewInit == Init => ViewInv
<1>1. Init => used = Booted(ports)
  BY DEF Init
<1> QED BY <1>1, UsageType DEF Init, ViewInv, AskedItems

LEMMA CopiesHold == Spec => [](IInv /\ UsageInv /\ ViewInv)
BY InitHolds, Step, UsageInit, UsageStep, ViewInit, ViewStep, PTL DEF Spec

\* Every variable has its type in every reachable state.
THEOREM TypeCorrect == Spec => []TypeOK
<1>1. ASSUME IInv, UsageInv, ViewInv PROVE TypeOK
  <2>1. Sound \subseteq [Ports -> Port] /\ SoundResponse \subseteq Response
    BY DEF Sound, SoundResponse
  <2>2. toClient \in Seq(Response)
    BY <1>1, <2>1 DEF IInv
  <2>3. used \in Usage
    BY <1>1, CostType, UsageType DEF UsageInv
  <2>4. phase \in {"selected", "items", "playing"}
    BY <1>1 DEF ViewInv, AskedItems, GotItems, AskedAssets, GotAssets, Playing
  <2> QED BY <1>1, <2>1, <2>2, <2>3, <2>4 DEF TypeOK, IInv, UsageInv, ViewInv
<1> QED BY <1>1, CopiesHold, PTL

\* FCModel shows what the world service has as soon as nothing is under way,
\* after any requests that the user did not wait for, for any ports and items.
THEOREM ViewsAgree == Spec => []ViewsAgreeWhenQuiet
<1>1. ASSUME ViewInv, Quiet
      PROVE  /\ view = ports /\ load = used
             /\ \A s \in Services : count[s] >= inv[s]
  <2>1. Replayed
    BY <1>1 DEF Quiet, ViewInv, AskedItems, GotItems, AskedAssets, GotAssets, Playing
  <2>2. PICK e \in State : /\ Replays(Seen, <<>>, e)
                           /\ e.ports = ports /\ e.load = used
                           /\ \A s \in Services : e.count[s] >= inv[s]
    BY <1>1, <2>1 DEF Replayed, Quiet
  <2>3. Seen = e
    BY <2>2, ReplaysNone
  <2> QED BY <2>2, <2>3 DEF Seen
<1>2. ViewInv => ViewsAgreeWhenQuiet
  BY <1>1 DEF ViewsAgreeWhenQuiet
<1> QED BY <1>2, CopiesHold, PTL
=============================================================================
