------------------------------ MODULE Computer ------------------------------
(***************************************************************************)
(* A player's computer, kept twice: the world service (FCLogicWorld,       *)
(* Player, NetworkPorts, ComputerBase) decides about every request, and    *)
(* the client (FCModel, ItemMgr, Desktop, SoftwareMgrWindow) repeats the   *)
(* decision in its own copy when the response arrives.  Packets stay in    *)
(* order in both directions; the user does not wait for a response.        *)
(***************************************************************************)
EXTENDS Integers, Sequences, FiniteSets, FiniteSetsExt

CONSTANTS
  Ports,      \* the numbers of the network ports
  Services,   \* items a port can run, one of each software type
  Apps,       \* items with a desktop icon; the player has each of them
  Needs,      \* the services CanActivateSoftware asks for, per app
  Windowless, \* apps that open a message box only
  Cost,       \* GetCPUCost and GetMemCost of each item
  CPU,        \* core speed times core count
  Memory,     \* GetMemorySize
  Word,       \* the number of values of an FCULONG
  Tables,     \* what the rows of the items and the ports may hold at a login
  MaxSend,    \* bound: packets of the user
  MaxLogins,  \* bound: logins
  None        \* no item

Items == Services \cup Apps
Port  == [item : Services \cup {None}, on : BOOLEAN]

ASSUME ComputerAssumption ==
  /\ IsFiniteSet(Ports) /\ IsFiniteSet(Items)
  /\ None \notin Items /\ Services \cap Apps = {}
  /\ Needs \in [Apps -> SUBSET Services] /\ Windowless \subseteq Apps
  /\ Cost \in [Items -> [cpu : Nat, mem : Nat]]
  /\ CPU \in Nat /\ Memory \in Nat /\ Word \in Nat \ {0}
  /\ Tables \subseteq [inv : [Services -> Nat],
                       ports : {ps \in [Ports -> Port] :
                                  \A p \in Ports : ps[p].on => ps[p].item # None}]
  /\ MaxSend \in Nat /\ MaxLogins \in Nat

VARIABLES
  inv,      \* m_mapItems of the player: how many of each service
  ports,    \* NetworkPorts of the player: the item and whether it is enabled
  procs,    \* m_processes: how often each item is in it
  used,     \* m_usageCPU and m_usageMem
  phase,    \* what the client has been told: nothing, its items, its ports
  count,    \* ItemMgr of the client
  view,     \* NetworkPorts of the client
  load,     \* m_usageCPU and m_usageMem of the client
  windows,  \* m_arrApps: the apps with a window
  toServer, \* packets to the world service, oldest first
  toClient, \* packets to the client
  sent,     \* how many packets the user caused
  logins    \* how many logins there were

server  == <<inv, ports, procs, used>>
client  == <<phase, count, view, load, windows>>
network == <<toServer, toClient>>
vars    == <<server, client, network, sent, logins>>

Empty == [p \in Ports |-> [item |-> None, on |-> FALSE]]
Idle  == [cpu |-> 0, mem |-> 0]

Add(u, i) == [cpu |-> u.cpu + Cost[i].cpu, mem |-> u.mem + Cost[i].mem]
Sub(u, i) == [cpu |-> u.cpu - Cost[i].cpu, mem |-> u.mem - Cost[i].mem]

\* What processes cost, n[i] of each item.
CostOf(n) ==
  FoldSet(LAMBDA i, u : [cpu |-> u.cpu + n[i] * Cost[i].cpu,
                         mem |-> u.mem + n[i] * Cost[i].mem], Idle, Items)

\* The processes of a computer that runs the enabled ports only, and its usage.
BootProcs(ps) == [i \in Items |-> Cardinality({p \in Ports : ps[p].on /\ ps[p].item = i})]
Booted(ps)    == CostOf(BootProcs(ps))

Init ==
  /\ \E t \in Tables : /\ inv = t.inv /\ ports = t.ports
                       /\ procs = BootProcs(t.ports) /\ used = Booted(t.ports)
  /\ phase = "selected" /\ count = [s \in Services |-> 0]
  /\ view = Empty /\ load = Idle /\ windows = {}
  /\ toServer = <<[op |-> "items"]>> /\ toClient = <<>>
  /\ sent = 0 /\ logins = 1

-----------------------------------------------------------------------------
(* NetworkPorts, on both sides                                             *)

\* installPort, whether it succeeds or not.
Installed(ps, p, i) == IF ps[p].item = None THEN [ps EXCEPT ![p].item = i] ELSE ps

\* Mutant of Uninstalled: the port stays enabled.
UninstalledOn(ps, p) == [ps EXCEPT ![p].item = None]

\* uninstallPort
Uninstalled(ps, p) == [ps EXCEPT ![p] = [item |-> None, on |-> FALSE]]

\* enablePort: a port without software cannot be enabled.
Enabled(ps, p, b) == [ps EXCEPT ![p].on = b /\ (@ \/ ps[p].item # None)]

\* isServiceRunning
ServiceRunning(s) == \E p \in Ports : ports[p].item = s /\ ports[p].on

-----------------------------------------------------------------------------
(* The world service                                                       *)

\* GetAvailableMemory is unsigned, GetAvailableCPU is not.
Affordable(i) ==
  /\ (Memory - used.mem) % Word >= Cost[i].mem
  /\ CPU - used.cpu >= Cost[i].cpu

CanActivate(a) == Affordable(a) /\ \A s \in Needs[a] : ServiceRunning(s)

Reply(m) == toClient' = Append(toClient, m)

ServeItems ==
  /\ Reply([op |-> "items", count |-> inv])
  /\ UNCHANGED server

ServeAssets ==
  /\ Reply([op |-> "assets", ports |-> ports])
  /\ UNCHANGED server

\* OnCommandActivateSoftware
ServeActivate(a) ==
  /\ Reply([op |-> "activate", app |-> a, ok |-> CanActivate(a)])
  /\ IF CanActivate(a)
     THEN used' = Add(used, a) /\ procs' = [procs EXCEPT ![a] = @ + 1]
     ELSE UNCHANGED <<used, procs>>
  /\ UNCHANGED <<inv, ports>>

\* Mutant of ServeStopped: the process stays in the list.
ServeStoppedKept(a) ==
  /\ Reply([op |-> "stopped", app |-> a])
  /\ used' = Sub(used, a)
  /\ UNCHANGED <<inv, ports, procs>>

\* OnCommandSoftwareStopped: list::remove removes every process of the item,
\* the usage goes down once.
ServeStopped(a) ==
  /\ Reply([op |-> "stopped", app |-> a])
  /\ procs' = [procs EXCEPT ![a] = 0]
  /\ used' = Sub(used, a)
  /\ UNCHANGED <<inv, ports>>

\* Mutant of ServeInstall: HasItem is not asked.
ServeInstallUnchecked(p, i) ==
  /\ inv' = [inv EXCEPT ![i] = @ - 1]
  /\ ports' = Installed(ports, p, i)
  /\ Reply([op |-> "install", port |-> p, item |-> i, ok |-> ports[p].item = None])
  /\ UNCHANGED <<procs, used>>

\* OnCommandSoftwareInstall: without the item there is no answer; the item is
\* taken before it is known whether the port is free.
ServeInstall(p, i) ==
  IF inv[i] = 0
  THEN UNCHANGED <<server, toClient>>
  ELSE /\ inv' = [inv EXCEPT ![i] = @ - 1]
       /\ ports' = Installed(ports, p, i)
       /\ Reply([op |-> "install", port |-> p, item |-> i, ok |-> ports[p].item = None])
       /\ UNCHANGED <<procs, used>>

\* Mutant of ServeUninstall: the port is cleared after the answer, if at all.
ServeUninstallKept(p) ==
  IF ports[p].item = None
  THEN UNCHANGED <<server, toClient>>
  ELSE /\ inv' = [inv EXCEPT ![ports[p].item] = @ + 1]
       /\ Reply([op |-> "uninstall", port |-> p])
       /\ UNCHANGED <<ports, procs, used>>

\* OnCommandSoftwareUninstall: an empty port is not answered.  The process of
\* an enabled service stays in the list.
ServeUninstall(p) ==
  IF ports[p].item = None
  THEN UNCHANGED <<server, toClient>>
  ELSE /\ inv' = [inv EXCEPT ![ports[p].item] = @ + 1]
       /\ ports' = Uninstalled(ports, p)
       /\ Reply([op |-> "uninstall", port |-> p])
       /\ UNCHANGED <<procs, used>>

\* OnCommandNetworkPortEnable: the answer carries the state of the port.
ServeEnable(p, b) ==
  /\ ports' = Enabled(ports, p, b)
  /\ Reply([op |-> "enable", port |-> p, on |-> ports'[p].on])
  /\ UNCHANGED <<inv, procs, used>>

Serve ==
  /\ toServer # <<>>
  /\ toServer' = Tail(toServer)
  /\ LET m == Head(toServer)
     IN \/ m.op = "items"     /\ ServeItems
        \/ m.op = "assets"    /\ ServeAssets
        \/ m.op = "activate"  /\ ServeActivate(m.app)
        \/ m.op = "stopped"   /\ ServeStopped(m.app)
        \/ m.op = "install"   /\ ServeInstall(m.port, m.item)
        \/ m.op = "uninstall" /\ ServeUninstall(m.port)
        \/ m.op = "enable"    /\ ServeEnable(m.port, m.on)
  /\ UNCHANGED <<client, sent, logins>>

-----------------------------------------------------------------------------
(* The client: responses                                                   *)

\* OnResponseCharacterItemsRequest; an item the client does not know counts 0.
ReceiveItems(c) ==
  /\ phase' = "items"
  /\ count' = c
  /\ toServer' = Append(toServer, [op |-> "assets"])
  /\ UNCHANGED <<view, load, windows>>

\* OnResponseCharacterAssetRequest adds the processes of the enabled ports.
ReceiveAssets(ps) ==
  /\ phase' = "playing"
  /\ view' = ps
  /\ load' = [cpu |-> load.cpu + Booted(ps).cpu, mem |-> load.mem + Booted(ps).mem]
  /\ UNCHANGED <<count, windows, toServer>>

\* OnResponseActivateSoftware and Desktop::OpenApplication.  The usage goes
\* up even if the window is open already and only comes to the front.
ReceiveActivate(a, ok) ==
  /\ load' = IF ok THEN Add(load, a) ELSE load
  /\ windows' = IF ok /\ a \notin Windowless THEN windows \cup {a} ELSE windows
  /\ UNCHANGED <<phase, count, view, toServer>>

ReceiveStopped(a) ==
  /\ load' = Sub(load, a)
  /\ UNCHANGED <<phase, count, view, windows, toServer>>

ReceiveInstall(p, i, ok) ==
  /\ IF ok THEN /\ count' = [count EXCEPT ![i] = @ - 1]
                /\ view' = Installed(view, p, i)
           ELSE UNCHANGED <<count, view>>
  /\ UNCHANGED <<phase, load, windows, toServer>>

ReceiveUninstall(p) ==
  /\ view' = Uninstalled(view, p)
  /\ count' = IF view[p].item = None THEN count ELSE [count EXCEPT ![view[p].item] = @ + 1]
  /\ UNCHANGED <<phase, load, windows, toServer>>

\* Mutant of ReceiveEnable: the port is toggled.
ReceiveToggle(p, b) ==
  /\ view' = Enabled(view, p, ~view[p].on)
  /\ UNCHANGED <<phase, count, load, windows, toServer>>

ReceiveEnable(p, b) ==
  /\ view' = Enabled(view, p, b)
  /\ UNCHANGED <<phase, count, load, windows, toServer>>

Receive ==
  /\ toClient # <<>>
  /\ toClient' = Tail(toClient)
  /\ LET m == Head(toClient)
     IN \/ m.op = "items"     /\ ReceiveItems(m.count)
        \/ m.op = "assets"    /\ ReceiveAssets(m.ports)
        \/ m.op = "activate"  /\ ReceiveActivate(m.app, m.ok)
        \/ m.op = "stopped"   /\ ReceiveStopped(m.app)
        \/ m.op = "install"   /\ ReceiveInstall(m.port, m.item, m.ok)
        \/ m.op = "uninstall" /\ ReceiveUninstall(m.port)
        \/ m.op = "enable"    /\ ReceiveEnable(m.port, m.on)
  /\ UNCHANGED <<server, sent, logins>>

-----------------------------------------------------------------------------
(* The client: the user                                                    *)

Send(m) ==
  /\ sent < MaxSend
  /\ sent' = sent + 1
  /\ toServer' = Append(toServer, m)
  /\ UNCHANGED <<server, phase, count, view, load, toClient, logins>>

\* OnDesktopIconActivated: the icons are there with the items.
OpenApp(a) ==
  /\ phase # "selected" /\ a \notin windows
  /\ Send([op |-> "activate", app |-> a])
  /\ UNCHANGED windows

\* OnGUIElementClosed, VE_AppClosed
CloseApp(a) ==
  /\ a \in windows
  /\ windows' = windows \ {a}
  /\ Send([op |-> "stopped", app |-> a])

\* popupPortMenu offers every service the client counts, for any port.
Install(p, s) ==
  /\ phase = "playing" /\ count[s] > 0
  /\ Send([op |-> "install", port |-> p, item |-> s])
  /\ UNCHANGED windows

Uninstall(p) ==
  /\ phase = "playing" /\ view[p].item # None
  /\ Send([op |-> "uninstall", port |-> p])
  /\ UNCHANGED windows

\* OnCheckboxChanged
Toggle(p) ==
  /\ phase = "playing"
  /\ Send([op |-> "enable", port |-> p, on |-> ~view[p].on])
  /\ UNCHANGED windows

\* The user leaves, what is on its way is lost, and the character is loaded
\* again (OnDBJob_LoadCharacterPorts).  The rows of the items and of the ports
\* were written by jobs of their own, any of which may have been dropped, be
\* queued still or have been overtaken, so what is loaded is not tied to what
\* the player had; a row of a port is written whole.
Relogin ==
  /\ logins < MaxLogins
  /\ logins' = logins + 1
  /\ \E t \in Tables : /\ inv' = t.inv /\ ports' = t.ports
                       /\ procs' = BootProcs(t.ports) /\ used' = Booted(t.ports)
  /\ phase' = "selected" /\ count' = [s \in Services |-> 0]
  /\ view' = Empty /\ load' = Idle /\ windows' = {}
  /\ toServer' = <<[op |-> "items"]>> /\ toClient' = <<>>
  /\ UNCHANGED sent

User ==
  \/ \E a \in Apps : OpenApp(a) \/ CloseApp(a)
  \/ \E p \in Ports : Uninstall(p) \/ Toggle(p) \/ \E s \in Services : Install(p, s)
  \/ Relogin

Next == Serve \/ Receive \/ User

Spec == Init /\ [][Next]_vars

-----------------------------------------------------------------------------
(* Properties *)

Usage == [cpu : Int, mem : Int]

\* The packets to the world service and to the client.
Request ==
  [op : {"items", "assets"}] \cup [op : {"activate", "stopped"}, app : Apps]
    \cup [op : {"install"}, port : Ports, item : Services]
    \cup [op : {"uninstall"}, port : Ports]
    \cup [op : {"enable"}, port : Ports, on : BOOLEAN]
Response ==
  [op : {"items"}, count : [Services -> Int]]
    \cup [op : {"assets"}, ports : [Ports -> Port]]
    \cup [op : {"activate"}, app : Apps, ok : BOOLEAN]
    \cup [op : {"stopped"}, app : Apps]
    \cup [op : {"install"}, port : Ports, item : Services, ok : BOOLEAN]
    \cup [op : {"uninstall"}, port : Ports]
    \cup [op : {"enable"}, port : Ports, on : BOOLEAN]

\* The type of every variable.
TypeOK ==
  /\ inv \in [Services -> Nat]
  /\ ports \in [Ports -> Port] /\ view \in [Ports -> Port]
  /\ procs \in [Items -> Nat]
  /\ used \in Usage /\ load \in Usage
  /\ phase \in {"selected", "items", "playing"}
  /\ count \in [Services -> Int]
  /\ windows \subseteq Apps
  /\ toServer \in Seq(Request) /\ toClient \in Seq(Response)
  /\ sent \in Nat /\ logins \in Nat

\* A port that is enabled has software, in the copy of the service and in
\* that of the client: no order of installing, enabling and removing, with
\* responses still on their way, makes isServiceRunning or the start of an
\* application look at an enabled empty port.
EnabledPortHasSoftware ==
  \A p \in Ports : /\ ports[p].on => ports[p].item # None
                   /\ view[p].on => view[p].item # None

\* The copies of the items, one in the player's list or in a port.
Total(s) == inv[s] + Cardinality({p \in Ports : ports[p].item = s})

\* While a player is logged in, no order of requests, repeated ones included,
\* makes a second copy of an item: OnCommandSoftwareInstall and
\* OnCommandSoftwareUninstall take from one place what they put into the
\* other.  A login may bring one back, see Relogin.
NothingIsDuplicated ==
  [][logins' = logins => \A s \in Services : Total(s)' <= Total(s)]_vars

Quiet == phase = "playing" /\ toServer = <<>> /\ toClient = <<>>

\* When every packet has arrived, FCModel shows what the world service has:
\* the same ports and the same usage, although each side computes them from
\* packets the user did not wait for.  An item that a failed installation
\* took is still counted by the client, so it counts no fewer.
ViewsAgreeWhenQuiet ==
  Quiet => /\ view = ports /\ load = used
           /\ \A s \in Services : count[s] >= inv[s]

\* What the processes in m_processes cost.
Running == CostOf(procs)

\* The usage of a computer covers the processes it has: stopping an
\* application, twice started or twice stopped, never frees what another
\* process uses, so CanActivateSoftware never counts memory as free that
\* is not.
UsageCoversProcesses == used.cpu >= Running.cpu /\ used.mem >= Running.mem
=============================================================================
