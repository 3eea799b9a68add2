-------------------------------- MODULE Ports --------------------------------
(***************************************************************************)
(* Port detection and forwarding.  The port watcher of the guest reports   *)
(* what opens and closes; forward_port and start_browser_proxy bind a port *)
(* of the host and spawn a task that accepts clients one at a time and     *)
(* bridges each over a connection taken from the relay workers of the      *)
(* guest, one taker at a time.                                             *)
(***************************************************************************)
EXTENDS Naturals, Sequences, FiniteSets

CONSTANTS
    GuestPorts,     \* ports of the guest
    HostPorts,      \* ports of the host
    Tabs,           \* commands of the frontend in flight
    Clients,        \* clients that connect to a port of the host
    Relays,         \* relay workers of the guest
    MaxCommands,    \* bound: commands issued
    MaxFlips        \* bound: changes of the listening ports

ASSUME PortsAssumption == "none" \notin GuestPorts \cup HostPorts

VARIABLES
    listening,  \* ports that listen in the guest
    known,      \* the ports the watcher has reported
    wire,       \* its messages on the way to the host
    watched,    \* handle_port_watch still reads them
    detected, processes,    \* what the host shows: ports, and ports named in the list of processes
    forwarded,  \* entries shown to the user: [port, host]
    handles,    \* forward_tasks: guest port -> host port of its loop
    proxies,    \* browser_proxies, the same
    accepting,  \* host port -> its accept loop: [pc, port, client]
    lock,       \* accept loops that wait for relay_rx, its holder first
    client,     \* client -> [pc, host]
    relay,      \* relay worker -> client it serves, "connecting" or "offered"
    offered,    \* relay_rx: connections nobody has taken
    command,    \* tab -> its command: [kind, port, host, pc]
    commands, flips,    \* counters of the bounds
    crossed,    \* guest ports on which two commands, or one and a report, overlapped
    failed      \* host ports whose accept loop ended on an error

portVars == <<listening, known, wire, watched, detected, processes, forwarded, handles, proxies, accepting, lock,
              client, relay, offered, command, commands, flips, crossed, failed>>

NoCommand == [kind |-> "none", port |-> "none", host |-> "none", pc |-> "idle"]
NoLoop == [pc |-> "none", port |-> "none", client |-> "none"]

\* The machine has just booted; the clients of who are yet to come, and done
\* commands and changed flips of the bounds are used up.
PortsInitWith(who, done, changed) ==
    /\ listening = {} /\ known = {} /\ wire = << >> /\ watched = TRUE
    /\ detected = {} /\ processes = {} /\ forwarded = {}
    /\ handles = [p \in GuestPorts |-> "none"] /\ proxies = [p \in GuestPorts |-> "none"]
    /\ accepting = [h \in HostPorts |-> NoLoop] /\ lock = << >>
    /\ client = [c \in Clients |-> [pc |-> IF c \in who THEN "out" ELSE "dropped", host |-> "none"]]
    /\ relay = [w \in Relays |-> "connecting"] /\ offered = << >>
    /\ command = [k \in Tabs |-> NoCommand] /\ commands = done /\ flips = changed
    /\ crossed = {} /\ failed = {}

PortsInit == PortsInitWith(Clients, 0, 0)

watchVars == <<listening, known, wire, watched, detected, processes, flips>>
loopVars == <<accepting, lock, client, relay, offered, failed>>
entryVars == <<forwarded, handles, proxies, command, commands, crossed>>

------------------------------------------------------------------------------
(* The watcher of the guest.                                               *)

\* A program in the guest opens or closes a port.
Flip(p) ==
    /\ watched /\ flips < MaxFlips /\ flips' = flips + 1
    /\ listening' = (listening \ {p}) \cup ({p} \ listening)
    /\ UNCHANGED <<known, wire, watched, detected, processes, loopVars, entryVars>>

Message(kind, ports) == [kind |-> kind, ports |-> ports]

Sends(kind, ports) == IF ports = {} THEN << >> ELSE <<Message(kind, ports)>>

\* One round of the watcher: what is new and what is gone.  What it sends when
\* nobody reads any more has no effect.
Poll ==
    /\ watched /\ listening # known /\ known' = listening
    /\ wire' = wire \o Sends("opened", listening \ known) \o Sends("closed", known \ listening)
    /\ UNCHANGED <<listening, watched, detected, processes, flips, loopVars, entryVars>>

\* Every few rounds the list of processes follows, with the ports they listen on.
ScanProcesses ==
    /\ watched /\ listening = known /\ processes # known /\ wire = << >>
    /\ wire' = Append(wire, Message("snapshot", known))
    /\ UNCHANGED <<listening, known, watched, detected, processes, flips, loopVars, entryVars>>

------------------------------------------------------------------------------
(* The accept loops.                                                       *)

\* The loops of hosts end: their clients are reset, also those in the backlog.
EndLoops(hosts) ==
    /\ accepting' = [h \in HostPorts |-> IF h \in hosts THEN NoLoop ELSE accepting[h]]
    /\ lock' = SelectSeq(lock, LAMBDA h : h \notin hosts)
    /\ client' = [c \in Clients |-> IF client[c].pc = "waiting" /\ client[c].host \in hosts
                                    THEN [client[c] EXCEPT !.pc = "dropped"] ELSE client[c]]

ClientConnects(c) ==
    /\ client[c].pc = "out"
    /\ \E h \in HostPorts :
          accepting[h].pc # "none" /\ client' = [client EXCEPT ![c] = [pc |-> "waiting", host |-> h]]
    /\ UNCHANGED <<watchVars, entryVars, accepting, lock, relay, offered, failed>>

Held == {accepting[h].client : h \in HostPorts}

Accept(h) ==
    /\ accepting[h].pc = "accept"
    /\ \E c \in Clients \ Held :
          /\ client[c] = [pc |-> "waiting", host |-> h]
          /\ accepting' = [accepting EXCEPT ![h].pc = "relay", ![h].client = c]
    /\ lock' = Append(lock, h)
    /\ UNCHANGED <<watchVars, entryVars, client, relay, offered, failed>>

Holds(h) == accepting[h].pc = "relay" /\ lock # << >> /\ Head(lock) = h
NextClient(h) == accepting' = [accepting EXCEPT ![h].pc = "accept", ![h].client = "none"] /\ lock' = Tail(lock)

\* A connection is there: a task of its own serves the client from now on.
TakeRelay(h) ==
    /\ Holds(h) /\ offered # << >> /\ NextClient(h)
    /\ relay' = [relay EXCEPT ![Head(offered)] = accepting[h].client]
    /\ client' = [client EXCEPT ![accepting[h].client].pc = "served"]
    /\ offered' = Tail(offered)
    /\ UNCHANGED <<watchVars, entryVars, failed>>

\* Ten seconds without one.
RelayTimesOut(h) == Holds(h) /\ offered = << >>

DropClient(h) ==
    /\ RelayTimesOut(h) /\ NextClient(h)
    /\ client' = [client EXCEPT ![accepting[h].client].pc = "dropped"]
    /\ UNCHANGED <<watchVars, entryVars, relay, offered, failed>>

\* accept fails: the loop ends, its entries stay.
AcceptFails(h) ==
    /\ accepting[h].pc = "accept" /\ failed' = failed \cup {h} /\ EndLoops({h})
    /\ UNCHANGED <<watchVars, entryVars, relay, offered>>

\* A relay worker offers a connection; the host queues a duplicate of it.
Offer(w) ==
    /\ relay[w] = "connecting" /\ relay' = [relay EXCEPT ![w] = "offered"] /\ offered' = Append(offered, w)
    /\ UNCHANGED <<watchVars, entryVars, accepting, lock, client, failed>>

\* Nothing listens on the port, or one side is done: the worker offers itself again.
BridgeEnds(w) ==
    /\ relay[w] \in Clients /\ relay' = [relay EXCEPT ![w] = "connecting"]
    /\ client' = [client EXCEPT ![relay[w]].pc = "dropped"]
    /\ UNCHANGED <<watchVars, entryVars, accepting, lock, offered, failed>>

------------------------------------------------------------------------------
(* The reports at the host.                                                *)

\* Leaves the accept loop to itself.
LoopKept(p) == {}

\* The loop that a closed port, or stop_forward, aborts.
LoopOf(p) == {handles[p]} \cap HostPorts

InFlight(p) == {k \in Tabs : command[k].port = p}

PortOpened ==
    /\ Head(wire).kind = "opened" /\ detected' = detected \cup Head(wire).ports
    /\ UNCHANGED <<processes, forwarded, handles, proxies, crossed, loopVars>>

PortClosed ==
    LET ports == Head(wire).ports
    IN /\ Head(wire).kind = "closed" /\ detected' = detected \ ports
       /\ forwarded' = {e \in forwarded : e.port \notin ports}
       /\ handles' = [p \in GuestPorts |-> IF p \in ports THEN "none" ELSE handles[p]]
       /\ EndLoops(UNION {LoopOf(p) : p \in ports})
       /\ crossed' = crossed \cup {p \in ports : InFlight(p) # {}}
       /\ UNCHANGED <<processes, proxies, relay, offered, failed>>

ProcessSnapshot ==
    /\ Head(wire).kind = "snapshot" /\ processes' = Head(wire).ports
    /\ UNCHANGED <<detected, forwarded, handles, proxies, crossed, loopVars>>

Receive ==
    /\ watched /\ wire # << >> /\ wire' = Tail(wire)
    /\ PortOpened \/ PortClosed \/ ProcessSnapshot
    /\ UNCHANGED <<listening, known, watched, flips, command, commands>>

\* A frame that is too large ends the handler, and the watcher connects only once.
WatchEnds ==
    /\ watched /\ wire # << >> /\ watched' = FALSE /\ wire' = << >>
    /\ UNCHANGED <<listening, known, detected, processes, flips, loopVars, entryVars>>

------------------------------------------------------------------------------
(* The commands.                                                           *)

Begin(k, kind, p, h, pc) ==
    /\ command[k].pc = "idle" /\ commands < MaxCommands /\ commands' = commands + 1
    /\ command' = [command EXCEPT ![k] = [kind |-> kind, port |-> p, host |-> h, pc |-> pc]]
    /\ crossed' = IF InFlight(p) = {} THEN crossed ELSE crossed \cup {p}

NotForwarded(p) == \A e \in forwarded : e.port # p

\* forward_port up to the bind.
ForwardPort(k, p, h) ==
    /\ NotForwarded(p) /\ Begin(k, "forward", p, h, "bind")
    /\ UNCHANGED <<watchVars, loopVars, forwarded, handles, proxies>>

\* A loop goes by the name of its port, so the port of one that failed is not taken again.
Free(h) == accepting[h].pc = "none" /\ h \notin failed

Returns(k) == command' = [command EXCEPT ![k] = NoCommand]

\* The port is bound, the entry pushed and the loop spawned, or the port is taken.
Bind(k) ==
    LET p == command[k].port  h == command[k].host
    IN /\ command[k].pc = "bind"
       /\ \/ /\ Free(h)
             /\ accepting' = [accepting EXCEPT ![h] = [pc |-> "accept", port |-> p, client |-> "none"]]
             /\ forwarded' = forwarded \cup {[port |-> p, host |-> h]}
             /\ command' = [command EXCEPT ![k].pc = "insert"]
          \/ Returns(k) /\ UNCHANGED <<accepting, forwarded>>
       /\ UNCHANGED <<watchVars, handles, proxies, commands, crossed, lock, client, relay, offered, failed>>

InsertHandle(k) ==
    /\ command[k].pc = "insert" /\ Returns(k)
    /\ handles' = [handles EXCEPT ![command[k].port] = command[k].host]
    /\ UNCHANGED <<watchVars, loopVars, forwarded, proxies, commands, crossed>>

\* stop_forward: the loop, and then the entry.
StopForward(k, p) ==
    /\ Begin(k, "stop", p, "none", "retain")
    /\ handles' = [handles EXCEPT ![p] = "none"] /\ EndLoops(LoopOf(p))
    /\ UNCHANGED <<watchVars, forwarded, proxies, relay, offered, failed>>

Retain(k) ==
    /\ command[k].pc = "retain" /\ Returns(k)
    /\ forwarded' = {e \in forwarded : e.port # command[k].port}
    /\ UNCHANGED <<watchVars, loopVars, handles, proxies, commands, crossed>>

\* start_browser_proxy, which takes any free port of the host.
StartProxy(k, p) ==
    /\ proxies[p] = "none" /\ Begin(k, "proxy", p, "none", "bindproxy")
    /\ UNCHANGED <<watchVars, loopVars, forwarded, handles, proxies>>

BindProxy(k) ==
    /\ command[k].pc = "bindproxy" /\ Returns(k)
    /\ \E h \in HostPorts :
          /\ Free(h)
          /\ accepting' = [accepting EXCEPT ![h] = [pc |-> "accept", port |-> command[k].port, client |-> "none"]]
          /\ proxies' = [proxies EXCEPT ![command[k].port] = h]
    /\ UNCHANGED <<watchVars, forwarded, handles, commands, crossed, lock, client, relay, offered, failed>>

StopProxy(p) ==
    /\ commands < MaxCommands /\ commands' = commands + 1
    /\ proxies[p] # "none" /\ proxies' = [proxies EXCEPT ![p] = "none"] /\ EndLoops({proxies[p]} \cap HostPorts)
    /\ UNCHANGED <<watchVars, forwarded, handles, command, crossed, relay, offered, failed>>

LoopStep(h) == Accept(h) \/ TakeRelay(h) \/ DropClient(h)

PortsNext ==
    \/ Poll \/ ScanProcesses \/ Receive \/ WatchEnds
    \/ \E h \in HostPorts : LoopStep(h) \/ AcceptFails(h)
    \/ \E c \in Clients : ClientConnects(c)
    \/ \E w \in Relays : Offer(w) \/ BridgeEnds(w)
    \/ \E p \in GuestPorts : Flip(p) \/ StopProxy(p)
    \/ \E k \in Tabs :
          \/ Bind(k) \/ InsertHandle(k) \/ Retain(k) \/ BindProxy(k)
          \/ \E p \in GuestPorts : StopForward(k, p) \/ StartProxy(k, p) \/ \E h \in HostPorts : ForwardPort(k, p, h)

\* The tasks of the runtime are scheduled and the timer of a wait ends.
PortsFairness == \A h \in HostPorts : WF_portVars(LoopStep(h))

PortsSpec == PortsInit /\ [][PortsNext]_portVars /\ PortsFairness

------------------------------------------------------------------------------
(* Properties.                                                             *)

\* The sets and maps keep their types, and a port of the guest is shown as
\* forwarded at most once unless commands on it overlapped.
PortsTypeOK ==
    /\ listening \cup known \cup detected \cup processes \subseteq GuestPorts
    /\ \A c \in Clients : client[c].pc \in {"out", "waiting", "served", "dropped"}
    /\ \A e, f \in forwarded : e.port = f.port => e = f \/ e.port \in crossed

\* The host knows which ports are open and who may use them.  Once it has read
\* everything on the connection, it shows exactly the ports the watcher has last
\* seen.  No port of the host stays bound behind the user's back: an accept loop
\* is behind the handle that stops it, and an entry shown to the user has its
\* loop, unless commands or reports of one port overlapped or accept failed.
PortsAccounted ==
    /\ watched /\ wire = << >> => detected = known
    /\ \A h \in HostPorts :
          LET p == accepting[h].port
          IN accepting[h].pc = "none" \/ p \in crossed \/ handles[p] = h \/ proxies[p] = h
             \/ \E k \in Tabs : command[k].pc = "insert" /\ command[k].host = h
    /\ \A e \in forwarded :
          \/ e.port \in crossed \/ e.host \in failed \/ accepting[e.host].port = e.port
          \/ \E k \in Tabs : command[k].pc = "retain" /\ command[k].port = e.port

\* Every client that connects is served or dropped in the end, also when all
\* relay workers are busy and a loop holds the lock that the others wait for.
ClientsAnswered == \A c \in Clients : client[c].pc = "waiting" ~> client[c].pc # "waiting"
==============================================================================
