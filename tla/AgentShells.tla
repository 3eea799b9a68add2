----------------------------- MODULE AgentShells -----------------------------
(***************************************************************************)
(* The shells of the guest agent.  Three threads share the ShellManager:   *)
(* control_loop opens and closes shells as the host asks, multi_bridge_loop*)
(* reads what they print and cleans up those that exit, vsock_to_pty_loop  *)
(* writes what the user types.  The bridge works on a snapshot of the      *)
(* descriptors.  On the host, each shell has an output queue that the      *)
(* control handler removes when it is told that the shell closed.          *)
(***************************************************************************)
EXTENDS Naturals, Sequences, FiniteSets

CONSTANTS
    SessionIds,     \* the shell session ids the frontend uses
    Default,        \* DEFAULT_SHELL_SESSION_ID
    MaxShells,      \* MAX_SHELLS
    MaxSpawns,      \* bound: shells started
    MaxRequests     \* bound: requests and answers under way

ASSUME ShellsAssumption ==
    /\ Default \in SessionIds
    /\ MaxShells \in Nat \ {0} /\ MaxSpawns \in Nat \ {0} /\ MaxRequests \in Nat

VARIABLES
    shells,     \* ShellManager::shells: the shell of each session, or None
    spawned,    \* shells started so far; each is identified by its number
    exited,     \* the shells whose process has ended
    open,       \* the descriptor table: the shell each master descriptor belongs to
    requests,   \* control messages from the host
    control,    \* control_loop: the shell it has taken out and must still close
    changes,    \* a notification of control_loop for the bridge is waiting
    fds,        \* the bridge's snapshot: pairs of session and descriptor
    bridge,     \* the bridge: where it is, the descriptors it will read, the sessions it
                \* will clean up, and the shell it has taken out and must still close
    frame,      \* the shell whose output was forwarded last, and under which session
    input,      \* vsock_to_pty_loop: the shell meant and the descriptor looked up
    queues,     \* host: the sessions that have an output queue
    replies     \* control messages to the host

vars == <<shells, spawned, exited, open, requests, control, changes, fds, bridge, frame, input,
          queues, replies>>

NoFrame == [session |-> "none", pid |-> 0]
Pids == 1..MaxSpawns
Fds == 1..(MaxSpawns + 1)
None == [pid |-> 0, fd |-> 0]
Shell == [pid : Pids, fd : Fds]
AtRest == [pc |-> "drain", ready |-> {}, closed |-> {}, shell |-> None]
Active == {s \in SessionIds : shells[s] # None}

\* What fd_snapshot returns.
Snapshot == {<<s, shells[s].fd>> : s \in Active}

\* openpty: the lowest descriptor that is not in use.
FreeFd == CHOOSE f \in Fds : open[f] = 0 /\ \A g \in Fds : open[g] = 0 => f <= g

Closed(f) == [open EXCEPT ![f] = 0]

\* The default shell is spawned before the threads are.
Init ==
    /\ shells = [s \in SessionIds |-> IF s = Default THEN [pid |-> 1, fd |-> 1] ELSE None]
    /\ spawned = 1
    /\ exited = {}
    /\ open = [f \in Fds |-> IF f = 1 THEN 1 ELSE 0]
    /\ requests = << >>
    /\ control = None
    /\ changes = FALSE
    /\ fds = {<<Default, 1>>}
    /\ bridge = AtRest
    /\ frame = NoFrame
    /\ input = None
    /\ queues = {Default}
    /\ replies = << >>

------------------------------------------------------------------------------
(* The host.                                                               *)

Request(t, s) == requests' = Append(requests, [t |-> t, session |-> s])

\* spawn_shell: the queue is made ahead of time.
HostSpawn(s) ==
    /\ Len(requests) + Len(replies) < MaxRequests
    /\ queues' = queues \cup {s}
    /\ Request("spawn", s)
    /\ UNCHANGED <<shells, spawned, exited, open, control, changes, fds,
                   bridge, frame, input, replies>>

HostClose(s) ==
    /\ Len(requests) + Len(replies) < MaxRequests
    /\ Request("close", s)
    /\ UNCHANGED <<shells, spawned, exited, open, control, changes, fds,
                   bridge, frame, input, queues, replies>>

\* vsock_control_handler: ShellReady makes sure of the queue, ShellClosed
\* removes it.
HostReply ==
    /\ replies # << >>
    /\ replies' = Tail(replies)
    /\ queues' = IF Head(replies).t = "ready" THEN queues \cup {Head(replies).session}
                 ELSE queues \ {Head(replies).session}
    /\ UNCHANGED <<shells, spawned, exited, open, requests, control, changes,
                   fds, bridge, frame, input>>

------------------------------------------------------------------------------
(* control_loop                                                            *)

Reply(t, s) == replies' = Append(replies, [t |-> t, session |-> s])

Pending(t) == control = None /\ requests # << >> /\ Head(requests).t = t
Asked == Head(requests).session
CapReached == Cardinality(Active) >= MaxShells

\* SpawnShell: refused at the cap, ignored for a session that has a shell.
SpawnRefused ==
    /\ Pending("spawn")
    /\ CapReached \/ shells[Asked] # None
    /\ requests' = Tail(requests)
    /\ IF CapReached THEN Reply("closed", Asked) ELSE UNCHANGED replies
    /\ UNCHANGED <<shells, spawned, exited, open, control, changes, fds,
                   bridge, frame, input, queues>>

\* SpawnShell: openpty and fork, insert, tell the bridge, tell the host.
SpawnShell ==
    /\ Pending("spawn")
    /\ ~CapReached /\ shells[Asked] = None
    /\ spawned < MaxSpawns
    /\ requests' = Tail(requests)
    /\ spawned' = spawned + 1
    /\ shells' = [shells EXCEPT ![Asked] = [pid |-> spawned + 1, fd |-> FreeFd]]
    /\ open' = [open EXCEPT ![FreeFd] = spawned + 1]
    /\ changes' = TRUE
    /\ Reply("ready", Asked)
    /\ UNCHANGED <<exited, control, fds, bridge, frame, input, queues>>

\* SpawnShell: openpty or fork fails.
SpawnFails ==
    /\ Pending("spawn")
    /\ ~CapReached /\ shells[Asked] = None
    /\ requests' = Tail(requests)
    /\ Reply("closed", Asked)
    /\ UNCHANGED <<shells, spawned, exited, open, control, changes, fds,
                   bridge, frame, input, queues>>

\* CloseShell of a session that has no shell: nothing is answered.
CloseUnknown ==
    /\ Pending("close") /\ shells[Asked] = None
    /\ requests' = Tail(requests)
    /\ UNCHANGED <<shells, spawned, exited, open, control, changes, fds,
                   bridge, frame, input, queues, replies>>

\* CloseShell: the shell leaves the map, is sent SIGHUP and waited for.
CloseRemove ==
    /\ Pending("close") /\ shells[Asked] # None
    /\ shells' = [shells EXCEPT ![Asked] = None]
    /\ control' = shells[Asked]
    /\ exited' = exited \cup {shells[Asked].pid}
    /\ UNCHANGED <<spawned, open, requests, changes, fds, bridge, frame, input,
                   queues, replies>>

\* A close that leaves the descriptor open.
CloseLeaks ==
    /\ control # None
    /\ control' = None
    /\ changes' = TRUE
    /\ requests' = Tail(requests)
    /\ Reply("closed", Asked)
    /\ UNCHANGED <<shells, spawned, exited, open, fds, bridge, frame, input,
                   queues>>

\* CloseShell: the descriptor is closed, the bridge and the host are told.
CloseFinish ==
    /\ control # None
    /\ open' = Closed(control.fd)
    /\ control' = None
    /\ changes' = TRUE
    /\ requests' = Tail(requests)
    /\ Reply("closed", Asked)
    /\ UNCHANGED <<shells, spawned, exited, fds, bridge, frame, input, queues>>

------------------------------------------------------------------------------
(* multi_bridge_loop                                                       *)

\* The snapshot is taken again when control_loop changed the shells.
BridgeDrain ==
    /\ bridge.pc = "drain"
    /\ changes' = FALSE
    /\ fds' = IF changes THEN Snapshot ELSE fds
    /\ bridge' = [bridge EXCEPT !.pc = "poll"]
    /\ UNCHANGED <<shells, spawned, exited, open, requests, control, frame,
                   input, queues, replies>>

\* poll: some open descriptors of the snapshot are readable, and those of the
\* shells that exited have hung up.
BridgePoll ==
    /\ bridge.pc = "poll"
    /\ \E ready \in SUBSET {e \in fds : open[e[2]] # 0} :
          bridge' = [pc |-> "read", ready |-> ready, shell |-> None,
                     closed |-> {e[1] : e \in {d \in fds : open[d[2]] \in exited}}]
    /\ UNCHANGED <<shells, spawned, exited, open, requests, control, changes, fds,
                   frame, input, queues, replies>>

\* read: what the descriptor has goes to the host, under the session of the
\* snapshot.  A descriptor closed since the poll is an error, and its session
\* is to be cleaned up.
BridgeRead(e) ==
    /\ e \in bridge.ready
    /\ bridge' = [bridge EXCEPT !.ready = @ \ {e},
                                !.closed = IF open[e[2]] = 0 THEN @ \cup {e[1]} ELSE @]
    /\ frame' = IF open[e[2]] = 0 THEN frame ELSE [session |-> e[1], pid |-> open[e[2]]]
    /\ UNCHANGED <<shells, spawned, exited, open, requests, control, changes,
                   fds, input, queues, replies>>

Reaping(s) == bridge.ready = {} /\ bridge.shell = None /\ s \in bridge.closed

\* A clean-up that leaves the shell in the map.
BridgeForgets(s) ==
    /\ Reaping(s) /\ shells[s] # None
    /\ bridge' = [bridge EXCEPT !.closed = @ \ {s}]
    /\ UNCHANGED <<shells, spawned, exited, open, requests, control, changes, fds,
                   frame, input, queues, replies>>

\* The clean-up of a session: the shell that it has now leaves the map and is
\* waited for, after a SIGHUP if it lives.
BridgeRemove(s) ==
    /\ Reaping(s) /\ shells[s] # None
    /\ shells' = [shells EXCEPT ![s] = None]
    /\ exited' = exited \cup {shells[s].pid}
    /\ bridge' = [bridge EXCEPT !.closed = @ \ {s}, !.shell = shells[s]]
    /\ UNCHANGED <<spawned, open, requests, control, changes, fds, frame, input,
                   queues, replies>>

\* The descriptor is closed and the snapshot taken again; the host is not told.
BridgeClose ==
    /\ bridge.shell # None
    /\ open' = Closed(bridge.shell.fd)
    /\ fds' = Snapshot
    /\ bridge' = [bridge EXCEPT !.shell = None]
    /\ UNCHANGED <<shells, spawned, exited, requests, control, changes, frame,
                   input, queues, replies>>

\* The session has no shell any more.
BridgeSkip(s) ==
    /\ Reaping(s) /\ shells[s] = None
    /\ fds' = Snapshot
    /\ bridge' = [bridge EXCEPT !.closed = @ \ {s}]
    /\ UNCHANGED <<shells, spawned, exited, open, requests, control, changes, frame,
                   input, queues, replies>>

BridgeNext ==
    /\ bridge = [AtRest EXCEPT !.pc = "read"]
    /\ bridge' = AtRest
    /\ frame' = NoFrame
    /\ UNCHANGED <<shells, spawned, exited, open, requests, control, changes,
                   fds, input, queues, replies>>

BridgeStep ==
    \/ BridgeDrain \/ BridgePoll \/ BridgeClose \/ BridgeNext
    \/ \E e \in bridge.ready : BridgeRead(e)
    \/ \E s \in bridge.closed : BridgeRemove(s) \/ BridgeSkip(s)

------------------------------------------------------------------------------
(* vsock_to_pty_loop, and the shells themselves.                           *)

\* A frame of input arrives; a session without a shell drops it.
InputLookup(s) ==
    /\ input = None /\ shells[s] # None
    /\ input' = shells[s]
    /\ UNCHANGED <<shells, spawned, exited, open, requests, control, changes,
                   fds, bridge, frame, queues, replies>>

\* The data is written to the descriptor that was looked up.
InputWrite ==
    /\ input # None
    /\ input' = None
    /\ UNCHANGED <<shells, spawned, exited, open, requests, control, changes,
                   fds, bridge, frame, queues, replies>>

\* The user leaves a shell, or its process is killed.
ShellExits(s) ==
    /\ shells[s] # None /\ shells[s].pid \notin exited
    /\ exited' = exited \cup {shells[s].pid}
    /\ UNCHANGED <<shells, spawned, open, requests, control, changes, fds,
                   bridge, frame, input, queues, replies>>

------------------------------------------------------------------------------
ControlStep ==
    SpawnRefused \/ SpawnShell \/ SpawnFails \/ CloseUnknown \/ CloseRemove \/ CloseFinish

Next ==
    \/ \E s \in SessionIds : HostSpawn(s) \/ HostClose(s) \/ InputLookup(s) \/ ShellExits(s)
    \/ HostReply
    \/ ControlStep
    \/ BridgeStep
    \/ InputWrite

\* The threads run: control_loop reads its messages, the host handles the
\* answers, and the bridge turns its loop.
Fairness == WF_vars(ControlStep) /\ WF_vars(HostReply) /\ WF_vars(BridgeStep)

Spec == Init /\ [][Next]_vars /\ Fairness

------------------------------------------------------------------------------
(* Properties.                                                             *)

\* The state has its type, and the agent never runs more than MAX_SHELLS shells.
TypeOK ==
    /\ shells \in [SessionIds -> Shell \cup {None}]
    /\ Cardinality(Active) <= MaxShells
    /\ spawned \in Pids
    /\ exited \subseteq Pids
    /\ open \in [Fds -> 0..MaxSpawns]
    /\ control \in Shell \cup {None}
    /\ changes \in BOOLEAN
    /\ fds \subseteq SessionIds \X Fds
    /\ frame \in [session : SessionIds, pid : Pids] \cup {NoFrame}
    /\ bridge \in [pc : {"drain", "poll", "read"}, ready : SUBSET (SessionIds \X Fds),
                   closed : SUBSET SessionIds, shell : Shell \cup {None}]
    /\ input \in Shell \cup {None}
    /\ queues \subseteq SessionIds

\* Two threads close shells, and each descriptor is closed once, by the thread
\* that took its shell out of the map: a shell in the map, or in the hands of
\* control_loop or of the bridge, has its own descriptor open, and none is leaked.
DescriptorsOwned ==
    \A f \in Fds, p \in Pids :
        open[f] = p <=>
            \/ \E s \in SessionIds : shells[s] = [pid |-> p, fd |-> f]
            \/ [pid |-> p, fd |-> f] \in {control, bridge.shell}

\* A shell that exits by itself does not stay: the bridge takes it out of the map.
ExitedShellsReaped ==
    \A s \in SessionIds, p \in Pids :
        (shells[s].pid = p /\ p \in exited) ~> shells[s].pid # p

\* main.rs (agent): "Route to the correct shell's master PTY."  Input is written to
\* the shell it was meant for, and what the bridge forwards under a session was
\* printed by a shell of that session.
RoutedToItsShell ==
    /\ [][input # None /\ input' = None => open[input.fd] \in {0, input.pid}]_vars
    /\ [](\A s \in Active : shells[s].pid = frame.pid => s = frame.session)
==============================================================================
