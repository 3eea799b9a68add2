---------------------------- MODULE BootHandshake ----------------------------
(***************************************************************************)
(* The attachment of the host to a booted guest: the task setup_vsock, the *)
(* host's state machine (host_state.rs), the main function of the guest    *)
(* agent, and the two directions of the control connection between them.   *)
(* The guest's watchers (network proxy, file, port and system watch, MCP)  *)
(* connect at any time.  The machine may be stopped, or the agent die, at  *)
(* any moment.                                                             *)
(***************************************************************************)
EXTENDS Naturals, Sequences, FiniteSets

CONSTANTS
    Watchers,       \* the guest's other connections
    Configs,        \* the boot configurations a venv may have
    MaxBootEnvVars, MaxBootFiles, MaxBootFileBytes,  \* the caps of clawcage-proto
    MaxFrame,       \* MAX_FRAME_SIZE, in units of file content
    MaxMessages     \* bound: messages each side sends after the boot

ASSUME HandshakeAssumption ==
    /\ \A c \in Configs : /\ c.env \in Nat /\ c.files \in Seq(Nat)
                          /\ c.setup \in BOOLEAN
    /\ {MaxBootEnvVars, MaxBootFiles, MaxBootFileBytes, MaxFrame, MaxMessages} \subseteq Nat

\* The caps have room for a setup script and its environment file.
ASSUME CapsAssumption == 2 <= MaxBootFiles /\ 2 <= MaxBootFileBytes /\ 1 <= MaxFrame

VARIABLES
    config,     \* what the settings ask for: env vars, file sizes, a setup script
    hostState,  \* VmInstance::state_machine
    instance,   \* the session has a VmInstance
    hasFds,     \* VmInstance::vsock_terminal_fd and vsock_control_fd are set
    host,       \* where setup_vsock is
    outbox,     \* boot messages send_boot_config_for_venv has still to write
    incoming,   \* connections the listener delegate has handed over
    conns,      \* the terminal and control connections accepted so far
    watcher,    \* what became of each watcher's connection
    guest,      \* where the agent is
    applied,    \* what the agent did: env vars, files, bytes, failed writes, files skipped
    link,       \* the connections work
    toGuest,    \* control messages from host to guest
    toHost,     \* control messages from guest to host
    sent,       \* messages each side sent after the boot
    verdicts    \* validate_guest_msg and validate_host_msg, message by message

hostVars == <<hostState, instance, hasFds, host, outbox, conns>>
guestVars == <<guest, applied>>
vars == <<config, hostState, instance, hasFds, host, outbox, incoming, conns, watcher,
          guest, applied, link, toGuest, toHost, sent, verdicts>>

HostStates == {"Created", "Booting", "VsockConnected", "Handshaking", "Running",
               "ShuttingDown", "Stopped", "Error"}
Ports == {"terminal", "control"}
FileWrite(size) == [t |-> "filewrite", size |-> size]
Msg(t) == [t |-> t, size |-> 0]

------------------------------------------------------------------------------
(* host_state.rs                                                           *)

\* A table that forgets the end of the handshake.
TransitionsWithoutRunning(s) ==
    CASE s = "Booting" -> {"VsockConnected"}
      [] s = "VsockConnected" -> {"Handshaking"}
      [] OTHER -> {"Error", "Stopped"}

ValidTransitions(s) ==
    CASE s = "Created"        -> {"Booting", "Error"}
      [] s = "Booting"        -> {"VsockConnected", "Error", "Stopped"}
      [] s = "VsockConnected" -> {"Handshaking", "Error", "Stopped"}
      [] s = "Handshaking"    -> {"Running", "Error", "Stopped"}
      [] s = "Running"        -> {"ShuttingDown", "Error", "Stopped"}
      [] s = "ShuttingDown"   -> {"Stopped", "Error"}
      [] s = "Stopped"        -> {}
      [] s = "Error"          -> {"Stopped"}

\* transition: an invalid one is only logged.  No instance, no state machine.
Transition(to) ==
    hostState' = IF instance /\ to \in ValidTransitions(hostState) THEN to ELSE hostState

ValidHostMsg(t, s) ==
    CASE t \in {"bootconfig", "setenv", "bootconfigdone"} -> s = "Handshaking"
      [] t = "filewrite" -> s \in {"Handshaking", "Running"}
      [] OTHER           -> s = "Running"

ValidGuestMsg(t, s) ==
    CASE t = "ready"     -> s = "VsockConnected"
      [] t = "bootready" -> s = "Handshaking"
      [] OTHER           -> s = "Running"

------------------------------------------------------------------------------
(* send_boot_config_for_venv                                               *)

Least(a, b) == IF a < b THEN a ELSE b

\* The total size alone is limited.
HostFilesUncounted(files) == SelectSeq(files, LAMBDA f : f <= MaxBootFileBytes)

\* One more file, if it fits.
Keeps(k, size) ==
    IF Len(k.sizes) < MaxBootFiles /\ k.bytes + size <= MaxBootFileBytes
    THEN [sizes |-> Append(k.sizes, size), bytes |-> k.bytes + size] ELSE k

\* What the host has taken of the first i files.
Kept(files) ==
    LET kept[i \in 0..Len(files)] == IF i = 0 THEN [sizes |-> << >>, bytes |-> 0] ELSE Keeps(kept[i - 1], files[i])
    IN kept

\* The files the host sends: no more than the caps, counted in order; a file
\* that does not fit is skipped.
HostFiles(files) == Kept(files)[Len(files)].sizes

\* The final message is forgotten.
BootMessagesOpen(c) ==
    LET files == HostFiles(c.files)
    IN <<Msg("bootconfig")>> \o [i \in 1..Least(c.env, MaxBootEnvVars) |-> Msg("setenv")]
       \o [i \in 1..Len(files) |-> FileWrite(files[i])]
       \o (IF c.setup THEN <<FileWrite(1), FileWrite(1)>> ELSE << >>)

\* The whole boot configuration.  The setup script and its environment file
\* come after the files and are not counted against the caps.
BootMessages(c) ==
    LET files == HostFiles(c.files)
    IN <<Msg("bootconfig")>> \o [i \in 1..Least(c.env, MaxBootEnvVars) |-> Msg("setenv")]
       \o [i \in 1..Len(files) |-> FileWrite(files[i])]
       \o (IF c.setup THEN <<FileWrite(1), FileWrite(1)>> ELSE << >>)
       \o <<Msg("bootconfigdone")>>

------------------------------------------------------------------------------
\* A machine has been started; its agent comes up, or never does.
InitWith(up) ==
    /\ config \in Configs
    /\ hostState = "Booting"
    /\ instance = TRUE
    /\ hasFds = FALSE
    /\ host = "accept"
    /\ outbox = << >>
    /\ incoming = << >>
    /\ conns = {}
    /\ watcher = [w \in Watchers |-> "off"]
    /\ guest = "terminal"
    /\ applied = [env |-> 0, files |-> 0, bytes |-> 0, failed |-> 0, skipped |-> 0]
    /\ link = up
    /\ toGuest = << >>
    /\ toHost = << >>
    /\ sent = [host |-> 0, guest |-> 0]
    /\ verdicts = {}

Init == InitWith(TRUE)

(* The host: setup_vsock.                                                  *)

\* accept: the watchers are put off until the handshake is over.
AcceptConnection ==
    /\ host = "accept" /\ conns # Ports /\ incoming # << >>
    /\ incoming' = Tail(incoming)
    /\ IF Head(incoming) \in Ports
       THEN conns' = conns \cup {Head(incoming)} /\ UNCHANGED watcher
       ELSE watcher' = [watcher EXCEPT ![Head(incoming)] = "deferred"] /\ UNCHANGED conns
    /\ UNCHANGED <<config, hostState, instance, hasFds, host, outbox, guestVars, link,
                   toGuest, toHost, sent, verdicts>>

\* Both connections are there.  The control descriptor may not be clonable:
\* the task then returns.
VsockConnected ==
    /\ host = "accept" /\ conns = Ports
    /\ Transition("VsockConnected")
    /\ host' \in {"ready", "returned"}
    /\ UNCHANGED <<config, instance, hasFds, outbox, incoming, conns, watcher,
                   guestVars, link, toGuest, toHost, sent, verdicts>>

\* The state machine's verdict on a message, where there is an instance.
Judge(valid) == verdicts' = IF instance THEN verdicts \cup {valid} ELSE verdicts

\* The next control message, if there is one.
Receive(t) == toHost # << >> /\ Head(toHost) = t /\ toHost' = Tail(toHost)

\* read_control_msg fails.
ReadFails == ~link /\ UNCHANGED toHost

\* A message other than Ready is warned about, and the handshake goes on.
AwaitReady ==
    /\ host = "ready"
    /\ \/ /\ Receive("ready")
          /\ Transition("Handshaking")
          /\ Judge(ValidGuestMsg("ready", hostState))
       \/ ReadFails /\ UNCHANGED <<hostState, verdicts>>
    /\ host' = "config"
    /\ outbox' = BootMessages(config)
    /\ UNCHANGED <<config, instance, hasFds, incoming, conns, watcher,
                   guestVars, link, toGuest, sent>>

\* One message of the boot configuration; a failed write gives up the rest.
SendBootMessage ==
    /\ host = "config"
    /\ IF link
       THEN /\ toGuest' = Append(toGuest, Head(outbox))
            /\ outbox' = Tail(outbox)
            /\ Judge(ValidHostMsg(Head(outbox).t, hostState))
       ELSE outbox' = << >> /\ UNCHANGED <<toGuest, verdicts>>
    /\ host' = IF outbox' = << >> THEN "bootready" ELSE "config"
    /\ UNCHANGED <<config, hostState, instance, hasFds, incoming, conns, watcher,
                   guestVars, link, toHost, sent>>

\* The wait for BootReady.  The read blocks, so the deadline of five seconds is
\* looked at only after a message; the agent sends no other message before
\* this one.
AwaitBootReady ==
    /\ host = "bootready"
    /\ \/ /\ Receive("bootready")
          /\ Judge(ValidGuestMsg("bootready", hostState))
          /\ host' = "running"
       \/ ReadFails /\ UNCHANGED verdicts /\ host' = "anyway"
    /\ UNCHANGED <<config, hostState, instance, hasFds, outbox, incoming, conns, watcher,
                   guestVars, link, toGuest, sent>>

\* The descriptors are stored, the state is Running, and the
\* connections put off are served.  Without an instance they are dropped.
EnterRunning ==
    /\ host \in {"running", "anyway"}
    /\ Transition("Running")
    /\ hasFds' = instance
    /\ host' = "serving"
    /\ watcher' = [w \in Watchers |->
                      IF watcher[w] # "deferred" THEN watcher[w]
                      ELSE IF instance THEN "served" ELSE "dropped"]
    /\ UNCHANGED <<config, instance, outbox, incoming, conns, guestVars, link, toGuest,
                   toHost, sent, verdicts>>

\* The accept loop after the handshake.  A second control or terminal
\* connection is ignored.
ServeConnection ==
    /\ host = "serving" /\ incoming # << >>
    /\ incoming' = Tail(incoming)
    /\ watcher' = [w \in Watchers |->
                      IF w # Head(incoming) THEN watcher[w]
                      ELSE IF hasFds THEN "served" ELSE "dropped"]
    /\ UNCHANGED <<config, hostVars, guestVars, link, toGuest, toHost, sent, verdicts>>

\* vsock_control_handler: a message the state machine does not allow is dropped.
HandleGuestMessage ==
    /\ host = "serving"
    /\ Receive("event")
    /\ Judge(ValidGuestMsg("event", hostState))
    /\ UNCHANGED <<config, hostVars, guestVars, incoming, watcher, link, toGuest, sent>>

\* The other commands: those that find the descriptors and pass
\* validate_host_msg write to the guest.
HostCommand ==
    /\ instance /\ hasFds /\ link
    /\ ValidHostMsg("resize", hostState)
    /\ sent.host < MaxMessages
    /\ sent' = [sent EXCEPT !.host = @ + 1]
    /\ toGuest' = Append(toGuest, Msg("resize"))
    /\ UNCHANGED <<config, hostVars, guestVars, incoming, watcher, link, toHost, verdicts>>

\* stop_vm takes the instance out of the map.
StopVm ==
    /\ instance
    /\ instance' = FALSE
    /\ hasFds' = FALSE
    /\ UNCHANGED <<config, hostState, host, outbox, conns, guestVars, incoming, watcher,
                   link, toGuest, toHost, sent, verdicts>>

\* The machine halts, or the agent exits: the connections break.
GuestGone ==
    /\ link
    /\ link' = FALSE
    /\ guest' = "dead"
    /\ UNCHANGED <<config, hostVars, applied, incoming, watcher, toGuest, toHost, sent, verdicts>>

------------------------------------------------------------------------------
(* The guest agent.                                                        *)

Connect(port, then) ==
    /\ guest = port /\ link
    /\ incoming' = Append(incoming, port)
    /\ guest' = then
    /\ UNCHANGED <<config, hostVars, applied, watcher, link, toGuest, toHost, sent, verdicts>>

WatcherConnect(w) ==
    /\ link /\ watcher[w] = "off"
    /\ incoming' = Append(incoming, w)
    /\ watcher' = [watcher EXCEPT ![w] = "connected"]
    /\ UNCHANGED <<config, hostVars, guestVars, link, toGuest, toHost, sent, verdicts>>

SendToHost(t, then) ==
    /\ link
    /\ toHost' = Append(toHost, t)
    /\ guest' = then
    /\ UNCHANGED <<config, hostVars, applied, incoming, watcher, link, toGuest, verdicts>>

SendReady == guest = "ready" /\ SendToHost("ready", "bootconfig") /\ UNCHANGED sent

\* The first message is expected to be BootConfig; anything else is used up too.
RecvBootConfig ==
    /\ guest = "bootconfig" /\ toGuest # << >>
    /\ toGuest' = Tail(toGuest)
    /\ guest' = "config"
    /\ UNCHANGED <<config, hostVars, applied, incoming, watcher, link, toHost, sent, verdicts>>

\* A file is taken over when the agent's own count allows it, and the guest's
\* file system.
TakeFile(size) ==
    IF \/ applied.files >= MaxBootFiles
       \/ applied.bytes + size > MaxBootFileBytes
    THEN applied' = [applied EXCEPT !.skipped = @ + 1]
    ELSE applied' \in {[applied EXCEPT !.files = @ + 1, !.bytes = @ + size],
                       [applied EXCEPT !.failed = @ + 1]}

\* One message of the boot loop.  A frame that is too large ends the loop, and
\* its payload is left in the connection, where nothing can be read any more.
RecvBootMessage ==
    /\ guest = "config" /\ toGuest # << >>
    /\ LET msg == Head(toGuest)
       IN IF msg.size > MaxFrame
          THEN /\ toGuest' = << >>
               /\ guest' = "spawnDeaf"
               /\ UNCHANGED applied
          ELSE /\ toGuest' = Tail(toGuest)
               /\ guest' = IF msg.t = "bootconfigdone" THEN "spawn" ELSE "config"
               /\ CASE msg.t = "setenv" -> applied' = IF applied.env >= MaxBootEnvVars THEN applied
                                                     ELSE [applied EXCEPT !.env = @ + 1]
                    [] msg.t = "filewrite" -> TakeFile(msg.size)
                    [] OTHER -> UNCHANGED applied
    /\ UNCHANGED <<config, hostVars, incoming, watcher, link, toHost, sent, verdicts>>

\* The default shell is there: BootReady, and the control loop starts.
SendBootReady == guest = "spawn" /\ SendToHost("bootready", "bridge") /\ UNCHANGED sent

\* The same after a broken frame: the control loop ends with its first read.
SendBootReadyDeaf == guest = "spawnDeaf" /\ SendToHost("bootready", "deaf") /\ UNCHANGED sent

\* control_loop: a message of the host is handled.
RecvCommand ==
    /\ guest = "bridge" /\ toGuest # << >>
    /\ toGuest' = Tail(toGuest)
    /\ UNCHANGED <<config, hostVars, guestVars, incoming, watcher, link, toHost, sent, verdicts>>

\* An answer or a notification of the agent.
GuestEvent ==
    /\ guest = "bridge"
    /\ sent.guest < MaxMessages
    /\ sent' = [sent EXCEPT !.guest = @ + 1]
    /\ SendToHost("event", guest)

HostStep ==
    \/ AcceptConnection \/ VsockConnected \/ AwaitReady \/ SendBootMessage \/ AwaitBootReady
    \/ EnterRunning \/ ServeConnection \/ HandleGuestMessage

GuestStep ==
    \/ Connect("terminal", "control") \/ Connect("control", "ready")
    \/ SendReady \/ RecvBootConfig \/ RecvBootMessage \/ SendBootReady \/ SendBootReadyDeaf
    \/ RecvCommand

Next ==
    \/ HostStep \/ HostCommand \/ StopVm
    \/ GuestStep \/ GuestGone \/ GuestEvent
    \/ \E w \in Watchers : WatcherConnect(w)

\* The host's task and threads go on whenever they can.
HostFairness == WF_vars(HostStep)
Spec == Init /\ [][Next]_vars /\ HostFairness

\* A guest that does not hang: the agent goes on whenever it can.
FairSpec == Spec /\ WF_vars(GuestStep)

------------------------------------------------------------------------------
(* Properties.                                                             *)

\* The state has its type, and the agent keeps within the caps of clawcage-proto
\* whatever the host sends ("Defense-in-depth: validate everything independently
\* of the host").
TypeOK ==
    /\ applied.env <= MaxBootEnvVars
    /\ applied.files <= MaxBootFiles /\ applied.bytes <= MaxBootFileBytes
    /\ config \in Configs
    /\ hostState \in HostStates /\ instance \in BOOLEAN /\ hasFds \in BOOLEAN
    /\ host \in {"accept", "ready", "config", "bootready", "running", "anyway",
               "serving", "returned"}
    /\ conns \subseteq Ports
    /\ watcher \in [Watchers -> {"off", "connected", "deferred", "served", "dropped"}]
    /\ guest \in {"terminal", "control", "ready", "bootconfig", "config", "spawn",
                  "spawnDeaf", "bridge", "deaf", "dead"}
    /\ link \in BOOLEAN
    /\ verdicts \subseteq BOOLEAN

\* The host and the agent agree on the protocol.  No message of the agent is
\* refused by validate_guest_msg when the host reads it, and every message the
\* host sends during the boot is one validate_host_msg would allow, although
\* setup_vsock and send_boot_config_for_venv never ask.  And the agent is in its
\* control loop before anything but boot configuration is sent to it: what the
\* boot loop would only log as unexpected cannot arrive.
MessagesExpected ==
    /\ FALSE \notin verdicts
    /\ (\E i \in DOMAIN toGuest : toGuest[i].t = "resize") => guest \in {"bridge", "deaf", "dead"}

\* Configurations that both ends take: boot files that fit a frame, and a setup
\* script only without boot files, as neither end counts it the way the other does.
Deliverable == /\ config.setup => config.files = << >>
               /\ \A i \in DOMAIN config.files : config.files[i] <= MaxFrame

\* When the host declares the guest Running and the agent answers, the agent has
\* taken over the whole boot configuration: the host's caps and the agent's own,
\* each counted on its side, never disagree, and no file is lost on the way.
ConfigApplied ==
    (hostState = "Running" /\ guest \in {"bridge", "deaf"} /\ Deliverable) =>
        /\ applied.env = Least(config.env, MaxBootEnvVars)
        /\ applied.skipped = 0
        /\ \A i \in DOMAIN toGuest : toGuest[i].t = "resize"

\* A watcher's connection that came before the handshake was over is served
\* once it is, unless the machine was stopped.
WatchersServed ==
    \A w \in Watchers :
        watcher[w] \in {"connected", "deferred"} ~>
            (watcher[w] = "served" \/ ~link \/ ~instance \/ host = "returned")

\* The handshake never leaves both sides waiting for each other: the guest
\* becomes Running unless it breaks, the machine is stopped, or the host
\* could not clone the control descriptor.
BootCompletes ==
    hostState = "Booting" ~>
        (hostState = "Running" \/ ~link \/ ~instance \/ host = "returned")
==============================================================================
