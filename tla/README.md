# TLA+ specifications of clawcage

clawcage runs AI agents in Linux virtual machines on macOS: a Tauri desktop
application and a command line (`clawcage-app`), a library (`clawcage-core`), a
telemetry store (`clawcage-logger`), a protocol crate (`clawcage-proto`) and the
programs inside the guest (`clawcage-agent`). This directory specifies the parts
of it whose correctness depends on the order in which things happen, checks the
specifications with TLC on small instances, and proves the central invariants
with TLAPS. Paths below are relative to `src/crates/`.

## 1. The system

| component | state | operations | talks to |
|---|---|---|---|
| VM lifecycle (`clawcage-app/src/main.rs`, `venvs.rs`, `state.rs`) | `running_venvs`, `vms`, `terminal_outputs`, venvs.json, scratch images | `start_venv`, `stop_venv`, `delete_venv`, tray menu, `boot_venv`, `stop_vm`, rootfs download, exit | main thread through `run_on_main_thread`, background tasks, session index |
| terminal output (`state.rs`) | deque, closed flag, `Notify` per shell session | `push`, `poll`, `close`, `reset` | guest terminal connection on one side, frontend on the other |
| terminal input (`state.rs`, `commands.rs`) | a channel, the descriptor the input thread keeps | `serial_input`, coalescing, writing | frontend, guest terminal connections |
| boot handshake (`main.rs` `setup_vsock`, `core/vm`, `core/host_state.rs`, agent `main.rs`) | host state machine, connections, boot configuration | accept, `Ready`, `BootConfig`..`BootConfigDone`, `BootReady` | guest over vsock |
| agent shells (agent `main.rs`) | `ShellManager`, descriptors, poll snapshot | `SpawnShell`, `CloseShell`, bridge loop, input loop | host over the control and terminal connections |
| file transfer (`commands.rs`, agent `main.rs`) | `pending_downloads`, `partial_downloads` | `download_file`, `read_file`, `list_dir`, `save_file`, chunks | control connection |
| session index (`core/session.rs`, `main.rs`) | main.db, session directories | create, recover, backfill, flush, vacuum, terminate, purge | other processes through the file system |
| telemetry (`clawcage-logger`) | session.db, a bounded channel | batch writer, reader | proxy, MCP gateway |
| ports (`agent/port_watch.rs`, `commands.rs`) | detected ports, forwarded ports, tasks, relay pool | watch, `forward_port`, `stop_forward` | guest, local TCP clients |
| remote mode, cloud (`remote_mode.rs`, `cloud.rs`) | connection mode file, server sessions | detach, reattach, sync | cloud API, ssh |
| venv registry, snapshots | venvs.json, directories | create, rename, snapshot, restore | lifecycle |
| settings, policies (`core/net/policy*.rs`) | three settings files, shared policies | merge, hot reload, evaluate | proxy, MCP gateway |
| MITM proxy, LLM gateway (`core/net/mitm_proxy.rs`, `core/gateway`) | one state per connection | policy, forwarding, SSE parsing, telemetry | network, writer |
| MCP gateway (`core/mcp`) | catalog, server processes | sessions, tool calls | guest, server processes |
| VPN (`core/net/vpn`) | status, tunnel | connect, disconnect | proxy |
| assets (`core/asset_manager.rs`) | assets directory | check, download, clean up | lifecycle |
| guest watchers (`agent/fs_watch.rs`, ...) | debounce table | watch | host over vsock |

What is hard here: commands are async tasks with an await between their steps,
and what they read before it may be stale after it; `stop_vm` and `boot_venv`
are closures queued on the main thread, but a boot after a download runs beside
it; three agent threads share descriptors whose numbers the kernel reuses;
several processes share main.db and may die at any instruction; and both ends
of a connection keep limits that nobody compares. `PROJECT.json` lists the
hazards, each at its line, with the properties that are about it.

## 2. The modules

Every module names its constants, bounds included, and its variables after the
fields of the code. `map` in `PROJECT.json` gives the lines of every definition.
The MC modules and the `.cfg` files are the instances for TLC. Components that
share no variable are checked in one run: the MC module puts their
specifications beside each other, and the variable `part`, which never changes,
picks the one that moves. Fairness is stated for each of them separately.

**VmLifecycle.** `StartVenv`..`StartFinish`, `StopVenv`, `StopFinish`,
`DeleteVenv`, `DeleteRemove` are the steps of the commands between their awaits;
`mainq` is the queue of closures, whose head is run by `BootVenv`,
`BootAlreadyRunning`, `StopVmTake`, `StopVmHalt`, `StopVmNoInstance`. Taking the
instance out and halting it are separate steps, because the run loop turns between
them. `DownloadDone` boots without asking again, as the task does. A machine whose
scratch image cannot be made, or cannot be given its length, boots without one
(`ScratchDisks`), and `ScratchExclusive` is about those that have one. `Crash` and
`Restart` keep what is on disk only.

**TerminalChannel, TerminalQueue.** The first is the promise: a bounded FIFO that
admits every new chunk, at capacity in the place of the oldest, and answers
"closed" only when it is empty. The doc of `push` promises something else (section
4). The second has one step for each atomic operation of `push`, `poll`, `close`
and `reset`, with tokio's `Notify` (external) as one stored permit and a queue of
waiters. `IsChannel` is the refinement, with the map `chan <- queue, shut <-
closed, pending <- polls that are not idle`.

**BootHandshake.** `setup_vsock`, the agent's `main`, and the messages between
them. File contents are sizes in units; both ends count them against their own
caps, as the code does. `GuestGone` breaks the connection at any moment,
`StopVm` removes the instance.

**AgentShells.** The three threads of the agent over `ShellManager` and a
descriptor table in which a new shell gets the lowest free number. The bridge
works on its snapshot: `BridgeDrain`, `BridgePoll`, `BridgeRead`,
`BridgeRemove`, `BridgeClose`. Removing a shell and closing its descriptor are
two steps, as the lock is released between them.

**SessionIndex.** Any number of processes over one main.db and one directory per
session. The start-up of a process is the sequence of `Cleanup`; the vacuum of a
session is five steps (open, compress, remove, mark) and `Crash` may come
between any two. A telemetry database is the number of events it holds.

**FileTransfer.** The commands, the agent's loop, the host's reader thread. A
message is a size and a kind; its frame is computed from its content (a byte
from 128 on takes two bytes in the encoding). `FileChanges` lets a file shrink
or grow while it is sent.

**TerminalInput.** What the user types: `SerialInput` looks up a descriptor,
the input thread receives, coalesces and writes (`ThreadReceives`, `Coalesce`,
`BatchReady`, `ThreadWrites`) to the duplicate it keeps per number. Machines
boot, attach their terminal and stop; a new one gets the lowest free numbers.

**Ports.** The guest's watcher and its reports over one connection, the
commands of two tabs in their steps (`ForwardPort`, `Bind`, `InsertHandle`,
`StopForward`, `Retain`, the browser proxies), accept loops that queue for the
lock of `relay_rx`, and relay workers. `crossed` remembers the ports on which
commands or reports overlapped, which is the condition of `PortsAccounted`.

**Mcp.** Connections of the guest (`ReadLine`, `Handle`, `WithManager`,
`ReadReply`, `LogAndAnswer`) that share the servers behind one lock; servers
answer, write other lines, and die. Names with a prefix are sequences of parts,
pages of the built-in tools are lengths in bytes of which some begin no
character.

**Settings, NetPolicy.** NetPolicy has the matching and the decision functions of
the network and domain policies. Settings resolves over the four sources, builds
the two policies, the guest configuration and the errors of lint from the resolved
settings, and lets commands write the files (a write truncates, then fills),
reload, and swap policies into the machine in focus. A boot loads in two steps,
`BootNet` and `BootDone`, as start_vm does; `BootDone` merges the second load with
the insertion into `vms`, and what a command could do between these is excused by
`raced`. The registry has one setting of each kind and provider that the code
treats differently.

**MitmProxy.** A connection takes a permit (`Admit`), says hello (`Hello`,
`Check`, `Mode`), is denied, tunnelled (`Dial`..`ReportTunnel`) or inspected
(`Handshake`, `Request`, `Upstream`, `Send`, `BodyEnds`), and may be left or cut
by `Timeout` at any of these; `Spawn` is the report that the drop of a body
starts.

**Telemetry.** From a finished exchange to a row: the report task, the trace
state, the bounded channel, the batches of the writer thread and its end, and two
of the queries of `trace_detail`, for model calls and tool calls. The third, for
tool responses, is left out with its rows.

**LlmStream.** A body is a sequence of words that arrives in chunks; line ends,
colons and blanks are words, so a chunk may end between any two. `FeedByte`,
`ProcessLine`, `DispatchEvent` and `Flush` are the SSE parser; `Anthropic`,
`OpenAi` and `Google` turn its events into those that `CollectSummary` puts
together. The reference is `said`, what the message was made to say.

**Vpn.** The configuration parser over lines, `Connect`, `ConnectDone`,
`ConnectTimesOut`, `Disconnect` with the wait between them, the tunnels with their
poll tasks and sockets, and `connect_upstream` with its fallback. The session of a
tunnel is made, renewed and expires (`WgHandshake`, `WgExpires`), the status
staying what it was; `TcpDial` goes direct when tcp_connect fails at once,
`Refused` when the other end
refuses.

**VenvRegistry.** Every command that changes venvs.json as load, edit and save,
where a save truncates before it writes; the tray, whose menu is as old as the
last boot or stop; copies of disks, after which a clone goes on without the files
beside the disk. `BootJob`, `StopJob` and `StopDone` run on the main thread;
between the last two the machine is still up although `running_venvs` no longer
has it.

**Cloud.** The user's commands and the daily task, each with the configuration it
loaded; the key in the file and the keychain; snapshots with the key and the
archive they were made of; the calendar of `parse_iso`; and the environment's
machine, which cloud_sync_venv looks for once and which may start before the
archive is made (`StartMachine`, `StopMachine`).

**RemoteMode.** The steps of detach and reattach with the versions of the disk
here and on the servers; every step may fail, and the program may die after it,
also between `Release`, when the server is given back, and `FinishReattach`, when
remote.json says so.

**Assets.** Boots that find, download, verify and rename the root file system.

## 3. Runs

Passing runs:

| run | properties | bounds and why they are enough |
|---|---|---|
| lifecycle_bundled | ScratchExclusive, InstanceReachable | a persistent and an ephemeral venv, a command and the tray, two boots: a second boot of a venv can meet the end of the first. Proved for all bounds. |
| lifecycle_commands | RecordsFollowMachines, CommandsReturn | one venv, two commands, two boots, with download: two commands in flight are what a race needs |
| terminal_queue | TypeOK, NoLostWakeup, IsChannel; InputDelivered | output: two producers, capacity 2, five chunks: overflow, wrap and close at every point; proved for all bounds. Input: two venvs with two sessions, three inputs for batches of two, two boots: a batch is full, a session changes, a number is used again |
| guest_channels | boot: MessagesExpected, ConfigApplied; MCP: AnswersOwn, PagesWhole, CallsRouted; both: WaitsEnd (the boot completes, early watchers and built-in tools are served) | a watcher, and configurations below, at and above the host's caps of two variables, two files, three units, one with a file larger than a frame; two connections, servers whose names and tools hold the separator, pages of three characters of one and two bytes |
| guest_services | shells: DescriptorsOwned; ports: PortsAccounted; both: WaitsEnd (exited shells are reaped, clients of forwarded ports answered) | two sessions for one shell, three spawns: the cap is met and a descriptor's number is used again; one guest port, two host ports, two tabs, one relay for two clients |
| file_whole | DownloadWhole, NothingLeftBehind | two requests, the real sizes of chunk and frame, text and binary files of one byte, of two chunks and beyond a frame, a guest that may die |
| settings_reload | CorpBlockHolds, CurrentPolicy, AppliedOrReported, GatewayWithinProxy | two venvs, two commands in flight, values of every kind that a file can hold: two commands are what a stale reload needs; corp.toml empty, one that allows all domains but a provider's, or one full of values lint objects to |
| network_services | proxy: OnlyAllowedSent, ReportedOnce; telemetry: EveryReportKept, TracesFollow, DetailWhole; VPN: TunnelsKnown; stream: SummaryExact; all: WaitsEnd (connections, the writer thread and connect come to an end) | three connections for two permits, two policies; two connections with a turn that answers a tool call, a channel and batches of two; two callers and two dialers; one message for each interface with thoughts, text and two interleaved calls, three kinds of line ends, with and without a last empty line, and bodies that are one document, too long for the preview or too large |
| store_services | sessions: TelemetryKept, StartupRecovers; registry: RegistryExact, DisksSound; cloud: SnapshotsRestorable, ChoicesStick, DailySync; remote: WorkKept; assets: BootsVerified | two sessions with two events between them, of which the first may be flushed and the second lost with the process, a desktop and a command line in turn, three days (`MaxDay` = 2), no retention and a purge after one day: culling and purging happen too; three venvs, two commands at a time and the tray; a user beside the daily task from a leap day to 1 March, which the task's calendar counts short (the ends of months and years are proved); two venvs on two servers with four trips, so that a server given back is given to the other venv; two boots |

Most components state a type invariant besides (`TypeOK`, or a name of its own
where an MC module composes it with others). They are the first conjunct a
proof needs; the runs spend their properties on the others, except for the bound
of the terminal queue. Liveness of components that are checked together is one
property, `WaitsEnd` of the MC module, a conjunction of theirs.

`CHECK_DEADLOCK FALSE` is set where the system may come to rest: the machine is
stopped, the commands of the instance are used up, or the bounds are reached.

Runs that TLC refutes. Each states what a comment or the settings' own
description says, and the finding of the same run in `PROJECT.json` quotes it:

| run | property | what happens |
|---|---|---|
| lifecycle_orphan | InstanceReachable | stop during the download; the download then boots a machine no stop finds |
| shells_input | RoutedToItsShell | input goes to the shell that got the number of a closed descriptor |
| vpn_bypass | KillSwitch | a connection the tunnel refuses is made directly, although the kill switch is on |

Some properties hold only under a condition. Some conditions are constants that
the run fixes; others are remembered by a history variable, and the property is
stated for the behaviours without it:

| property | condition | without it |
|---|---|---|
| InstanceReachable | RootfsBundled | the run lifecycle_orphan |
| NoLostWakeup | one poll at a time (`Pollers`) | `close` notifies one of two polls and the other sleeps on a closed queue |
| IsChannel | boot and stop on one thread (`~OffMainThread`) | a boot reopens a queue that `stop_vm` closed before the woken poll has looked |
| InputDelivered (routing) | the machine typed for has not stopped | a message still in the channel goes to the machine that got the descriptor's number |
| InputDelivered (loss) | no machine has stopped | the thread keeps writing to the duplicate of the old descriptor while the number stays the same |
| ConfigApplied | the configuration is `Deliverable` | a setup script above the agent's caps but not the host's is dropped; a file larger than a frame deafens the agent |
| TelemetryKept, StartupRecovers | one process at a time (`~Overlap`) | a vacuumed or crashed session becomes stopped |
| TelemetryKept (events) | none committed while the session is archived (`late`) | they are in no file |
| TelemetryKept (figures) | none came after the figures were taken, and the process did not die between two flushes (`behind`) | the backfill counts only sessions without figures (`main.rs:214`), so the totals stay short |
| GatewayWithinProxy | no file written between the two loads (`mixed`), and no allow_all_domains, which only the gateway obeys | the gateway fetches what the proxy refuses |
| AppliedOrReported | the cases of `Silent`: a value of the wrong type or without text, one too long, a NUL byte, a refused name, a variable that a dynamic setting takes over | neither given to the guest nor reported |
| OnlyAllowedSent (rate) | the connection reaches the limiter | a hello in two pieces is tunnelled past it (`mitm_proxy.rs:49`: "Per-domain requests per second") |
| PortsAccounted | no overlap on the port (`crossed`) and no failed accept | two forwards of one port to different host ports are both shown and stop_forward ends one; PortClosed or a stop between the push of the entry and the insertion of the task leaves the loop |
| AnswersOwn | servers write answers and notifications only (`~noisy`) | any line with an id is taken for the answer |
| CurrentPolicy | no overlapping commands, and for the active venv | the older of two reloads may be swapped in last; a change for another venv loads that venv's policy into the machine in focus |
| TunnelsKnown (status) | no overlapping calls | a disconnect, or a second connect, during the wait leaves "connected" without a tunnel |
| RegistryExact | no command reads while another is about to write (`raced`) | the later save undoes the earlier one |
| DisksSound | no two commands, the tray's included, on one venv, and no copy of a disk whose machine is still ending (`clash`) | a machine without its disk, a deleted venv that runs, an archive of a disk in use |
| SnapshotsRestorable | the keychain took the key and one task at a time made one (`lost`, `twice`); one task at a time archives, and the machine is not up then (`shared`) | two keys; an archive of another task's temporary file, or of a disk in use |
| ChoicesStick | no task saved what it loaded before the choice | signing out, or switching off the daily task, is undone |
| DailySync | no task saved what it loaded before; 24 hours if the time noted is not after February of a leap year | the program's calendar counts such a day short and the task begins at its next check |
| WorkKept | the disk is not `spoiled`: worked on in both places, on a session destroyed or not stopped, behind a remote.json that was cut off, or on a server given to another detach while remote.json names it | work is lost, in the last case under another venv's disk |
| BootsVerified | one download at a time (`~together`) | a download truncates the file another one has verified |

## 4. Where code and comments differ

Met while modelling; the models do what the code does.

*Lifecycle, terminal, boot.* A stop without an instance leaves its session
recorded as running. `delete_venv` removes the directory without waiting for the
halt. A boot that fails is still marked running. `state.rs:171` says that `push`
drops the chunk when the queue is full or closed: at capacity it drops the oldest
and takes the new one, and a chunk may enter a queue after it was closed. The
input thread drops the message that ends its coalescing, and writes frames to the
serial console before the terminal is attached. The host reaches Running without
BootReady when the connection breaks first; and the deadline for BootReady
(`main.rs:947`) is not looked at while the read blocks, although `main.rs:964`
says "proceeding anyway". `VsockManager` keeps a sender of its own channel, so
`accept` never returns None.

*Shells, files, sessions.* The host does not hear that a shell exited by itself.
The bridge, reaping a shell that was closed, may kill the session's new one. At
the cap, SpawnShell for a session that has a shell answers ShellClosed. A crash
between removing a database and marking its row is not repaired by a later vacuum;
the backfill skips a crashed session that was flushed once, whose totals stay
short; a second process marks the sessions of a running one crashed and deletes
their files (`main.rs:200`). A refused command leaves its entry in
`pending_downloads`; chunks of binary files grow past the frame limit when they
are encoded (`clawcage-proto/src/lib.rs:21`), which ends the reader, and saving a
file of 300 KB ends the agent's loop; a time-out leaves, or a late chunk makes, a
partial file that stays until its last chunk comes.

*Ports.* The watcher connects once, and a frame that is too large ends its
handler; PortClosed does not stop browser proxies; an accept error leaves the
entry without a loop.

*Settings and policies.* The network policy ignores allow_all_domains, and its
blocks do not come before its allow rules as the comments at
`policy_config.rs:773` and `:1220` say; allow_all_domains replaces a block of
corp.toml in the domain policy; a file cut off reads as empty; relative paths pass
`validate_file_path` and are errors of lint; a file with a NUL byte in its path is
neither written for the guest nor reported, and one in a content that is also to
be a variable drops the variable alone; a variable whose name is refused
(`policy_config.rs:925`, `:979`), whose text is too long or whose value has
another type is dropped without a word; a negative number becomes a large u32.
custom_block comes last among the proxy's rules and the first match decides, so a
domain that a provider or custom_allow lets through stays open to the guest,
although `defaults.toml:474` says of the block list "Takes priority over custom
allow list"; the gateway does give it priority, which is why `GatewayWithinProxy`
has no converse.

*Proxy, telemetry, gateway.* The "idle" timeout covers the whole life of a
connection, and a tunnel it cuts leaves no event; a denied tunnel is reported
twice, a connection over the cap not at all; a trace may be looked up before the
turn it continues is registered; a hello that comes in two pieces is tunnelled
without the rate limit. The Responses interface always ends with end_turn, also
after tool calls; a body longer than the preview loses the figures it does not
stream; a body that is dropped at its known length is not flushed, so a last event
without an empty line is lost.

*VPN.* Replaced tunnels' poll tasks are detached; a connect that times out tears
down the tunnel of the next one; a cancelled dial keeps its socket, as does one
that fails at once, and no socket ever leaves the set; the status stays connected
when the session expires; two [Peer] sections are merged.

*MCP.* `server_manager.rs:42` says "Read response lines until we get one with a
matching id", the code takes any id; the answer carries the manager's id instead
of the guest's; notifications other than the known ones are answered, although
`gateway.rs:133` says they are not; pages and log previews cut inside a
character end the connection; no server call has a time-out; a page of length
zero never advances; the application passes no server definitions.

*Registry, cloud, remote, assets.* Ids are milliseconds. A clone ignores the
errors of copying the files beside the disk (`snapshots.rs:317`). `stop_vm` clears
`running_venvs` 1.5 s before the machine has ended, so `ensure_stopped` lets a
copy of its disk pass; deleting does not rebuild the tray's menu, whose start can
boot a deleted environment. cloud_sync_venv asks `running_venvs` once, before its
awaits. From 1 March of a leap year the calendar of `cloud.rs:954` is a day short
and the daily task runs at once; a clock set back underflows. detach does not look
whether the venv runs, nor start whether it is away; a conflict destroys all
sessions of the account; a crash while detaching strands the venv; reattach gives
the server back (`remote_mode.rs:493`) before remote.json is local (`:500`), so
after a crash between them the retry may copy down the disk of the venv that got
the server; a torn remote.json reads as local; two first detaches may both make
the SSH key. `resolve_rootfs` never verifies the hash; `asset_manager.rs:251` says
"Skip temp files" where they are removed.

## 5. Fairness

Weak fairness only, and only of code that runs once it can: the main thread and
command tasks (VmLifecycle), a push, a poll or a close under way
(TerminalQueue), the host's task and, in one run that says so, the guest
(BootHandshake), the agent's threads (AgentShells), agent and reader
(FileTransfer), accept loops with their ten-second wait (Ports), a connection of
the MCP gateway but not its servers (Mcp), the timeout of a connection and the
report that follows (MitmProxy), report tasks and the writer thread (Telemetry),
the timeouts of connect and dial (Vpn). Nothing says that a user acts, output is
produced, a download ends, a server answers, a shell exits or a machine is
stopped. The other modules state no liveness.

## 6. Proofs

The theorems hold for every value of the constants, under the assumptions the
modules name (`...Assumption`), which TLC evaluates in every run. Each proof
module gives the inductive invariant as a conjunction of named parts, one lemma
per action or group of actions, and a temporal step at the end. Conditions of
section 3 that are constants are hypotheses of the theorem; those kept in history
variables are part of the property.

**VmLifecycle_proof.** With `RootfsBundled`: `TypeCorrect`, `ScratchNeverShared`,
`NoOrphanMachine`. `InstanceReachable` is not inductive alone. A new boot must
know that a venv without an entry in `running_venvs` has no machine: neither in
`vms` (InstanceReachable) nor on its way out (`StoppingUnmapped`), and that
session numbers are fresh (`SessionsIssued`) and belong to their venv
(`OwnerKept`). Exclusive images follow: two live machines on one image would be
sessions of one venv, which maps to at most one, and to none while its machine is
being halted. Without `RootfsBundled` the theorem is false, which is the run
lifecycle_orphan. `RecordsKept` needs no such condition: `BookInv` says that
sessions in use were issued for the venv that leads to them, and that a venv whose
machine is being halted leads to none (`BookSessions`), the same of downloads
(`Downloads`), and that records follow machines.

**TerminalQueue_proof.** With one poll at a time (`OnePoll`) and boot and stop on
one thread: `QueueBounded`, `WakeupNeverLost`, `QueueImplementsChannel`. The
strengthening is `AwaitCovered`: a poll that has looked and not yet parked is
covered by a permit, or by a notification still to come. The refinement theorem
is about the steps (`Channel!Init /\ [][Channel!Next]`). `InputArrives` is about
the input: `InputInv` says that machines hold distinct descriptors
(`MachinesOpen`), that descriptor numbers lead to the machines in force
(`NumbersLead`), that inputs go through channel, batch and shells without a gap
and in order (`InOrder`), that what arrived is for its session (`ArrivedRight`),
and what became of every input as long as no machine has stopped (`NoneLost`).

**Network_proof.** Proxy: `OnlyAllowedIsSent` (`PolicyInv`: a connection that has
decided holds a policy that was in force while it lived and that allows what it
sends; tokens given out and left never exceed those that were put in),
`AnsweredReportedOnce` (`ReportInv`: of every exchange, the reports written and
those still to come add up to one) and `PermitsExact` (`PermitInv`: the permits
that are taken are those of the live connections). VPN: `TunnelsAreKnown` from
`VpnInv`: what `Connect` waits for is the tunnel it made (`WaitsForItsOwn`), while
calls do not overlap, connected means a tunnel that got the server's answer,
though its session may have expired since (`StatusTrue`), and every poll task is
the manager's or was replaced (`TasksKnown`); that the parser accepts only whole
configurations (`ConfigRead`) is a fact about its recursion over lines, proved by
taking the shortest prefix for which it fails. Telemetry: `ReportsKept` from
`ReportsInv`, of which `NetOnce` and `NetFirst` follow a report through task,
channel, batch and database, and `WriterHeld` says that the writer does not end
while a sender lives; `DetailsWhole` adds, for the two queries modelled, that the
rows of a model call are complete when it is written (`RowsWhole`) and that the
second query sees at least what the first saw (`ReadWhole`). `TracesAreFollowed`
is about the trace state: a tool call leads to the trace of a call that asked for
it, and to that of the last that did until it may have been completed
(`PendingLeads`); nothing is assumed of what clients send, who may repeat a
conversation or the ids of its calls. LLM stream: `CutsDoNotMatter` says that the
state of both parsers and the events so far are those of the words one at a time,
wherever chunks end (`StreamInv`). Hence `SummaryStaysExact`: if the bodies are
summarised right when their words arrive one by one (`SaidWordByWord`), they are
however they are cut. The hypothesis is induction over the words of a message,
which the run checks: chunks of one word are among its behaviours.

**Guest_proof.** Shells: `ShellsTyped`, `DescriptorsHeldOnce`. `Holdings` counts
who holds a descriptor of which shell: the table, a thread between removal and
close, or a message; with distinct process ids (`PidsDistinct`) and a bridge
that holds nothing between its rounds (`BridgeIdle`) it is inductive. Ports:
`PortsAreAccounted`. `WatchInv` says that the reports still unread lead from what
the host shows to what the watcher saw last (`ReportsTell`). `LoopInv` says, for
ports without an overlap, that commands are alone on their port
(`CommandsApart`), that handles name the loops that run (`NamesTrue`) and that
entries and loops agree (`EntriesMatch`), while `CrossingsSeen` makes sure that an
overlap is noticed. `PortsAssumption` only keeps the word "none" out of the ports.

**Store_proof.** `OnlyVerifiedBoots` (`AssetInv`: while downloads do not overlap,
only the one at work writes its temporary file). `CarriedWorkKept` (`RemoteInv`:
for each step of detach and reattach, which copies hold the newest version and
what is recorded of it, so that failing or dying there loses nothing but what
`spoiled` names; after `Release` the disk is here and its server is anybody's).
`RegistryKept` (`RegistryInv`: what a command is about to write is the list on
disk with its own edit, unless a race was noted). `DisksStaySound` (`DiskInv`: a
running machine has its disk or its stop is queued, commands and machines that end
work on venvs of their own, and the disk each of them uses is whole).
`RecordsRestorable` and `ChoicesKept` (`CloudInv`: there is one key unless it was
lost or made twice, what tasks upload is a whole archive unless they share the
temporary file or the machine was up, and what is loaded or saved agrees with the
user's choice unless `stale`). `OncePerDay` is about the calendars: the clock's
date follows the half days and the time noted is that of the last synchronisation
(`CalendarInv`, with `NextDayIs`: the day after, over the ends of months, years
and leap years, counts one more); `chrono_parse_iso` never counts more days than
the clock (`LeapBound`) and one less only after February of a leap year, from
which the property follows for any first day since 1970 (`CloudAssumption`). The
session index, with one process at a time: `CleanupRecovers` and
`EventsNeverLost`. `SessionInv` says which process is up (`OneUp`), how far its
clean-up has come and what that has established for every session (`ProcInv`), and
for every session which of database, compressed file and row hold its events
(`FilesExact`), also between the five steps of the vacuum. Figures are taken once
and are those of all the events, unless the process that still runs will take them
again or they are `behind` (`Reckoned`).

**Channels_proof.** `ProtocolKept`: `BootInv` relates the stages of the host
(`HostStage`) and of the guest (`GuestStage`) to the messages between them.
`ConfigIsApplied`: `Delivery` says that what is on the way and in the outbox is
the rest of the configuration's messages in their order, and that what the guest
applied is what was taken of it; a configuration that is not `Deliverable` is
dropped in part or cut, which the property leaves out. `CapsAssumption` states the
room for the setup script's two files. `AnswersAreOwn`: the lock is handed on in
order and the holder alone awaits (`LockInv`), and without noise the pipes of a
server hold nothing but notifications, the holder's request or its reply
(`PipeInv`, `OwnAnswer`). An error releases the lock only when the server is dead
and its output read to the end, which is why no reply is left for the next
connection. `CallsArePermitted`: calls that wait for the lock and calls in the
pipes passed the policy (`PassInv`). `CallsAreRouted`: what a step writes passed
it too, and the first separator of a name leads back to the server whose name it
follows (`HasParsed`, `ParsedHas`); `McpAssumption` says that names are sequences
of words and that no server has the empty name. `CallsRouted` is about the step
that writes to a server, `CallsArePermitted` about all that is in its pipe.
`PagesAreWhole`: what the guest has of a page is what it was told to go on after
(`PageInv`), for pages of any characters.

**FileTransfer_proof.** `TransferTyped`, `DownloadsWhole`, `SendersRemoved`. Each
request is sent once (`SentOnce`); its chunks leave and arrive without a gap
(`Gapless`), with the offsets and the end mark of the file as the agent found it
(`Truthful`); a partial file is a proper prefix (`PartialShort`), and the entry of
a waiting command is there (`SendersWait`).

**Settings_proof.** `FilesKeepTypes` from `Typed`, which also says that the files
hold ids of the registry or dynamic ones, lists of patterns and whole numbers.
`AdminBlockStays` adds `Refusing`: not only the policies of running machines
refuse what corp.toml switched off, also those that a reload has built and not yet
swapped in; and no command names corp.toml, so what it said when they were built
still holds. That every policy built from any files refuses it (`CorpBlocks`) is
where the order of rules counts: the rules of registries come before those of
providers that are off, hence the assumption that no registry names a provider's
domain. `MachinesHaveCurrentPolicy` needs `Followed`: as long as nothing raced, at
most one command is in flight, it is for the only active machine, the policies it
holds are of the files as they are now, and all other machines are current; a
command that does not reload writes only settings that no policy reads.
`GatewayStaysWithin` needs `Paired`: unless a write came between, both policies of
a machine, of a reload and of a boot half done are of the same files; and
`PolicyAgrees`, about the two pieces of code that build them: the pattern of every
rule that refuses is in the gateway's block list, and every pattern the gateway
allows has a rule (`RulesFrom`, `FiveParts` go through the five parts of the rules
in their order). `SettingsAreAppliedOrReported` follows from `Typed`: what the
guest is not given is what lint reports or `Silent` lists, setting by setting, and
a number that the cast would make huge is below a limit that is never negative.
The assumptions are about the registry and the values that a command can pass:
`RegistryAssumption` and `FilesAssumption`. They hold of the repository's
config/defaults.toml; the values in users' files are otherwise arbitrary. The
lemmas at the head of the module say what `FlattenSeq` returns, by well-founded
induction over its recursive function.

Only model-checked, and why:

| property | why |
|---|---|
| CommandsReturn, WaitsEnd, NothingLeftBehind (its leads-to), the fairness part of IsChannel | liveness, and ENABLED in fairness |
| SummaryExact, its hypothesis `SaidWordByWord` | what the parsers make of a body that arrives one word at a time: recursion over a message of any length |

Every other property of a passing run is stated by a theorem.

## 7. Plan

All modules of section 2 are modelled and checked; sections 3 and 6 say what is
proved: every invariant and every action property of the passing runs. What is
left is liveness, which the prover does not reach, and the parts of section 8.
Eight modules hold proofs: components that are composed by one MC module share a
proof module. None of these modules reaches a RECURSIVE operator.

## 8. Not modelled

The frontend, website, image build and scripts have no state of the core logic. Of
the core: the tree of settings and the warnings of lint, which only display; the
HTTP policy, whose rules are built and evaluated by tests alone; the rows of tool
responses; Exec with its sentinel and the process commands of the agent, the
debouncer of fs_watch, the map of terminal queues beyond its set of sessions,
request parsing and pricing, the queries of the reader that are one statement,
certificates and the rewriting of headers. Virtualization.framework, tokio,
SQLite, WireGuard, smoltcp, TLS, HTTP clients, SSH and the keychain are external
and appear only through what the code assumes of them. Contents of messages, files
and events are sizes, counts and small sets of words. Session ids are distinct:
the chance that two agree is not a question for TLC. Real time is absent: a
time-out may happen whenever its wait is under way. The parsers of settings files
and of JSON are external; what they return is enumerated.
