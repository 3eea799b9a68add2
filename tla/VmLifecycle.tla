----------------------------- MODULE VmLifecycle -----------------------------
(***************************************************************************)
(* The life of a virtual machine in the desktop application: the Tauri     *)
(* commands start_venv, stop_venv and delete_venv, the tray menu, the      *)
(* closures they dispatch to the main thread (boot_venv, stop_vm), the     *)
(* background download of a missing rootfs, the task that attaches to a    *)
(* booted guest (setup_vsock), and the end of the process, orderly or not. *)
(*                                                                         *)
(* Three kinds of actors interleave: command tasks (one per IPC call, with *)
(* an await between their steps), the main thread (which runs dispatched   *)
(* closures one at a time, in order), and background tasks.                *)
(***************************************************************************)
EXTENDS Naturals, Sequences, FiniteSets

CONSTANTS
    Venvs,          \* the environments the user created
    Ephemeral,      \* those whose scratch disk is recreated on every boot
    Cmds,           \* command tasks that may be in flight at once
    Tray,           \* stands for "no command waits for this closure"
    MaxSession,     \* bound: number of boots
    MaxQueue,       \* bound: queue length at which delete_venv and the tray wait
    RootfsBundled   \* the rootfs image is found when the application starts

ASSUME ConstantsAssumption ==
    /\ Ephemeral \subseteq Venvs
    /\ Tray \notin Cmds
    /\ MaxSession \in Nat
    /\ MaxQueue \in Nat
    /\ RootfsBundled \in BOOLEAN

VARIABLES
    registry,   \* venvs.json: the persisted status of each venv, or "absent"
    image,      \* the scratch.img of each venv: the boot that created it, or 0
    record,     \* main.db: the status of each session
    rootfs,     \* AssetConfig::rootfs_path is Some(_)
    up,         \* the application process is running
    cmd,        \* the command tasks: operation, venv and where they are
    mainq,      \* closures dispatched with run_on_main_thread
    stopping,   \* the session whose VM stop_vm has taken but not yet halted
    running,    \* AppState::running_venvs, 0 for a venv that has no entry
    vms,        \* AppState::vms: the sessions that have a VmInstance
    termOut,    \* the keys of AppState::terminal_outputs
    session,    \* number of sessions generated so far
    owner,      \* the venv each session was generated for
    disk,       \* the image each session's VM attached, 0 for none
    boot        \* how far each session's boot got

appState == <<running, vms, termOut>>
diskState == <<registry, image, record>>
sessions == <<session, owner, disk, boot>>
vars == <<registry, image, record, rootfs, up, cmd, mainq, stopping,
          running, vms, termOut, session, owner, disk, boot>>

Sessions == 1..MaxSession
Statuses == {"stopped", "booting", "running", "error"}
RecordStatuses == {"none", "running", "stopped", "crashed", "vacuumed"}
Downloading == {"downloading", "downloading bare"}
BootStages == Downloading \cup {"none", "failed", "serial", "accepting",
               "handshake", "attached", "lost"}

Idle == [op |-> "none", venv |-> Tray, pc |-> "idle"]
CmdStates == [op : {"none", "start", "stop", "delete"}, venv : Venvs \cup {Tray},
              pc : {"idle", "mark", "await", "finish"}]
Closures == [op : {"boot", "stop"}, venv : Venvs, for : Cmds \cup {Tray}]

\* The machines that hold their disk open: stop_vm keeps the instance it took
\* out of the map for 1.5 s before it halts it.
Live == vms \cup (IF stopping = 0 THEN {} ELSE {stopping})

Fresh(status) == [v \in Venvs |-> status]

Init ==
    /\ registry = Fresh("stopped")
    /\ image = Fresh(0)
    /\ record = [s \in Sessions |-> "none"]
    /\ rootfs = RootfsBundled
    /\ up = TRUE
    /\ cmd = [c \in Cmds |-> Idle]
    /\ mainq = << >>
    /\ stopping = 0
    /\ running = Fresh(0)
    /\ vms = {}
    /\ termOut = {}
    /\ session = 0
    /\ owner = [s \in Sessions |-> Tray]
    /\ disk = [s \in Sessions |-> 0]
    /\ boot = [s \in Sessions |-> "none"]

------------------------------------------------------------------------------
(* Command tasks.                                                          *)

Dispatch(op, v, c) ==
    mainq' = Append(mainq, [op |-> op, venv |-> v, for |-> c])

Goto(c, op, v, pc) == cmd' = [cmd EXCEPT ![c] = [op |-> op, venv |-> v, pc |-> pc]]
Return(c) == cmd' = [cmd EXCEPT ![c] = Idle]

\* Bound: no more boots are asked for than there are session ids left.
CanBoot ==
    session + Cardinality({c \in Cmds : cmd[c].op = "start" /\ cmd[c].pc = "mark"})
            + Cardinality({i \in DOMAIN mainq : mainq[i].op = "boot"}) < MaxSession

\* update_venv_status: fails for a venv that is not in the file.
SetStatus(v, status) ==
    registry' = IF registry[v] = "absent" THEN registry
                ELSE [registry EXCEPT ![v] = status]

\* start_venv: the early return for a venv that is already running.
StartVenv(c, v) ==
    /\ up /\ cmd[c] = Idle
    /\ running[v] = 0
    /\ CanBoot
    /\ Goto(c, "start", v, "mark")
    /\ UNCHANGED <<rootfs, up, mainq, stopping, appState, diskState, sessions>>

\* start_venv: mark the venv as booting, then send boot_venv to the main thread.
StartMark(c) ==
    /\ up /\ cmd[c].op = "start" /\ cmd[c].pc = "mark"
    /\ SetStatus(cmd[c].venv, "booting")
    /\ IF registry[cmd[c].venv] = "absent"
       THEN Return(c) /\ UNCHANGED mainq
       ELSE /\ Goto(c, "start", cmd[c].venv, "await")
            /\ Dispatch("boot", cmd[c].venv, c)
    /\ UNCHANGED <<rootfs, up, stopping, appState, image, record, sessions>>

\* start_venv: boot_venv has answered; it has no error result.
StartFinish(c) ==
    /\ up /\ cmd[c].op = "start" /\ cmd[c].pc = "finish"
    /\ SetStatus(cmd[c].venv, "running")
    /\ Return(c)
    /\ UNCHANGED <<rootfs, up, mainq, stopping, appState, image, record, sessions>>

\* stop_venv: refuses a venv that is not running, otherwise sends stop_vm.
StopVenv(c, v) ==
    /\ up /\ cmd[c] = Idle
    /\ running[v] # 0
    /\ Goto(c, "stop", v, "await")
    /\ Dispatch("stop", v, c)
    /\ UNCHANGED <<rootfs, up, stopping, appState, diskState, sessions>>

StopFinish(c) ==
    /\ up /\ cmd[c].op = "stop" /\ cmd[c].pc = "finish"
    /\ SetStatus(cmd[c].venv, "stopped")
    /\ Return(c)
    /\ UNCHANGED <<rootfs, up, mainq, stopping, appState, image, record, sessions>>

\* delete_venv: sends stop_vm for a running venv, and does not wait for it ("await"
\* only remembers that it was sent).
DeleteVenv(c, v) ==
    /\ up /\ cmd[c] = Idle
    /\ Len(mainq) < MaxQueue
    /\ IF running[v] # 0
       THEN Dispatch("stop", v, Tray) /\ Goto(c, "delete", v, "await")
       ELSE UNCHANGED mainq /\ Goto(c, "delete", v, "finish")
    /\ UNCHANGED <<rootfs, up, stopping, appState, diskState, sessions>>

\* delete_venv: drop the venv from venvs.json and remove its data directory.
DeleteRemove(c) ==
    /\ up /\ cmd[c].op = "delete"
    /\ Return(c)
    /\ IF registry[cmd[c].venv] = "absent"
       THEN UNCHANGED <<registry, image>>
       ELSE /\ registry' = [registry EXCEPT ![cmd[c].venv] = "absent"]
            /\ image' = [image EXCEPT ![cmd[c].venv] = 0]
    /\ UNCHANGED <<rootfs, up, mainq, stopping, appState, record, sessions>>

\* The tray menu dispatches boot_venv and stop_vm directly; its items are those
\* of the last refresh, so the venv may be gone by now.
TrayMenu(op, v) ==
    /\ up
    /\ Len(mainq) < MaxQueue
    /\ op = "boot" => CanBoot
    /\ Dispatch(op, v, Tray)
    /\ UNCHANGED <<rootfs, up, cmd, stopping, appState, diskState, sessions>>

------------------------------------------------------------------------------
(* The main thread: closures run one at a time, in the order dispatched.   *)

AnswerOnlyWork(q) ==
    /\ mainq' = Tail(mainq)
    /\ cmd' = IF q.for = Tray \/ running[q.venv] = 0 THEN cmd
              ELSE [cmd EXCEPT ![q.for].pc = "finish"]

\* The closure at the head of the queue ends: it leaves the queue, and the
\* command that dispatched it, if one waits, gets its answer.
Answer(q) ==
    /\ mainq' = Tail(mainq)
    /\ cmd' = IF q.for = Tray THEN cmd ELSE [cmd EXCEPT ![q.for].pc = "finish"]

Serving(op) == up /\ stopping = 0 /\ mainq # << >> /\ Head(mainq).op = op

\* gui_boot_vm for session s on the image img, or without one: the VM cannot be
\* created or started (it always fails when its image is gone), or it starts
\* without vsock listeners and stays on the serial console, or with them.
GuiBootVm(s, img, gone) ==
    \E stage \in {"failed", "serial", "accepting"} :
        /\ gone => stage = "failed"
        /\ boot' = [boot EXCEPT ![s] = stage]
        /\ IF stage = "failed"
           THEN UNCHANGED <<vms, disk>>
           ELSE /\ vms' = vms \cup {s}
                /\ disk' = [disk EXCEPT ![s] = img]

AlwaysBootable(v) == TRUE

\* boot_venv's check of running_venvs.
NotRunning(v) == running[v] = 0

\* Insert a terminal map for the venv.
OpenTerminal(v) == termOut' = termOut \cup {v}

OnlyAttached(v) == running[v] \in vms /\ boot[running[v]] = "attached"

\* stop_vm found an instance for the session the venv maps to.
HasInstance(v) == running[v] \in vms

RecordLeftOpen(s, status) == record' = record

\* cleanup_session and vacuum_session in main.db.
CloseRecord(s, status) == record' = [record EXCEPT ![s] = status]

\* boot_venv for a venv that is in running_venvs: nothing to do.
BootAlreadyRunning ==
    /\ Serving("boot")
    /\ ~ NotRunning(Head(mainq).venv)
    /\ Answer(Head(mainq))
    /\ UNCHANGED <<rootfs, up, stopping, appState, diskState, sessions>>

\* The scratch disk of a boot, 0 for none: the one the venv has, or a new one.  When
\* create_scratch_disk fails the machine starts without a disk.  (An empty file that
\* a failed set_len leaves counts as none: the next boot gives it a name of its own.)
ScratchDisks(v, s) == IF image[v] = 0 \/ v \in Ephemeral THEN {s, 0} ELSE {image[v]}

\* boot_venv: a new session, the scratch disk, the session record, the entries
\* in running_venvs and terminal_outputs; then the VM, or the rootfs download.
BootVenv ==
    /\ Serving("boot")
    /\ NotRunning(Head(mainq).venv)
    /\ session < MaxSession
    /\ LET v == Head(mainq).venv
           s == session + 1
       IN /\ session' = s
          /\ owner' = [owner EXCEPT ![s] = v]
          /\ record' = [record EXCEPT ![s] = "running"]
          /\ running' = [running EXCEPT ![v] = s]
          /\ OpenTerminal(v)
          /\ \E img \in ScratchDisks(v, s) :
                /\ image' = [image EXCEPT ![v] = img]
                /\ IF rootfs
                   THEN GuiBootVm(s, img, FALSE)
                   ELSE /\ boot' = [boot EXCEPT ![s] = IF img = 0 THEN "downloading bare" ELSE "downloading"]
                        /\ UNCHANGED <<vms, disk>>
    /\ Answer(Head(mainq))
    /\ UNCHANGED <<rootfs, up, stopping, registry>>

\* stop_vm for a venv without an entry in running_venvs, or whose session has
\* no instance yet: no machine is halted and no session record is written.
StopVmNoInstance ==
    /\ Serving("stop")
    /\ LET v == Head(mainq).venv
       IN /\ ~ HasInstance(v)
          /\ running' = [running EXCEPT ![v] = 0]
          /\ termOut' = IF running[v] = 0 THEN termOut ELSE termOut \ {v}
    /\ Answer(Head(mainq))
    /\ UNCHANGED <<rootfs, up, stopping, vms, diskState, sessions>>

\* stop_vm takes the instance out of the maps and lets the guest sync.
StopVmTake ==
    /\ Serving("stop")
    /\ LET v == Head(mainq).venv
       IN /\ HasInstance(v)
          /\ running' = [running EXCEPT ![v] = 0]
          /\ vms' = vms \ {running[v]}
          /\ stopping' = running[v]
    /\ UNCHANGED <<rootfs, up, cmd, mainq, termOut, diskState, sessions>>

\* stop_vm halts the machine, closes its session record (cleanup_session), and
\* compresses its database (vacuum_session, which may fail).
StopVmHalt ==
    /\ up /\ stopping # 0
    /\ \E status \in {"stopped", "vacuumed"} : CloseRecord(stopping, status)
    /\ stopping' = 0
    /\ termOut' = termOut \ {owner[stopping]}
    /\ Answer(Head(mainq))
    /\ UNCHANGED <<rootfs, up, running, vms, registry, image, sessions>>

------------------------------------------------------------------------------
(* Background tasks.                                                       *)

\* The rootfs download of session s, spawned by boot_venv, fails: the task
\* reports the error to the window and ends.
DownloadFails(s) ==
    /\ up /\ boot[s] \in Downloading
    /\ boot' = [boot EXCEPT ![s] = "failed"]
    /\ UNCHANGED <<rootfs, up, cmd, mainq, stopping, appState, diskState,
                   session, owner, disk>>

\* The download succeeds: remember the path and boot the VM from this task.
DownloadDone(s) ==
    /\ up /\ boot[s] \in Downloading
    /\ rootfs' = TRUE
    /\ IF boot[s] = "downloading" THEN GuiBootVm(s, image[owner[s]], image[owner[s]] = 0)
       ELSE GuiBootVm(s, 0, FALSE)
    /\ IF boot'[s] = "failed" THEN UNCHANGED termOut ELSE OpenTerminal(owner[s])
    /\ UNCHANGED <<up, cmd, mainq, stopping, running, diskState, session, owner>>

\* setup_vsock: the guest opened its terminal and control connections.
VsockConnect(s) ==
    /\ up /\ boot[s] = "accepting" /\ s \in Live
    /\ boot' = [boot EXCEPT ![s] = "handshake"]
    /\ UNCHANGED <<rootfs, up, cmd, mainq, stopping, appState, diskState,
                   session, owner, disk>>

\* setup_vsock: the handshake ended, in success or not; the task goes on even
\* when the instance is gone, and creates a terminal map if there is none.
VsockAttach(s) ==
    /\ up /\ boot[s] = "handshake"
    /\ boot' = [boot EXCEPT ![s] = "attached"]
    /\ OpenTerminal(owner[s])
    /\ UNCHANGED <<rootfs, up, cmd, mainq, stopping, running, vms, diskState,
                   session, owner, disk>>

\* setup_vsock: the control descriptor cannot be duplicated, the task returns.
VsockAbandon(s) ==
    /\ up /\ boot[s] = "handshake"
    /\ boot' = [boot EXCEPT ![s] = "serial"]
    /\ UNCHANGED <<rootfs, up, cmd, mainq, stopping, appState, diskState,
                   session, owner, disk>>

------------------------------------------------------------------------------
(* The process ends and starts again.                                      *)

\* Everything in memory is gone, and with it every task and every machine.
LoseMemory ==
    /\ up' = FALSE
    /\ cmd' = [c \in Cmds |-> Idle]
    /\ mainq' = << >>
    /\ stopping' = 0
    /\ running' = Fresh(0)
    /\ vms' = {}
    /\ termOut' = {}
    /\ boot' = [s \in Sessions |->
                   IF boot[s] \in {"none", "failed"} THEN boot[s] ELSE "lost"]

\* Quit or ExitRequested: stop_all_vms, then exit.
Quit ==
    /\ up /\ stopping = 0
    /\ \E status \in {"stopped", "vacuumed"} :
           record' = [s \in Sessions |->
               IF s \in vms /\ running[owner[s]] = s THEN status ELSE record[s]]
    /\ LoseMemory
    /\ UNCHANGED <<registry, image, rootfs, session, owner, disk>>

Crash ==
    /\ up
    /\ LoseMemory
    /\ UNCHANGED <<diskState, rootfs, session, owner, disk>>

\* cleanup_stale_sessions on the way up: sessions left "running" have crashed;
\* databases not compressed yet are compressed, where that succeeds.
Restart ==
    /\ ~up
    /\ up' = TRUE
    /\ \E compressed \in SUBSET Sessions :
           record' = [s \in Sessions |->
               CASE record[s] \in {"none", "vacuumed"} -> record[s]
                 [] OTHER -> IF s \in compressed THEN "vacuumed"
                             ELSE IF record[s] = "running" THEN "crashed"
                             ELSE record[s]]
    /\ UNCHANGED <<registry, image, rootfs, cmd, mainq, stopping, appState, sessions>>

MainThread == BootAlreadyRunning \/ BootVenv \/ StopVmNoInstance \/ StopVmTake \/ StopVmHalt

CommandStep(c) == StartMark(c) \/ StartFinish(c) \/ StopFinish(c) \/ DeleteRemove(c)

Next ==
    \/ \E c \in Cmds, v \in Venvs : StartVenv(c, v) \/ StopVenv(c, v) \/ DeleteVenv(c, v)
    \/ \E c \in Cmds : CommandStep(c)
    \/ \E op \in {"boot", "stop"}, v \in Venvs : TrayMenu(op, v)
    \/ MainThread
    \/ \E s \in Sessions : DownloadFails(s) \/ DownloadDone(s)
    \/ \E s \in Sessions : VsockConnect(s) \/ VsockAttach(s) \/ VsockAbandon(s)
    \/ Quit \/ Crash \/ Restart

\* The event loop keeps running closures, and the async runtime keeps polling
\* ready command tasks, as long as the process lives.
Fairness == WF_vars(MainThread) /\ \A c \in Cmds : WF_vars(CommandStep(c))

Spec == Init /\ [][Next]_vars /\ Fairness

------------------------------------------------------------------------------
(* Properties.                                                             *)

\* The state has its type: statuses, sessions and closures are the ones the code
\* knows, also after rows and venvs were removed.
TypeOK ==
    /\ registry \in [Venvs -> Statuses \cup {"absent"}]
    /\ image \in [Venvs -> 0..MaxSession]
    /\ record \in [Sessions -> RecordStatuses]
    /\ rootfs \in BOOLEAN
    /\ up \in BOOLEAN
    /\ cmd \in [Cmds -> CmdStates]
    /\ mainq \in Seq(Closures)
    /\ stopping \in 0..MaxSession
    /\ running \in [Venvs -> 0..MaxSession]
    /\ vms \subseteq Sessions
    /\ termOut \subseteq Venvs
    /\ session \in 0..MaxSession
    /\ owner \in [Sessions -> Venvs \cup {Tray}]
    /\ disk \in [Sessions -> 0..MaxSession]
    /\ boot \in [Sessions -> BootStages]

\* Two machines never have the same scratch image open, whatever the order of
\* start, stop, delete and tray requests (boot_venv's check of running_venvs,
\* stop_vm's removal from it and the attach in gui_boot_vm).
ScratchExclusive ==
    \A s, t \in Live : s # t /\ disk[s] # 0 => disk[s] # disk[t]

\* Every machine can still be reached by a stop: stop_vm finds sessions only
\* through running_venvs, so an instance must be the one its venv maps to.
InstanceReachable ==
    \A s \in vms : running[owner[s]] = s

\* What the application keeps of a session follows its machine.  A session that
\* had a machine with a disk and has none now is closed in main.db while the process lives:
\* stop_vm never drops an instance without cleanup_session.  And a venv that is
\* in running_venvs has the terminal map its window polls, also while an older
\* stop of the same venv is being finished.
RecordsFollowMachines ==
    /\ up => \A s \in Sessions :
                disk[s] # 0 /\ s \notin Live => record[s] # "running"
    /\ \A v \in Venvs : running[v] # 0 => v \in termOut

\* Every command returns to the window: the main thread answers each closure
\* that start_venv and stop_venv wait for.
CommandsReturn ==
    \A c \in Cmds : cmd[c] # Idle ~> cmd[c] = Idle

==============================================================================
