----------------------------- MODULE VenvRegistry -----------------------------
(***************************************************************************)
(* venvs.json, the directories of the virtual environments and the         *)
(* commands that change them.  A command reads the whole list, edits its   *)
(* copy and writes it back, with no lock: commands run on the blocking     *)
(* threads of the runtime, the machine on the main thread.                 *)
(***************************************************************************)
EXTENDS Naturals, Sequences, FiniteSets, TLC

CONSTANTS
    Ids,        \* identifiers gen_id may mint
    First,      \* the environments listed at the start
    Ops,        \* commands in flight at one time
    MaxOps,     \* bound: commands issued
    Torn        \* a registry file that does not parse

VARIABLES
    registry,   \* venvs.json: id -> status, or Torn
    disk,       \* id -> its directory: one of Complete, "partial" or "mixed"
    archives,   \* what export_venv wrote
    running,    \* running_venvs
    jobs,       \* closures dispatched to the main thread
    ending,     \* the stop the main thread is in: its machine syncs and ends
    menu,       \* environments the menu of the tray names
    touched,    \* commands that copy a disk its machine has used since they began
    op,         \* command -> its state
    issued,     \* number of commands issued
    minted,     \* identifiers gen_id has given out
    alive,      \* environments made and not deleted
    damaged,    \* a write of the file was cut off
    raced,      \* a command read the list while another was about to write it
    clash       \* a command on an environment that another one was working on

registryVars ==
    <<registry, disk, archives, running, jobs, ending, menu, touched, op, issued, minted, alive, damaged, raced, clash>>
machineVars == <<running, ending, menu, touched>>

ASSUME VenvAssumption == First \subseteq Ids /\ Torn \notin [Ids -> STRING] /\ "none" \notin Ids \cup Ops

NoOp == [kind |-> "none", id |-> "none", from |-> "none", pc |-> "idle", seen |-> << >>,
         status |-> "stopped", mixed |-> FALSE]

RegistryInit ==
    /\ registry = [id \in First |-> "stopped"]
    /\ disk = [id \in Ids |-> IF id \in First THEN "whole" ELSE "none"]
    /\ archives = {} /\ running = {} /\ jobs = << >> /\ ending = {} /\ menu = First /\ touched = {}
    /\ op = [o \in Ops |-> NoOp] /\ issued = 0 /\ minted = First
    /\ alive = First /\ damaged = FALSE /\ raced = FALSE /\ clash = FALSE

------------------------------------------------------------------------------
(* The commands up to their first await.                                   *)

Active == {o \in Ops : op[o].kind # "none"}
Uses(id) == {o \in Active : id \in {op[o].id, op[o].from} \ {"none"}}
Fresh == Ids \ minted
Dispatched(id) == \E j \in DOMAIN jobs : jobs[j].id = id

\* stop_vm has taken it out of running_venvs, and its machine has not ended.
Ending(id) == \E job \in ending : job.id = id

Issue(o, kind, id, from, pc) ==
    /\ op[o].kind = "none" /\ issued < MaxOps
    /\ op' = [op EXCEPT ![o] = [NoOp EXCEPT !.kind = kind, !.id = id, !.from = from, !.pc = pc,
                                            !.status = IF kind = "start" THEN "booting" ELSE "stopped"]]
    /\ issued' = issued + 1 /\ minted' = minted \cup ({id} \cap Ids)
    /\ clash' = (clash \/ Uses(id) # {} \/ Uses(from) # {} \/ Ending(from) \/ Dispatched(id) \/ Dispatched(from))
    /\ UNCHANGED <<registry, disk, archives, machineVars, alive, damaged, raced>>

CreateVenv(o) == \E id \in Fresh : Issue(o, "create", id, "none", "load") /\ UNCHANGED jobs

\* rename_venv and set_venv_icon.
RenameVenv(o, id) == Issue(o, "rename", id, "none", "load") /\ UNCHANGED jobs

\* Deletes the environment and leaves its machine running.
StopNothing(id) == << >>

\* The stop that delete_venv dispatches and does not await.
StopFirst(id) == IF id \in running THEN <<[do |-> "stop", id |-> id, for |-> "none"]>> ELSE << >>

DeleteVenv(o, id) == Issue(o, "delete", id, "none", "load") /\ jobs' = jobs \o StopFirst(id)

StartVenv(o, id) == id \notin running /\ Issue(o, "start", id, "none", "load") /\ UNCHANGED jobs

StopVenv(o, id) ==
    /\ id \in running /\ Issue(o, "stop", id, "none", "main")
    /\ jobs' = Append(jobs, [do |-> "stop", id |-> id, for |-> o])

\* clone_venv and export_venv after ensure_stopped.
CloneVenv(o, id) ==
    /\ id \notin running /\ \E new \in Fresh : Issue(o, "clone", new, id, "look")
    /\ UNCHANGED jobs
ExportVenv(o, id) == id \notin running /\ Issue(o, "export", "none", id, "look") /\ UNCHANGED jobs
ImportVenv(o) == \E new \in Fresh : Issue(o, "import", new, "none", "copy") /\ UNCHANGED jobs

------------------------------------------------------------------------------
(* The blocking tasks.                                                     *)

Finish(o) == op' = [op EXCEPT ![o] = NoOp]
Goto(o, pc) == op' = [op EXCEPT ![o].pc = pc]

\* load_venvs fails on a file that does not parse.
Parsed(o) == registry # Torn

\* An environment that is missing is added.
FoundAlways(o, list) == TRUE

\* The commands that change an entry look for it in the list they read.
Found(o, list) == op[o].kind \in {"create", "clone", "import"} \/ op[o].id \in DOMAIN list

List == IF registry = Torn THEN << >> ELSE registry
Listed == IF registry = Torn THEN {} ELSE DOMAIN registry

Load(o) ==
    /\ op[o].pc = "load"
    /\ IF Parsed(o) /\ Found(o, List)
       THEN op' = [op EXCEPT ![o].pc = "save", ![o].seen = List]
       ELSE Finish(o)
    /\ raced' = (raced \/ \E p \in Ops : op[p].pc \in {"save", "saving"})
    /\ UNCHANGED <<registry, disk, archives, machineVars, jobs, issued, minted, alive, damaged, clash>>

\* save_venvs: fs::write truncates the file before it writes.
SaveBegin(o) ==
    /\ op[o].pc = "save" /\ Goto(o, "saving") /\ registry' = Torn
    /\ UNCHANGED <<disk, archives, machineVars, jobs, issued, minted, alive, damaged, raced, clash>>

\* The list as the command edited it.
Edited(o) ==
    LET seen == op[o].seen  id == op[o].id
    IN CASE op[o].kind = "delete" -> [v \in DOMAIN seen \ {id} |-> seen[v]]
         [] op[o].kind = "rename" -> seen
         [] OTHER -> [v \in DOMAIN seen \cup {id} |-> IF v = id THEN op[o].status ELSE seen[v]]

\* The others that are writing now write over this list.
Mix(ops) == [p \in Ops |-> IF ops[p].pc = "saving" THEN [ops[p] EXCEPT !.mixed = TRUE] ELSE ops[p]]

SaveEnd(o) ==
    /\ op[o].pc = "saving"
    /\ registry' \in {Edited(o)} \cup (IF op[o].mixed THEN {Torn} ELSE {})
    /\ damaged' = (damaged \/ registry' = Torn)
    /\ alive' = CASE op[o].kind = "delete" -> alive \ {op[o].id}
                  [] op[o].kind \in {"create", "clone", "import"} -> alive \cup {op[o].id}
                  [] OTHER -> alive
    /\ LET boots == op[o].kind = "start" /\ op[o].status = "booting"
       IN /\ op' = Mix(CASE boots -> [op EXCEPT ![o].pc = "main", ![o].mixed = FALSE]
                         [] op[o].kind = "delete" -> [op EXCEPT ![o].pc = "remove", ![o].mixed = FALSE]
                         [] OTHER -> [op EXCEPT ![o] = NoOp])
          /\ jobs' = IF boots THEN Append(jobs, [do |-> "boot", id |-> op[o].id, for |-> o]) ELSE jobs
    /\ UNCHANGED <<disk, archives, machineVars, issued, minted, raced, clash>>

\* The write fails on the way.
SaveFails(o) ==
    /\ op[o].pc = "saving" /\ Finish(o) /\ damaged' = TRUE
    /\ UNCHANGED <<registry, disk, archives, machineVars, jobs, issued, minted, alive, raced, clash>>

\* remove_dir_all at the end of delete_venv.
RemoveDir(o) ==
    /\ op[o].pc = "remove" /\ Finish(o) /\ disk' = [disk EXCEPT ![op[o].id] = "none"]
    /\ UNCHANGED <<registry, archives, machineVars, jobs, issued, minted, alive, damaged, raced, clash>>

\* get_venv_info of the source.
Look(o) ==
    /\ op[o].pc = "look"
    /\ IF registry # Torn /\ op[o].from \in DOMAIN registry THEN Goto(o, "copy") ELSE Finish(o)
    /\ UNCHANGED <<registry, disk, archives, machineVars, jobs, issued, minted, alive, damaged, raced, clash>>

\* cow_copy, create_archive or extract_archive is at work.
CopyBegin(o) ==
    /\ op[o].pc = "copy" /\ Goto(o, "copying")
    /\ disk' = IF op[o].kind = "export" THEN disk ELSE [disk EXCEPT ![op[o].id] = "partial"]
    /\ touched' = IF op[o].from \in running \/ Ending(op[o].from) THEN touched \cup {o} ELSE touched \ {o}
    /\ UNCHANGED <<registry, archives, running, ending, menu, jobs, issued, minted, alive, damaged, raced, clash>>

\* A disk that is complete, or none, and one that is without all of the files
\* beside it.
Complete == {"none", "whole", "bare"}

\* What is read of a disk; one that is in use changes under the reader.
Content(o) ==
    CASE o \in touched -> "mixed"
      [] op[o].from = "none" -> "whole"
      [] OTHER -> disk[op[o].from]

\* A clone goes on when a file beside the disk cannot be copied.
Cloned(o) == {Content(o)} \cup (IF op[o].kind = "clone" /\ Content(o) = "whole" THEN {"bare"} ELSE {})

CopyEnd(o) ==
    /\ op[o].pc = "copying"
    /\ IF op[o].kind = "export"
       THEN archives' = archives \cup {Content(o)} /\ Finish(o) /\ UNCHANGED disk
       ELSE /\ \E c \in Cloned(o) : disk' = [disk EXCEPT ![op[o].id] = c]
            /\ Goto(o, "load") /\ UNCHANGED archives
    /\ UNCHANGED <<registry, machineVars, jobs, issued, minted, alive, damaged, raced, clash>>

\* The disk, the archive or its content cannot be copied: the command returns its
\* error, and what was copied stays.
CopyError(o) == Finish(o)

CopyFails(o) ==
    /\ op[o].pc = "copying" /\ CopyError(o)
    /\ UNCHANGED <<registry, disk, archives, machineVars, jobs, issued, minted, alive, damaged, raced, clash>>

------------------------------------------------------------------------------
(* The main thread, and the end of the program.                            *)

\* Answers the command that waits for the job.
Answer(job, status) ==
    op' = IF job.for = "none" THEN op ELSE [op EXCEPT ![job.for].pc = "load", ![job.for].status = status]

\* The machine is given its disk, which is made when there is none; the boot of
\* one that runs does nothing.
BootJob ==
    /\ jobs # << >> /\ ending = {} /\ Head(jobs).do = "boot" /\ jobs' = Tail(jobs)
    /\ LET job == Head(jobs)
       IN \/ /\ job.id \in running /\ Answer(job, "running") /\ UNCHANGED <<machineVars, disk>>
          \/ /\ job.id \notin running /\ running' = running \cup {job.id}
             /\ \E d \in {disk[job.id]} \cup (IF disk[job.id] = "none" THEN {"whole"} ELSE {}) :
                   disk' = [disk EXCEPT ![job.id] = d]
             /\ touched' = touched \cup {o \in Ops : op[o].pc = "copying" /\ op[o].from = job.id}
             /\ Answer(job, "running") /\ menu' = Listed /\ UNCHANGED ending
          \/ /\ job.id \notin running /\ Answer(job, "error") /\ UNCHANGED <<machineVars, disk>>
    /\ UNCHANGED <<registry, archives, issued, minted, alive, damaged, raced, clash>>

\* stop_vm: the environment leaves running_venvs, and then its machine is told to
\* sync and ended.
StopJob ==
    /\ jobs # << >> /\ ending = {} /\ Head(jobs).do = "stop" /\ jobs' = Tail(jobs)
    /\ LET job == Head(jobs)
       IN IF job.id \in running
          THEN running' = running \ {job.id} /\ ending' = {job} /\ UNCHANGED op
          ELSE Answer(job, "stopped") /\ UNCHANGED <<running, ending>>
    /\ UNCHANGED <<registry, disk, archives, menu, touched, issued, minted, alive, damaged, raced, clash>>

StopDone ==
    /\ \E job \in ending : Answer(job, "stopped")
    /\ ending' = {} /\ menu' = Listed
    /\ UNCHANGED <<registry, disk, archives, running, touched, jobs, issued, minted, alive, damaged, raced, clash>>

\* The menu of the tray, which is as old as the last boot or stop, names an
\* environment; it may be deleted, or a command may be working on it.
TrayStart(id) ==
    /\ id \in menu /\ issued < MaxOps /\ issued' = issued + 1
    /\ jobs' = Append(jobs, [do |-> "boot", id |-> id, for |-> "none"])
    /\ clash' = (clash \/ id \notin alive \/ Uses(id) # {} \/ Dispatched(id))
    /\ UNCHANGED <<registry, disk, archives, machineVars, op, minted, alive, damaged, raced>>

TrayStop(id) ==
    /\ id \in menu /\ issued < MaxOps /\ issued' = issued + 1
    /\ jobs' = Append(jobs, [do |-> "stop", id |-> id, for |-> "none"])
    /\ UNCHANGED <<registry, disk, archives, machineVars, op, minted, alive, damaged, raced, clash>>

\* The program dies: the machines end with it, files stay as they are.
RegistryCrash ==
    /\ Active # {} \/ jobs # << >> \/ ending # {}
    /\ op' = [o \in Ops |-> NoOp] /\ jobs' = << >>
    /\ running' = {} /\ ending' = {} /\ touched' = {} /\ menu' = Listed
    /\ damaged' = (damaged \/ registry = Torn)
    /\ UNCHANGED <<registry, disk, archives, issued, minted, alive, raced, clash>>

RegistryNext ==
    \/ \E o \in Ops :
          \/ CreateVenv(o) \/ ImportVenv(o)
          \/ \E id \in alive : \/ RenameVenv(o, id) \/ DeleteVenv(o, id) \/ StartVenv(o, id)
                               \/ StopVenv(o, id) \/ CloneVenv(o, id) \/ ExportVenv(o, id)
          \/ Load(o) \/ SaveBegin(o) \/ SaveEnd(o) \/ SaveFails(o) \/ RemoveDir(o)
          \/ Look(o) \/ CopyBegin(o) \/ CopyEnd(o) \/ CopyFails(o)
    \/ \E id \in menu : TrayStart(id) \/ TrayStop(id)
    \/ BootJob \/ StopJob \/ StopDone \/ RegistryCrash

RegistrySpec == RegistryInit /\ [][RegistryNext]_registryVars

------------------------------------------------------------------------------
(* Properties.                                                             *)

\* The registry is a list or does not parse; it fails to parse only while a
\* command writes it or after a write was cut off; a status is one of the four.
RegistryTypeOK ==
    /\ registry = Torn => damaged \/ \E o \in Ops : op[o].pc = "saving"
    /\ registry # Torn => \A id \in DOMAIN registry : registry[id] \in {"stopped", "booting", "running", "error"}
    /\ running \cup Listed \subseteq Ids
    /\ \A o \in Ops : op[o].pc = "main" => \/ \E j \in DOMAIN jobs : jobs[j].for = o
                                           \/ \E job \in ending : job.for = o

\* As long as no command reads the list while another is about to write it, the
\* list holds exactly the environments that were made and not deleted: stop and
\* start, which write a status after they waited for the main thread, do not
\* bring a deleted environment back, whatever fails or crashes.  And a registry
\* that a crash or a full disk cut off is never replaced by a list made from
\* nothing: load_venvs fails, and with it every command, so the file is still
\* there to be repaired.
RegistryExact ==
    ~raced => IF damaged THEN registry = Torn ELSE registry # Torn => Listed = alive

\* Unless two commands, the tray's included, worked on one environment, or one
\* copied a disk whose machine was still ending: a machine that runs belongs to an
\* environment that is not deleted and has its disk complete, or its stop is
\* queued; a clone or an import whose disk is not complete, because it failed or
\* crashed half way, is never listed (the files beside the disk may be missing from
\* a clone, which ignores errors there); and clones and archives are made of a
\* disk nobody writes.
DisksSound ==
    ~clash => /\ \A id \in running : \/ id \in alive /\ disk[id] \in Complete
                                     \/ \E j \in DOMAIN jobs : jobs[j].do = "stop" /\ jobs[j].id = id
              /\ \A id \in Listed : disk[id] \in Complete
              /\ "mixed" \notin archives
==============================================================================
