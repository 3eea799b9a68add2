-------------------------- MODULE VmLifecycle_proof --------------------------
(***************************************************************************)
(* Proofs about VmLifecycle for any number of venvs, commands and boots.   *)
(***************************************************************************)
EXTENDS VmLifecycle, SequenceTheorems, TLAPS

\* A command task past its first step names a venv.
CmdVenv == \A c \in Cmds : cmd[c].op # "none" => cmd[c].venv \in Venvs

\* stop_vm's closure stays at the head of the queue until the VM is halted.
StopAtHead == stopping # 0 => mainq # << >>

\* Session ids are handed out in order and belong to the venv they were
\* generated for.
SessionsIssued ==
    /\ \A s \in vms : s <= session
    /\ stopping <= session
    /\ \A v \in Venvs : running[v] <= session /\ image[v] <= session
    /\ \A s \in Sessions : disk[s] <= session
    /\ \A s \in Sessions : s <= session => owner[s] \in Venvs

\* Both maps from venvs to sessions lead to sessions of that venv.
OwnerKept ==
    /\ \A v \in Venvs : running[v] # 0 => owner[running[v]] = v
    /\ \A v \in Venvs : image[v] # 0 => owner[image[v]] = v
    /\ \A s \in Sessions : disk[s] # 0 => s <= session /\ owner[disk[s]] = owner[s]

\* A machine that is being stopped is in neither map any more.
StoppingUnmapped ==
    stopping # 0 => /\ stopping \notin vms
                    /\ running[owner[stopping]] = 0

\* The inductive invariant, for an application that ships its rootfs.
IInv ==
    /\ TypeOK
    /\ CmdVenv
    /\ StopAtHead
    /\ rootfs
    /\ \A s \in Sessions : boot[s] \notin Downloading /\ (boot[s] # "none" => s <= session)
    /\ SessionsIssued
    /\ OwnerKept
    /\ InstanceReachable
    /\ StoppingUnmapped

\* The invariant gives exclusive scratch images: two live machines on one image
\* would belong to one venv, which maps to at most one session, and to none
\* while its machine is being stopped.
LEMMA ExclusiveFromInvariant == IInv => ScratchExclusive
<1> SUFFICES ASSUME IInv, NEW s \in Live, NEW t \in Live, s # t, disk[s] # 0
             PROVE  disk[s] # disk[t]
  BY DEF ScratchExclusive
<1>1. s \in Sessions /\ t \in Sessions
  BY DEF IInv, TypeOK, Live, Sessions
<1>2. SUFFICES ASSUME disk[s] = disk[t] PROVE FALSE
  OBVIOUS
<1>3. owner[s] = owner[t]
  BY <1>1, <1>2 DEF IInv, OwnerKept
<1> QED
  BY <1>1, <1>3 DEF IInv, Live, InstanceReachable, StoppingUnmapped, Sessions

\* The initial state satisfies the invariant when the rootfs is in the bundle.
LEMMA InitInvariant == RootfsBundled /\ Init => IInv
<1> SUFFICES ASSUME RootfsBundled, Init PROVE IInv
  OBVIOUS
<1> USE ConstantsAssumption DEF Init, Fresh, Sessions
<1>1. TypeOK
  BY DEF TypeOK, Statuses, RecordStatuses, BootStages, Downloading, CmdStates, Closures, Idle
<1>2. CmdVenv /\ StopAtHead
  BY DEF CmdVenv, StopAtHead, Idle
<1>3. SessionsIssued /\ OwnerKept
  BY DEF SessionsIssued, OwnerKept
<1>4. InstanceReachable /\ StoppingUnmapped
  BY DEF InstanceReachable, StoppingUnmapped, Live
<1> QED
  BY <1>1, <1>2, <1>3, <1>4 DEF IInv, Downloading

\* The part of the invariant that speaks of machines, images and sessions only.
MachineInv ==
    /\ SessionsIssued
    /\ OwnerKept
    /\ InstanceReachable
    /\ StoppingUnmapped

\* It depends on these variables only.
LEMMA MachineFrame ==
    ASSUME MachineInv,
           UNCHANGED <<vms, stopping, running, image, disk, owner, session>>
    PROVE  MachineInv'
BY DEF MachineInv, SessionsIssued, OwnerKept, InstanceReachable, StoppingUnmapped,
       Live, Sessions

\* Appending a closure keeps the queue typed and non-empty.
LEMMA DispatchTyped ==
    ASSUME mainq \in Seq(Closures), NEW op \in {"boot", "stop"}, NEW v \in Venvs,
           NEW c \in Cmds \cup {Tray}, Dispatch(op, v, c)
    PROVE  mainq' \in Seq(Closures) /\ mainq' # << >>
<1>1. [op |-> op, venv |-> v, for |-> c] \in Closures
  BY DEF Closures
<1> QED
  BY <1>1 DEF Dispatch

\* A command that moves on, or returns, keeps its typed local state.
LEMMA GotoTyped ==
    ASSUME cmd \in [Cmds -> CmdStates], CmdVenv, NEW c \in Cmds, NEW v \in Venvs,
           NEW op \in {"start", "stop", "delete"}, NEW pc \in {"mark", "await", "finish"},
           Goto(c, op, v, pc)
    PROVE  cmd' \in [Cmds -> CmdStates] /\ CmdVenv'
BY DEF Goto, CmdStates, CmdVenv

\* A command that returns is idle again, which is typed.
LEMMA ReturnTyped ==
    ASSUME cmd \in [Cmds -> CmdStates], CmdVenv, NEW c \in Cmds, Return(c)
    PROVE  cmd' \in [Cmds -> CmdStates] /\ CmdVenv'
BY DEF Return, Idle, CmdStates, CmdVenv

\* Command steps and the tray touch neither machines nor images, except that
\* delete_venv forgets the image of its venv.
LEMMA CommandsKeepInvariant ==
    ASSUME IInv, NEW c \in Cmds, NEW v \in Venvs,
           \/ StartVenv(c, v) \/ StopVenv(c, v) \/ DeleteVenv(c, v)
           \/ CommandStep(c)
    PROVE  IInv'
<1> USE ConstantsAssumption
<1> USE DEF IInv, appState, diskState, sessions
<1>0. MachineInv
  BY DEF MachineInv
<1>1. CASE StartVenv(c, v)
  <2>1. TypeOK' /\ CmdVenv'
    BY <1>1 DEF StartVenv, Goto, TypeOK, CmdVenv, CmdStates
  <2>2. MachineInv'
    BY <1>0, <1>1, MachineFrame DEF StartVenv
  <2> QED
    BY <1>1, <2>1, <2>2 DEF StartVenv, StopAtHead, MachineInv
<1>2. CASE StartMark(c)
  <2>0. cmd[c].venv \in Venvs
    BY <1>2 DEF StartMark, CmdVenv
  <2>1. registry' \in [Venvs -> Statuses \cup {"absent"}]
    BY <1>2 DEF StartMark, SetStatus, Statuses, TypeOK
  <2>2. mainq' \in Seq(Closures) /\ StopAtHead'
    BY <1>2, <2>0, DispatchTyped DEF StartMark, StopAtHead, TypeOK
  <2>3. cmd' \in [Cmds -> CmdStates] /\ CmdVenv'
    <3>1. CASE Return(c)
      BY <3>1, ReturnTyped DEF TypeOK
    <3>2. CASE Goto(c, "start", cmd[c].venv, "await")
      BY <2>0, <3>2, GotoTyped DEF TypeOK
    <3> QED
      BY <1>2, <3>1, <3>2 DEF StartMark
  <2>4. TypeOK'
    BY <1>2, <2>1, <2>2, <2>3 DEF StartMark, TypeOK
  <2>5. MachineInv'
    BY <1>0, <1>2, MachineFrame DEF StartMark
  <2> QED
    BY <1>2, <2>2, <2>3, <2>4, <2>5 DEF StartMark, MachineInv
<1>3. CASE StartFinish(c)
  <2>1. TypeOK' /\ CmdVenv'
    BY <1>3 DEF StartFinish, SetStatus, Statuses, Return, Idle, CmdStates, CmdVenv, TypeOK
  <2>2. MachineInv'
    BY <1>0, <1>3, MachineFrame DEF StartFinish
  <2> QED
    BY <1>3, <2>1, <2>2 DEF StartFinish, StopAtHead, MachineInv
<1>4. CASE StopVenv(c, v)
  <2>1. mainq' \in Seq(Closures) /\ StopAtHead'
    BY <1>4, DispatchTyped DEF StopVenv, StopAtHead, TypeOK
  <2>2. TypeOK' /\ CmdVenv'
    BY <1>4, <2>1 DEF StopVenv, Goto, CmdStates, CmdVenv, TypeOK
  <2>3. MachineInv'
    BY <1>0, <1>4, MachineFrame DEF StopVenv
  <2> QED
    BY <1>4, <2>1, <2>2, <2>3 DEF StopVenv, MachineInv
<1>5. CASE StopFinish(c)
  <2>1. TypeOK' /\ CmdVenv'
    BY <1>5 DEF StopFinish, SetStatus, Statuses, Return, Idle, CmdStates, CmdVenv, TypeOK
  <2>2. MachineInv'
    BY <1>0, <1>5, MachineFrame DEF StopFinish
  <2> QED
    BY <1>5, <2>1, <2>2 DEF StopFinish, StopAtHead, MachineInv
<1>6. CASE DeleteVenv(c, v)
  <2>1. mainq' \in Seq(Closures) /\ StopAtHead'
    BY <1>6, DispatchTyped DEF DeleteVenv, StopAtHead, TypeOK
  <2>2. cmd' \in [Cmds -> CmdStates] /\ CmdVenv'
    BY <1>6, GotoTyped DEF DeleteVenv, TypeOK
  <2>4. TypeOK'
    BY <1>6, <2>1, <2>2 DEF DeleteVenv, TypeOK
  <2>3. MachineInv'
    BY <1>0, <1>6, MachineFrame DEF DeleteVenv
  <2> QED
    BY <1>6, <2>1, <2>2, <2>3, <2>4 DEF DeleteVenv, MachineInv
<1>7. CASE DeleteRemove(c)
  <2>1. cmd' \in [Cmds -> CmdStates] /\ CmdVenv'
    BY <1>7, ReturnTyped DEF DeleteRemove, TypeOK
  <2>2. /\ registry' \in [Venvs -> Statuses \cup {"absent"}]
        /\ image' \in [Venvs -> 0..MaxSession]
        /\ \A w \in Venvs : image'[w] = image[w] \/ image'[w] = 0
    <3>1. \/ registry' = registry /\ image' = image
          \/ /\ registry' = [registry EXCEPT ![cmd[c].venv] = "absent"]
             /\ image' = [image EXCEPT ![cmd[c].venv] = 0]
      BY <1>7 DEF DeleteRemove
    <3>2. /\ registry \in [Venvs -> Statuses \cup {"absent"}]
          /\ image \in [Venvs -> 0..MaxSession]
          /\ 0 \in 0..MaxSession
      BY DEF TypeOK
    <3> HIDE DEF IInv
    <3> QED
      BY <3>1, <3>2
  <2>3. TypeOK'
    BY <1>7, <2>1, <2>2 DEF DeleteRemove, TypeOK
  <2>4. UNCHANGED <<vms, stopping, running, disk, owner, session>>
    BY <1>7 DEF DeleteRemove
  <2>5. SessionsIssued'
    <3>1. 0 <= session
      BY DEF TypeOK
    <3> QED
      BY <2>2, <2>4, <3>1 DEF SessionsIssued, Sessions
  <2>7. OwnerKept'
    BY <2>2, <2>4 DEF OwnerKept, Sessions
  <2>6. InstanceReachable' /\ StoppingUnmapped'
    BY <2>4 DEF InstanceReachable, StoppingUnmapped
  <2> QED
    BY <1>7, <2>1, <2>3, <2>5, <2>6, <2>7 DEF DeleteRemove, StopAtHead
<1> QED
  BY <1>1, <1>2, <1>3, <1>4, <1>5, <1>6, <1>7 DEF CommandStep

\* A click on the tray menu only queues a closure for the main thread.
LEMMA TrayKeepsInvariant ==
    ASSUME IInv, NEW v \in Venvs, NEW op \in {"boot", "stop"}, TrayMenu(op, v)
    PROVE  IInv'
<1> USE DEF IInv, appState, diskState, sessions
<1>1. mainq' \in Seq(Closures) /\ StopAtHead'
  BY DispatchTyped DEF TrayMenu, StopAtHead, TypeOK
<1>2. TypeOK' /\ CmdVenv'
  BY <1>1 DEF TrayMenu, CmdVenv, TypeOK
<1>3. MachineInv'
  BY MachineFrame DEF TrayMenu, MachineInv
<1> QED
  BY <1>1, <1>2, <1>3 DEF TrayMenu, MachineInv

\* Taking the head closure off the queue keeps queue and commands typed.
LEMMA AnswerTyped ==
    ASSUME mainq \in Seq(Closures), mainq # << >>, cmd \in [Cmds -> CmdStates], CmdVenv,
           Answer(Head(mainq))
    PROVE  mainq' \in Seq(Closures) /\ cmd' \in [Cmds -> CmdStates] /\ CmdVenv'
<1>1. Head(mainq) \in Closures /\ Tail(mainq) \in Seq(Closures)
  OBVIOUS
<1>2. cmd' \in [Cmds -> CmdStates] /\ CmdVenv'
  BY <1>1 DEF Answer, Closures, CmdStates, CmdVenv
<1> QED
  BY <1>1, <1>2 DEF Answer

\* boot_venv: the new session is the only one its venv maps to, because the
\* venv had no entry, hence no instance, and no stop is under way.
LEMMA BootKeepsInvariant == ASSUME IInv, BootVenv PROVE IInv'
<1> DEFINE v == Head(mainq).venv
           s == session + 1
<1> USE ConstantsAssumption
<1>1. /\ stopping = 0 /\ stopping' = 0 /\ mainq # << >>
      /\ running[v] = 0 /\ session < MaxSession
      /\ rootfs /\ rootfs' = rootfs
  BY DEF BootVenv, Serving, NotRunning, IInv
<1>2. mainq' \in Seq(Closures) /\ cmd' \in [Cmds -> CmdStates] /\ CmdVenv'
  BY <1>1, AnswerTyped DEF BootVenv, IInv, TypeOK
<1>3. v \in Venvs
  <2>1. mainq \in Seq(Closures)
    BY DEF IInv, TypeOK
  <2>2. Head(mainq) \in Closures
    BY <1>1, <2>1
  <2> QED
    BY <2>2 DEF Closures
<1>4. /\ s \in Nat /\ s # 0 /\ session \in Nat /\ s = session + 1
      /\ s \in Sessions /\ s \in 0..MaxSession
  BY <1>1 DEF IInv, TypeOK, Sessions
<1>t. /\ image \in [Venvs -> 0..MaxSession] /\ running \in [Venvs -> 0..MaxSession]
      /\ disk \in [Sessions -> 0..MaxSession] /\ boot \in [Sessions -> BootStages]
      /\ owner \in [Sessions -> Venvs \cup {Tray}] /\ vms \subseteq Sessions
      /\ \A t \in Sessions : t \in Nat /\ t # 0 /\ t \in 0..MaxSession
      /\ \A t \in 0..MaxSession : t \in Nat /\ (t # 0 => t \in Sessions)
  BY DEF IInv, TypeOK, Sessions
<1>i. SessionsIssued /\ OwnerKept /\ InstanceReachable
  BY DEF IInv
<1>p. PICK img \in ScratchDisks(v, s) : image' = [image EXCEPT ![v] = img] /\ GuiBootVm(s, img, FALSE)
  BY <1>1 DEF BootVenv
<1>5. /\ img \in {0, s} \/ (img = image[v] /\ image[v] <= session)
      /\ img \in 0..MaxSession /\ img <= s
  <2>1. image[v] \in 0..MaxSession /\ image[v] <= session
    BY <1>3, <1>t, <1>i DEF SessionsIssued
  <2>2. img \in {0, s, image[v]}
    BY <1>p DEF ScratchDisks
  <2> QED
    BY <1>4, <2>1, <2>2
<1>6. /\ session' = s
      /\ owner' = [owner EXCEPT ![s] = v]
      /\ image' = [image EXCEPT ![v] = img]
      /\ record' = [record EXCEPT ![s] = "running"]
      /\ running' = [running EXCEPT ![v] = s]
      /\ termOut' = termOut \cup {v}
      /\ registry' = registry /\ up' = up
  BY <1>p DEF BootVenv, OpenTerminal
<1>7. PICK stage \in {"failed", "serial", "accepting"} :
        /\ boot' = [boot EXCEPT ![s] = stage]
        /\ \/ vms' = vms /\ disk' = disk
           \/ vms' = vms \cup {s} /\ disk' = [disk EXCEPT ![s] = img]
  BY <1>p DEF GuiBootVm
<1> HIDE DEF v, s
<1>8. TypeOK'
  <2>1. registry' \in [Venvs -> Statuses \cup {"absent"}] /\ rootfs' \in BOOLEAN /\ up' \in BOOLEAN
    BY <1>1, <1>6 DEF IInv, TypeOK
  <2>2. image' \in [Venvs -> 0..MaxSession] /\ running' \in [Venvs -> 0..MaxSession]
    BY <1>4, <1>5, <1>6, <1>t
  <2>3. record' \in [Sessions -> RecordStatuses] /\ owner' \in [Sessions -> Venvs \cup {Tray}]
    BY <1>3, <1>6 DEF IInv, TypeOK, RecordStatuses
  <2>4. boot' \in [Sessions -> BootStages]
    BY <1>7, <1>t DEF BootStages
  <2>5. disk' \in [Sessions -> 0..MaxSession] /\ vms' \subseteq Sessions
    <3>1. CASE vms' = vms /\ disk' = disk
      BY <1>t, <3>1
    <3>2. CASE vms' = vms \cup {s} /\ disk' = [disk EXCEPT ![s] = img]
      BY <1>4, <1>5, <1>t, <3>2
    <3> QED
      BY <1>7, <3>1, <3>2
  <2>6. session' \in 0..MaxSession /\ termOut' \subseteq Venvs /\ stopping' \in 0..MaxSession
    BY <1>1, <1>3, <1>4, <1>6 DEF IInv, TypeOK
  <2> QED
    BY <1>2, <2>1, <2>2, <2>3, <2>4, <2>5, <2>6 DEF TypeOK
<1>9. \A t \in Sessions : boot'[t] \notin Downloading /\ (boot'[t] # "none" => t <= session')
  <2>1. \A t \in Sessions : t <= session => t <= session'
    BY <1>4, <1>6, <1>t
  <2>2. \A t \in Sessions : boot'[t] = IF t = s THEN stage ELSE boot[t]
    BY <1>7, <1>t
  <2>3. stage \notin Downloading
    BY DEF Downloading
  <2>4. s <= session'
    BY <1>4, <1>6
  <2> QED
    BY <2>1, <2>2, <2>3, <2>4 DEF IInv
<1>10. \A t \in vms : t \in Sessions /\ t # s /\ t <= session /\ owner[t] \in Venvs /\ owner[t] # v
  <2> SUFFICES ASSUME NEW t \in vms
               PROVE  t \in Sessions /\ t # s /\ t <= session /\ owner[t] \in Venvs /\ owner[t] # v
    OBVIOUS
  <2>1. t \in Sessions /\ t \in Nat /\ t # 0 /\ t <= session /\ running[owner[t]] = t
    BY <1>t, <1>i DEF SessionsIssued, InstanceReachable
  <2>2. owner[t] \in Venvs
    BY <1>i, <2>1 DEF SessionsIssued
  <2> QED
    BY <2>1, <2>2, <1>1, <1>4
<1>11. SessionsIssued'
  <2>1. \A t \in vms' : t <= session'
    <3> SUFFICES ASSUME NEW t \in vms' PROVE t <= session'
      OBVIOUS
    <3>1. t \in Nat /\ (t = s \/ t <= session)
      BY <1>4, <1>5, <1>7, <1>10, <1>t
    <3> QED
      BY <1>4, <1>6, <3>1
  <2>2. stopping' <= session'
    BY <1>1, <1>4, <1>6
  <2>3. \A w \in Venvs : running'[w] <= session' /\ image'[w] <= session'
    <3> SUFFICES ASSUME NEW w \in Venvs PROVE running'[w] <= session' /\ image'[w] <= session'
      OBVIOUS
    <3>1. /\ running[w] <= session /\ image[w] <= session
          /\ running[w] \in Nat /\ image[w] \in Nat /\ img \in Nat
      BY <1>i, <1>t, <1>5 DEF SessionsIssued
    <3> QED
      BY <1>4, <1>5, <1>6, <1>7, <1>t, <3>1
  <2>4. \A t \in Sessions : disk'[t] <= session'
    <3> SUFFICES ASSUME NEW t \in Sessions PROVE disk'[t] <= session'
      OBVIOUS
    <3>1. disk[t] <= session /\ disk[t] \in Nat /\ img \in Nat
      BY <1>i, <1>t, <1>5 DEF SessionsIssued
    <3> QED
      BY <1>4, <1>5, <1>6, <1>7, <1>t, <3>1
  <2>5. \A t \in Sessions : t <= session' => owner'[t] \in Venvs
    BY <1>3, <1>4, <1>6, <1>t, <1>i DEF SessionsIssued
  <2> QED
    BY <2>1, <2>2, <2>3, <2>4, <2>5 DEF SessionsIssued
<1>o. /\ owner'[s] = v
      /\ \A t \in Sessions : t <= session => owner'[t] = owner[t]
  BY <1>4, <1>6, <1>t
<1>12. OwnerKept'
  <2>1. \A w \in Venvs : running'[w] # 0 => owner'[running'[w]] = w
    BY <1>4, <1>6, <1>t, <1>i, <1>o DEF SessionsIssued, OwnerKept
  <2>2. img # 0 => owner'[img] = v
    BY <1>3, <1>5, <1>t, <1>i, <1>o DEF OwnerKept
  <2>3. \A w \in Venvs : image'[w] # 0 => owner'[image'[w]] = w
    BY <1>6, <1>t, <1>i, <1>o, <2>2 DEF SessionsIssued, OwnerKept
  <2>4. \A t \in Sessions : disk[t] # 0 => /\ t <= session
                                          /\ owner'[disk[t]] = owner'[t]
    BY <1>t, <1>i, <1>o DEF SessionsIssued, OwnerKept
  <2>5. \A t \in Sessions : disk'[t] # 0 => t <= session' /\ owner'[disk'[t]] = owner'[t]
    BY <1>4, <1>6, <1>7, <1>t, <1>o, <2>2, <2>4
  <2> QED
    BY <2>1, <2>3, <2>5 DEF OwnerKept
<1>13. InstanceReachable'
  BY <1>3, <1>6, <1>7, <1>10, <1>t, <1>i, <1>o DEF InstanceReachable
<1>14. StoppingUnmapped' /\ StopAtHead'
  BY <1>1 DEF StoppingUnmapped, StopAtHead
<1> QED
  BY <1>1, <1>2, <1>8, <1>9, <1>11, <1>12, <1>13, <1>14 DEF IInv

\* stop_vm and the no-op closures: an entry leaves running_venvs only together
\* with its instance, or when there is no instance.
LEMMA StopKeepsInvariant ==
    ASSUME IInv, BootAlreadyRunning \/ StopVmNoInstance \/ StopVmTake \/ StopVmHalt
    PROVE  IInv'
<1> DEFINE v == Head(mainq).venv
<1> USE ConstantsAssumption
<1>1. mainq # << >> /\ mainq \in Seq(Closures)
  BY DEF IInv, TypeOK, BootAlreadyRunning, StopVmNoInstance, StopVmTake, StopVmHalt,
         Serving, StopAtHead
<1>2. v \in Venvs
  <2>1. Head(mainq) \in Closures
    BY <1>1
  <2> QED
    BY <2>1 DEF Closures
<1>t. /\ running \in [Venvs -> 0..MaxSession] /\ vms \subseteq Sessions
      /\ owner \in [Sessions -> Venvs \cup {Tray}] /\ record \in [Sessions -> RecordStatuses]
      /\ stopping \in 0..MaxSession /\ session \in Nat
      /\ \A t \in Sessions : t \in Nat /\ t # 0 /\ t \in 0..MaxSession
      /\ \A t \in 0..MaxSession : t \in Nat /\ (t # 0 => t \in Sessions)
  BY DEF IInv, TypeOK, Sessions
<1>i. SessionsIssued /\ OwnerKept /\ InstanceReachable /\ StoppingUnmapped
  BY DEF IInv
<1>3. CASE BootAlreadyRunning
  <2>1. mainq' \in Seq(Closures) /\ cmd' \in [Cmds -> CmdStates] /\ CmdVenv'
    BY <1>1, <1>3, AnswerTyped DEF BootAlreadyRunning, IInv, TypeOK
  <2>2. TypeOK' /\ StopAtHead'
    BY <1>3, <2>1 DEF BootAlreadyRunning, Serving, IInv, TypeOK, StopAtHead,
                      appState, diskState, sessions
  <2>3. MachineInv'
    BY <1>3, <1>i, MachineFrame DEF BootAlreadyRunning, MachineInv, appState, diskState, sessions
  <2> QED
    BY <1>3, <2>1, <2>2, <2>3 DEF BootAlreadyRunning, IInv, MachineInv, sessions
<1>4. CASE StopVmNoInstance
  <2>1. mainq' \in Seq(Closures) /\ cmd' \in [Cmds -> CmdStates] /\ CmdVenv'
    BY <1>1, <1>4, AnswerTyped DEF StopVmNoInstance, IInv, TypeOK
  <2>2. /\ stopping = 0 /\ stopping' = 0 /\ running[v] \notin vms
        /\ running' = [running EXCEPT ![v] = 0]
        /\ UNCHANGED <<vms, image, disk, owner, session, rootfs, boot, registry, record, up>>
        /\ termOut' \subseteq Venvs
    BY <1>4 DEF StopVmNoInstance, Serving, HasInstance, diskState, sessions, IInv, TypeOK
  <2> HIDE DEF v
  <2>3. TypeOK' /\ StopAtHead'
    BY <1>t, <2>1, <2>2 DEF IInv, TypeOK, StopAtHead
  <2>4. SessionsIssued' /\ OwnerKept'
    BY <1>t, <1>i, <2>2 DEF SessionsIssued, OwnerKept
  <2>5. InstanceReachable'
    BY <1>t, <1>i, <2>2 DEF InstanceReachable
  <2>6. StoppingUnmapped'
    BY <1>i, <2>2 DEF StoppingUnmapped
  <2> QED
    BY <2>1, <2>2, <2>3, <2>4, <2>5, <2>6 DEF IInv
<1>5. CASE StopVmTake
  <2>1. /\ stopping = 0 /\ stopping' = running[v] /\ running[v] \in vms
        /\ running' = [running EXCEPT ![v] = 0]
        /\ vms' = vms \ {running[v]}
        /\ UNCHANGED <<image, disk, owner, session, rootfs, boot, registry, record, up,
                       cmd, mainq, termOut>>
    BY <1>5 DEF StopVmTake, Serving, HasInstance, diskState, sessions
  <2> HIDE DEF v
  <2>2. running[v] \in Sessions /\ running[v] # 0 /\ owner[running[v]] = v
    BY <1>2, <1>t, <1>i, <2>1 DEF OwnerKept
  <2>3. TypeOK' /\ StopAtHead' /\ CmdVenv'
    BY <1>1, <1>t, <2>1, <2>2 DEF IInv, TypeOK, StopAtHead, CmdVenv
  <2>4. SessionsIssued' /\ OwnerKept'
    BY <1>t, <1>i, <1>2, <2>1 DEF SessionsIssued, OwnerKept
  <2>5. InstanceReachable'
    BY <1>t, <1>i, <2>1, <2>2 DEF InstanceReachable
  <2>6. StoppingUnmapped'
    BY <1>2, <1>t, <2>1, <2>2 DEF StoppingUnmapped
  <2> QED
    BY <2>1, <2>3, <2>4, <2>5, <2>6 DEF IInv
<1>6. CASE StopVmHalt
  <2>1. mainq' \in Seq(Closures) /\ cmd' \in [Cmds -> CmdStates] /\ CmdVenv'
    BY <1>1, <1>6, AnswerTyped DEF StopVmHalt, IInv, TypeOK
  <2>2. /\ stopping # 0 /\ stopping' = 0
        /\ UNCHANGED <<running, vms, image, disk, owner, session, rootfs, boot, registry, up>>
        /\ termOut' \subseteq Venvs
    BY <1>6 DEF StopVmHalt, sessions, IInv, TypeOK
  <2>3. record' \in [Sessions -> RecordStatuses]
    BY <1>6, <1>t DEF StopVmHalt, CloseRecord, RecordStatuses
  <2>4. TypeOK' /\ StopAtHead'
    BY <1>t, <2>1, <2>2, <2>3 DEF IInv, TypeOK, StopAtHead
  <2>5. SessionsIssued' /\ OwnerKept'
    BY <1>t, <1>i, <2>2 DEF SessionsIssued, OwnerKept
  <2>6. InstanceReachable' /\ StoppingUnmapped'
    BY <1>i, <2>2 DEF InstanceReachable, StoppingUnmapped
  <2> QED
    BY <2>1, <2>2, <2>4, <2>5, <2>6 DEF IInv
<1> QED
  BY <1>3, <1>4, <1>5, <1>6

\* Background tasks of an application that ships its rootfs only attach to
\* guests.
LEMMA BackgroundKeepsInvariant ==
    ASSUME IInv, NEW s \in Sessions,
           \/ DownloadFails(s) \/ DownloadDone(s)
           \/ VsockConnect(s) \/ VsockAttach(s) \/ VsockAbandon(s)
    PROVE  IInv'
<1> USE ConstantsAssumption
<1>1. boot[s] \notin Downloading
  BY DEF IInv
<1>2. /\ UNCHANGED <<running, vms, image, disk, owner, session, stopping, rootfs,
                     registry, record, up, cmd, mainq>>
      /\ boot[s] # "none"
      /\ \E stage \in BootStages \ (Downloading \cup {"none"}) : boot' = [boot EXCEPT ![s] = stage]
  BY <1>1 DEF DownloadFails, DownloadDone, VsockConnect, VsockAttach, VsockAbandon,
              appState, diskState, BootStages, Downloading
<1>3. /\ boot' \in [Sessions -> BootStages]
      /\ \A t \in Sessions : boot'[t] \notin Downloading /\ (boot'[t] # "none" => t <= session')
  BY <1>2 DEF IInv, TypeOK
<1>4. termOut' \subseteq Venvs
  <2>1. owner[s] \in Venvs
    BY <1>2 DEF IInv, SessionsIssued
  <2> QED
    BY <1>1, <2>1 DEF DownloadFails, DownloadDone, VsockConnect, VsockAttach, VsockAbandon,
                      OpenTerminal, appState, IInv, TypeOK
<1>5. TypeOK' /\ CmdVenv' /\ StopAtHead'
  BY <1>2, <1>3, <1>4 DEF IInv, TypeOK, CmdVenv, StopAtHead
<1>6. MachineInv'
  BY <1>2, MachineFrame DEF IInv, MachineInv
<1> QED
  BY <1>2, <1>3, <1>5, <1>6 DEF IInv, MachineInv

\* The end of the process empties the maps; restarting fills none of them.
LEMMA ProcessKeepsInvariant ==
    ASSUME IInv, Quit \/ Crash \/ Restart
    PROVE  IInv'
<1> USE ConstantsAssumption
<1>1. CASE Restart
  <2>1. PICK compressed \in SUBSET Sessions :
           record' = [s \in Sessions |->
               CASE record[s] \in {"none", "vacuumed"} -> record[s]
                 [] OTHER -> IF s \in compressed THEN "vacuumed"
                             ELSE IF record[s] = "running" THEN "crashed"
                             ELSE record[s]]
    BY <1>1 DEF Restart
  <2>2. record' \in [Sessions -> RecordStatuses]
    BY <2>1 DEF IInv, TypeOK, RecordStatuses
  <2>3. TypeOK' /\ CmdVenv' /\ StopAtHead'
    BY <1>1, <2>2 DEF Restart, IInv, TypeOK, CmdVenv, StopAtHead, appState, sessions
  <2>4. MachineInv'
    BY <1>1, MachineFrame DEF Restart, IInv, MachineInv, appState, sessions
  <2> QED
    BY <1>1, <2>3, <2>4 DEF Restart, IInv, MachineInv, sessions
<1>2. CASE Quit \/ Crash
  <2>1. LoseMemory /\ UNCHANGED <<registry, image, rootfs, session, owner, disk>>
    BY <1>2 DEF Quit, Crash, diskState
  <2>2. record' \in [Sessions -> RecordStatuses]
    <3>1. CASE Crash
      BY <3>1 DEF Crash, diskState, IInv, TypeOK
    <3>2. CASE Quit
      <4>1. PICK status \in {"stopped", "vacuumed"} :
              record' = [s \in Sessions |->
                 IF s \in vms /\ running[owner[s]] = s THEN status ELSE record[s]]
        BY <3>2 DEF Quit
      <4> QED
        BY <4>1 DEF IInv, TypeOK, RecordStatuses
    <3> QED
      BY <1>2, <3>1, <3>2
  <2>3. /\ boot' \in [Sessions -> BootStages]
        /\ \A t \in Sessions : boot'[t] \notin Downloading /\ (boot'[t] # "none" => t <= session')
    BY <2>1 DEF LoseMemory, IInv, TypeOK, BootStages, Downloading
  <2>4. cmd' \in [Cmds -> CmdStates] /\ CmdVenv'
    BY <2>1 DEF LoseMemory, Idle, CmdStates, CmdVenv
  <2>8. mainq' \in Seq(Closures)
    <3>1. mainq' = << >>
      BY <2>1 DEF LoseMemory
    <3> QED
      BY <3>1
  <2>10. up' \in BOOLEAN
    BY <2>1 DEF LoseMemory
  <2>9. /\ stopping' \in 0..MaxSession /\ running' \in [Venvs -> 0..MaxSession]
        /\ vms' \subseteq Sessions /\ termOut' \subseteq Venvs /\ StopAtHead'
    BY <2>1 DEF LoseMemory, Fresh, StopAtHead
  <2>5. TypeOK' /\ StopAtHead'
    BY <2>1, <2>2, <2>3, <2>4, <2>8, <2>9, <2>10 DEF IInv, TypeOK
  <2>6. SessionsIssued' /\ OwnerKept'
    BY <2>1 DEF LoseMemory, Fresh, IInv, TypeOK, SessionsIssued, OwnerKept, Sessions
  <2>7. InstanceReachable' /\ StoppingUnmapped'
    BY <2>1 DEF LoseMemory, InstanceReachable, StoppingUnmapped
  <2> QED
    BY <2>1, <2>3, <2>4, <2>5, <2>6, <2>7 DEF IInv
<1> QED
  BY <1>1, <1>2

\* Every step keeps the invariant.
LEMMA NextKeepsInvariant == IInv /\ [Next]_vars => IInv'
<1> SUFFICES ASSUME IInv, [Next]_vars PROVE IInv'
  OBVIOUS
<1>1. CASE \E c \in Cmds, v \in Venvs : StartVenv(c, v) \/ StopVenv(c, v) \/ DeleteVenv(c, v)
  BY <1>1, CommandsKeepInvariant
<1>2. CASE \E c \in Cmds : CommandStep(c)
  <2>1. PICK c \in Cmds : CommandStep(c)
    BY <1>2
  <2>2. cmd[c].venv \in Venvs
    BY <2>1 DEF CommandStep, StartMark, StartFinish, StopFinish, DeleteRemove, IInv, CmdVenv
  <2> QED
    BY <2>1, <2>2, CommandsKeepInvariant
<1>3. CASE \E op \in {"boot", "stop"}, v \in Venvs : TrayMenu(op, v)
  <2>1. PICK op \in {"boot", "stop"}, v \in Venvs : TrayMenu(op, v)
    BY <1>3
  <2> QED
    BY <2>1, TrayKeepsInvariant
<1>4. CASE MainThread
  BY <1>4, BootKeepsInvariant, StopKeepsInvariant DEF MainThread
<1>5. CASE \E s \in Sessions : DownloadFails(s) \/ DownloadDone(s)
  BY <1>5, BackgroundKeepsInvariant
<1>6. CASE \E s \in Sessions : VsockConnect(s) \/ VsockAttach(s) \/ VsockAbandon(s)
  BY <1>6, BackgroundKeepsInvariant
<1>7. CASE Quit \/ Crash \/ Restart
  BY <1>7, ProcessKeepsInvariant
<1>8. CASE UNCHANGED vars
  <2>1. TypeOK' /\ CmdVenv' /\ StopAtHead'
    BY <1>8 DEF vars, IInv, TypeOK, CmdVenv, StopAtHead
  <2>2. MachineInv'
    BY <1>8, MachineFrame DEF vars, IInv, MachineInv
  <2> QED
    BY <1>8, <2>1, <2>2 DEF vars, IInv, MachineInv
<1> QED
  BY <1>1, <1>2, <1>3, <1>4, <1>5, <1>6, <1>7, <1>8 DEF Next

\* Type correctness of the lifecycle, for an application with its rootfs.
THEOREM TypeCorrect == ASSUME RootfsBundled PROVE Spec => []TypeOK
<1>1. Init => IInv
  BY InitInvariant
<1>2. IInv => TypeOK
  BY DEF IInv
<1> QED
  BY <1>1, <1>2, NextKeepsInvariant, PTL DEF Spec

\* With the rootfs in the bundle, two machines never share a scratch image, for
\* any number of venvs, concurrent commands and boots: boot_venv's check of
\* running_venvs on the main thread is enough.
THEOREM ScratchNeverShared == ASSUME RootfsBundled PROVE Spec => []ScratchExclusive
<1>1. Init => IInv
  BY InitInvariant
<1> QED
  BY <1>1, ExclusiveFromInvariant, NextKeepsInvariant, PTL DEF Spec

\* Under the same assumption every machine stays reachable through running_venvs,
\* so a stop always finds it.
THEOREM NoOrphanMachine == ASSUME RootfsBundled PROVE Spec => []InstanceReachable
<1>1. Init => IInv
  BY InitInvariant
<1>2. IInv => InstanceReachable
  BY DEF IInv
<1> QED
  BY <1>1, <1>2, NextKeepsInvariant, PTL DEF Spec

------------------------------------------------------------------------------
(* What the application keeps of a session, with or without a download.    *)

\* The types that the records and maps depend on.
BookTypes ==
    /\ record \in [Sessions -> RecordStatuses] /\ disk \in [Sessions -> 0..MaxSession]
    /\ owner \in [Sessions -> Venvs \cup {Tray}] /\ running \in [Venvs -> 0..MaxSession]
    /\ session \in 0..MaxSession /\ stopping \in 0..MaxSession
    /\ mainq \in Seq(Closures) /\ cmd \in [Cmds -> CmdStates] /\ CmdVenv /\ StopAtHead

\* The sessions that the maps and the disks name were generated, for the venv
\* that leads to them; a venv whose machine is being halted leads to none.
BookSessions ==
    /\ stopping <= session
    /\ \A v \in Venvs : running[v] <= session /\ (running[v] # 0 => owner[running[v]] = v)
    /\ \A s \in Sessions : disk[s] # 0 => s <= session
    /\ stopping # 0 => \A v \in Venvs : owner[stopping] = v => running[v] = 0

\* A download belongs to a session that was generated for a venv.
Downloads ==
    /\ image \in [Venvs -> 0..MaxSession] /\ boot \in [Sessions -> BootStages]
    /\ \A s \in Sessions : boot[s] \in Downloading => s <= session /\ owner[s] \in Venvs

BookInv == BookTypes /\ BookSessions /\ Downloads /\ RecordsFollowMachines

\* Steps that move no session, machine or terminal.
LEMMA BookFrame ==
    ASSUME BookInv, UNCHANGED <<record, disk, owner, running, session, stopping, vms, up>>, Downloads',
           termOut \subseteq termOut', mainq' \in Seq(Closures), cmd' \in [Cmds -> CmdStates], CmdVenv', StopAtHead'
    PROVE  BookInv'
  BY DEF BookInv, BookTypes, BookSessions, RecordsFollowMachines, Live, Sessions

\* The steps of commands and the tray.
LEMMA CommandsKeepBook ==
    ASSUME BookInv, NEW c \in Cmds, NEW v \in Venvs,
           \/ StartVenv(c, v) \/ StopVenv(c, v) \/ DeleteVenv(c, v) \/ CommandStep(c)
    PROVE  BookInv'
<1>0. mainq \in Seq(Closures) /\ cmd \in [Cmds -> CmdStates] /\ CmdVenv /\ StopAtHead
  BY DEF BookInv, BookTypes
<1>1. UNCHANGED <<record, disk, owner, running, session, stopping, vms, up, termOut>>
  BY DEF StartVenv, StopVenv, DeleteVenv, CommandStep, StartMark, StartFinish, StopFinish, DeleteRemove,
         appState, diskState, sessions
<1>2. cmd[c].op # "none" => cmd[c].venv \in Venvs
  BY <1>0 DEF CmdVenv
<1>d. Downloads'
  <2>1. UNCHANGED boot /\ (UNCHANGED image \/ image' = [image EXCEPT ![cmd[c].venv] = 0])
    BY DEF StartVenv, StopVenv, DeleteVenv, CommandStep, StartMark, StartFinish, StopFinish, DeleteRemove,
           diskState, sessions
  <2> QED BY <1>1, <2>1, ConstantsAssumption DEF BookInv, Downloads
<1>3. \/ UNCHANGED mainq
      \/ \E op \in {"boot", "stop"}, w \in Venvs, d \in Cmds \cup {Tray} : Dispatch(op, w, d)
  BY <1>2 DEF StartVenv, StopVenv, DeleteVenv, CommandStep, StartMark, StartFinish, StopFinish, DeleteRemove
<1>4. mainq' \in Seq(Closures) /\ StopAtHead'
  BY <1>0, <1>1, <1>3, DispatchTyped DEF StopAtHead
<1>5. \/ Return(c)
      \/ \E op \in {"start", "stop", "delete"}, w \in Venvs, pc \in {"mark", "await", "finish"} : Goto(c, op, w, pc)
  BY <1>2 DEF StartVenv, StopVenv, DeleteVenv, CommandStep, StartMark, StartFinish, StopFinish, DeleteRemove
<1>6. cmd' \in [Cmds -> CmdStates] /\ CmdVenv'
  BY <1>0, <1>5, ReturnTyped, GotoTyped
<1> QED BY <1>1, <1>4, <1>6, <1>d, BookFrame

\* boot_venv: the new session has a record and a machine, or no disk.
LEMMA BootKeepsBook == ASSUME BookInv, BootVenv PROVE BookInv'
<1> DEFINE v == Head(mainq).venv
           s == session + 1
<1> USE ConstantsAssumption
<1>1. /\ stopping = 0 /\ stopping' = 0 /\ mainq # << >> /\ running[v] = 0 /\ session < MaxSession
  BY DEF BootVenv, Serving, NotRunning
<1>2. mainq' \in Seq(Closures) /\ cmd' \in [Cmds -> CmdStates] /\ CmdVenv'
  BY <1>1, AnswerTyped DEF BootVenv, BookInv, BookTypes
<1>3. v \in Venvs
  <2>1. Head(mainq) \in Closures
    BY <1>1 DEF BookInv, BookTypes
  <2> QED BY <2>1 DEF Closures
<1>p. PICK img \in ScratchDisks(v, s) :
         /\ image' = [image EXCEPT ![v] = img]
         /\ \/ GuiBootVm(s, img, FALSE)
            \/ /\ \E stage \in Downloading : boot' = [boot EXCEPT ![s] = stage]
               /\ UNCHANGED <<vms, disk>>
  BY DEF BootVenv, Downloading
<1>4. /\ img \in {0, s, image[v]}
      /\ \/ vms' = vms /\ disk' = disk
         \/ vms' = vms \cup {s} /\ disk' = [disk EXCEPT ![s] = img]
      /\ image' = [image EXCEPT ![v] = img]
      /\ \E stage \in Downloading \cup {"failed", "serial", "accepting"} : boot' = [boot EXCEPT ![s] = stage]
  <2>1. img \in {0, s, image[v]}
    BY <1>p DEF ScratchDisks
  <2> HIDE DEF s, v
  <2> QED BY <1>p, <2>1 DEF GuiBootVm
<1>5. /\ session' = s /\ owner' = [owner EXCEPT ![s] = v] /\ record' = [record EXCEPT ![s] = "running"]
      /\ running' = [running EXCEPT ![v] = s] /\ termOut' = termOut \cup {v} /\ up' = up
  BY DEF BootVenv, OpenTerminal
<1> HIDE DEF v, s
<1>6. /\ s \in Sessions /\ s = session + 1 /\ s \in 0..MaxSession /\ session \in Nat /\ s # 0
      /\ \A t \in Sessions : t \in 0..MaxSession /\ t \in Nat /\ t # 0
      /\ \A n \in 0..MaxSession : n \in Nat /\ (n # 0 => n \in Sessions)
  BY <1>1 DEF BookInv, BookTypes, Sessions, s
<1>7. /\ record \in [Sessions -> RecordStatuses] /\ disk \in [Sessions -> 0..MaxSession]
      /\ owner \in [Sessions -> Venvs \cup {Tray}] /\ running \in [Venvs -> 0..MaxSession]
  BY DEF BookInv, BookTypes
<1>d. image \in [Venvs -> 0..MaxSession] /\ img \in 0..MaxSession /\ boot \in [Sessions -> BootStages]
  BY <1>3, <1>4, <1>6 DEF BookInv, Downloads
<1>8. BookTypes'
  <2>1. record' \in [Sessions -> RecordStatuses] /\ owner' \in [Sessions -> Venvs \cup {Tray}]
    BY <1>3, <1>5, <1>6, <1>7 DEF RecordStatuses
  <2>2. disk' \in [Sessions -> 0..MaxSession] /\ running' \in [Venvs -> 0..MaxSession]
    BY <1>3, <1>4, <1>5, <1>6, <1>7, <1>d
  <2>3. session' \in 0..MaxSession /\ stopping' \in 0..MaxSession /\ StopAtHead'
    BY <1>1, <1>5, <1>6 DEF StopAtHead
  <2> QED BY <1>2, <2>1, <2>2, <2>3 DEF BookTypes
<1>9. \A w \in Venvs : running[w] \in Nat /\ running[w] <= session /\ (running[w] # 0 => owner[running[w]] = w)
  BY <1>6, <1>7 DEF BookInv, BookSessions
<1>10. \A t \in Sessions : disk[t] # 0 => t <= session
  BY DEF BookInv, BookSessions
<1>11. BookSessions'
  <2>1. stopping' <= session' /\ stopping' = 0
    BY <1>1, <1>5, <1>6
  <2>2. \A w \in Venvs : running'[w] <= session' /\ (running'[w] # 0 => owner'[running'[w]] = w)
    <3> SUFFICES ASSUME NEW w \in Venvs
                 PROVE  running'[w] <= session' /\ (running'[w] # 0 => owner'[running'[w]] = w)
      OBVIOUS
    <3>1. CASE w = v
      BY <1>3, <1>5, <1>6, <1>7, <3>1
    <3>2. CASE w # v
      <4>1. running'[w] = running[w] /\ running[w] # s
        BY <1>5, <1>6, <1>7, <1>9, <3>2
      <4>2. running[w] # 0 => running[w] \in Sessions /\ owner'[running[w]] = owner[running[w]]
        BY <1>5, <1>6, <1>7, <4>1
      <4> QED BY <1>5, <1>6, <1>9, <4>1, <4>2
    <3> QED BY <3>1, <3>2
  <2>3. \A t \in Sessions : disk'[t] # 0 => t <= session'
    BY <1>4, <1>5, <1>6, <1>7, <1>10
  <2> QED BY <2>1, <2>2, <2>3 DEF BookSessions
<1>12. RecordsFollowMachines'
  <2>1. \A t \in Sessions : up' /\ disk'[t] # 0 /\ t \notin Live' => record'[t] # "running"
    <3> SUFFICES ASSUME NEW t \in Sessions, up', disk'[t] # 0, t \notin Live' PROVE record'[t] # "running"
      OBVIOUS
    <3>1. t \notin vms' /\ t \notin Live
      BY <1>1, <1>4 DEF Live
    <3>2. t # s
      BY <1>4, <1>6, <1>10, <3>1
    <3>3. disk[t] # 0 /\ record'[t] = record[t]
      BY <1>4, <1>5, <1>6, <1>7, <3>2
    <3> QED BY <1>5, <3>1, <3>3 DEF BookInv, RecordsFollowMachines
  <2>2. \A w \in Venvs : running'[w] # 0 => w \in termOut'
    BY <1>5, <1>7 DEF BookInv, RecordsFollowMachines
  <2> QED BY <2>1, <2>2 DEF RecordsFollowMachines
<1>13. Downloads'
  <2>1. image' \in [Venvs -> 0..MaxSession] /\ boot' \in [Sessions -> BootStages]
    BY <1>4, <1>d DEF BootStages
  <2>2. owner'[s] = v /\ s <= session'
    BY <1>5, <1>6, <1>7
  <2>3. \A t \in Sessions \ {s} : boot'[t] = boot[t] /\ owner'[t] = owner[t] /\ (t <= session => t <= session')
    BY <1>4, <1>5, <1>6, <1>7, <1>d
  <2> QED BY <1>3, <2>1, <2>2, <2>3 DEF BookInv, Downloads
<1> QED BY <1>8, <1>11, <1>12, <1>13 DEF BookInv

\* stop_vm closes the record of the machine it halts, and drops the terminal of a
\* venv that has no entry any more.
LEMMA StopKeepsBook ==
    ASSUME BookInv, BootAlreadyRunning \/ StopVmNoInstance \/ StopVmTake \/ StopVmHalt
    PROVE  BookInv'
<1> DEFINE v == Head(mainq).venv
<1> USE ConstantsAssumption
<1>1. mainq # << >> /\ mainq \in Seq(Closures) /\ cmd \in [Cmds -> CmdStates] /\ CmdVenv
  BY DEF BookInv, BookTypes, BootAlreadyRunning, StopVmNoInstance, StopVmTake, StopVmHalt, Serving, StopAtHead
<1>2. v \in Venvs
  <2>1. Head(mainq) \in Closures
    BY <1>1
  <2> QED BY <2>1 DEF Closures
<1>3. Answer(Head(mainq)) => mainq' \in Seq(Closures) /\ cmd' \in [Cmds -> CmdStates] /\ CmdVenv'
  BY <1>1, AnswerTyped
<1>t. /\ record \in [Sessions -> RecordStatuses] /\ disk \in [Sessions -> 0..MaxSession]
      /\ owner \in [Sessions -> Venvs \cup {Tray}] /\ running \in [Venvs -> 0..MaxSession]
      /\ session \in 0..MaxSession /\ stopping \in 0..MaxSession
      /\ \A n \in 0..MaxSession : n \in Nat /\ (n # 0 => n \in Sessions)
  BY DEF BookInv, BookTypes, Sessions
<1>i. BookSessions /\ RecordsFollowMachines
  BY DEF BookInv
<1>d. Downloads'
  BY DEF BookInv, Downloads, BootAlreadyRunning, StopVmNoInstance, StopVmTake, StopVmHalt, diskState, sessions
<1>4. CASE BootAlreadyRunning
  <2>1. /\ UNCHANGED <<record, disk, owner, running, session, stopping, vms, up, termOut>> /\ stopping = 0
    BY <1>4 DEF BootAlreadyRunning, Serving, appState, diskState, sessions
  <2>2. mainq' \in Seq(Closures) /\ cmd' \in [Cmds -> CmdStates] /\ CmdVenv' /\ StopAtHead'
    BY <1>3, <1>4, <2>1 DEF BootAlreadyRunning, StopAtHead
  <2> QED BY <1>d, <2>1, <2>2, BookFrame
<1>5. CASE StopVmNoInstance
  <2>1. /\ stopping = 0 /\ UNCHANGED <<record, disk, owner, session, stopping, vms, up>>
        /\ running' = [running EXCEPT ![v] = 0] /\ termOut \ {v} \subseteq termOut' /\ Answer(Head(mainq))
    BY <1>5 DEF StopVmNoInstance, Serving, diskState, sessions
  <2> HIDE DEF v
  <2>2. BookTypes'
    BY <1>2, <1>3, <1>t, <2>1 DEF BookTypes, StopAtHead
  <2>3. BookSessions'
    BY <1>2, <1>t, <1>i, <2>1 DEF BookSessions
  <2>4. RecordsFollowMachines'
    BY <1>2, <1>t, <1>i, <2>1 DEF RecordsFollowMachines, Live
  <2> QED BY <1>d, <2>2, <2>3, <2>4 DEF BookInv
<1>6. CASE StopVmTake
  <2>1. /\ stopping = 0 /\ stopping' = running[v] /\ running' = [running EXCEPT ![v] = 0] /\ running[v] \in vms
        /\ vms' = vms \ {running[v]} /\ UNCHANGED <<record, disk, owner, session, up, cmd, mainq, termOut>>
    BY <1>6 DEF StopVmTake, Serving, HasInstance, diskState, sessions
  <2> HIDE DEF v
  <2>2. BookTypes'
    BY <1>1, <1>2, <1>t, <2>1 DEF BookTypes, StopAtHead, CmdVenv
  <2>3. BookSessions'
    <3>1. stopping' <= session' /\ (stopping' # 0 => owner'[stopping'] = v)
      BY <1>2, <1>i, <2>1 DEF BookSessions
    <3>2. \A w \in Venvs : running'[w] \in {0, running[w]} /\ running'[v] = 0 /\ running[w] \in Nat
      BY <1>2, <1>t, <2>1
    <3> QED BY <1>t, <1>i, <2>1, <3>1, <3>2 DEF BookSessions
  <2>4. Live = vms /\ \A t \in Sessions : t \in vms => t \in Live'
    BY <2>1 DEF Live, Sessions
  <2>5. RecordsFollowMachines'
    BY <1>2, <1>t, <1>i, <2>1, <2>4 DEF RecordsFollowMachines
  <2> QED BY <1>d, <2>2, <2>3, <2>5 DEF BookInv
<1>7. CASE StopVmHalt
  <2>1. /\ stopping # 0 /\ stopping' = 0 /\ UNCHANGED <<running, vms, disk, owner, session, up>>
        /\ termOut' = termOut \ {owner[stopping]} /\ Answer(Head(mainq))
    BY <1>7 DEF StopVmHalt, sessions
  <2>2. PICK status \in {"stopped", "vacuumed"} : record' = [record EXCEPT ![stopping] = status]
    BY <1>7 DEF StopVmHalt, CloseRecord
  <2>3. BookTypes'
    BY <1>3, <1>t, <2>1, <2>2 DEF BookTypes, StopAtHead, RecordStatuses
  <2>4. BookSessions'
    BY <1>t, <1>i, <2>1 DEF BookSessions
  <2>5. Live' = vms /\ Live = vms \cup {stopping}
    BY <2>1 DEF Live
  <2>6. RecordsFollowMachines'
    BY <1>t, <1>i, <2>1, <2>2, <2>5 DEF RecordsFollowMachines, BookSessions
  <2> QED BY <1>d, <2>3, <2>4, <2>6 DEF BookInv
<1> QED BY <1>4, <1>5, <1>6, <1>7

\* The background tasks: a download that ends in a machine enters it in the map.
LEMMA BackgroundKeepsBook ==
    ASSUME BookInv, NEW s \in Sessions,
           \/ DownloadFails(s) \/ DownloadDone(s)
           \/ VsockConnect(s) \/ VsockAttach(s) \/ VsockAbandon(s)
    PROVE  BookInv'
<1> USE ConstantsAssumption
<1>0. /\ mainq \in Seq(Closures) /\ cmd \in [Cmds -> CmdStates] /\ CmdVenv /\ StopAtHead
  BY DEF BookInv, BookTypes
<1>1. /\ UNCHANGED <<record, owner, running, session, stopping, up, mainq, cmd>> /\ termOut \subseteq termOut'
  BY DEF DownloadFails, DownloadDone, VsockConnect, VsockAttach, VsockAbandon, OpenTerminal, appState, diskState
<1>2. CASE ~DownloadDone(s)
  <2>1. /\ UNCHANGED <<vms, disk, image>>
        /\ \E stage \in BootStages \ Downloading : boot' = [boot EXCEPT ![s] = stage]
    BY <1>2 DEF DownloadFails, VsockConnect, VsockAttach, VsockAbandon, appState, diskState, BootStages, Downloading
  <2>2. Downloads'
    BY <1>1, <2>1 DEF BookInv, Downloads
  <2> QED BY <1>0, <1>1, <2>1, <2>2, BookFrame DEF CmdVenv, StopAtHead
<1>3. CASE DownloadDone(s)
  <2>1. s <= session /\ owner[s] \in Venvs /\ image[owner[s]] \in 0..MaxSession /\ UNCHANGED image
    BY <1>3 DEF DownloadDone, BookInv, Downloads, diskState
  <2>2. PICK stage \in {"failed", "serial", "accepting"} : boot' = [boot EXCEPT ![s] = stage]
    BY <1>3 DEF DownloadDone, GuiBootVm
  <2>3. PICK img \in {0, image[owner[s]]} :
             \/ UNCHANGED <<vms, disk>>
             \/ vms' = vms \cup {s} /\ disk' = [disk EXCEPT ![s] = img]
    BY <1>3 DEF DownloadDone, GuiBootVm
  <2>4. Downloads'
    BY <1>1, <2>1, <2>2 DEF BookInv, Downloads, BootStages, Downloading
  <2>5. CASE UNCHANGED <<vms, disk>>
    BY <1>0, <1>1, <2>4, <2>5, BookFrame DEF CmdVenv, StopAtHead
  <2>6. CASE vms' = vms \cup {s} /\ disk' = [disk EXCEPT ![s] = img]
    <3>1. disk' \in [Sessions -> 0..MaxSession] /\ \A t \in Sessions \ {s} : disk'[t] = disk[t]
      BY <2>1, <2>3, <2>6 DEF BookInv, BookTypes
    <3>2. BookTypes'
      BY <1>1, <3>1 DEF BookInv, BookTypes, CmdVenv, StopAtHead
    <3>3. BookSessions'
      BY <1>1, <2>1, <3>1 DEF BookInv, BookSessions
    <3>4. Live' = Live \cup {s}
      BY <1>1, <2>6 DEF Live
    <3>5. RecordsFollowMachines'
      BY <1>1, <3>1, <3>4 DEF BookInv, RecordsFollowMachines
    <3> QED BY <2>4, <3>2, <3>3, <3>5 DEF BookInv
  <2> QED BY <2>3, <2>5, <2>6
<1> QED BY <1>2, <1>3

\* The end of the process empties the maps, and the next start closes the records.
LEMMA ProcessKeepsBook ==
    ASSUME BookInv, Quit \/ Crash \/ Restart
    PROVE  BookInv'
<1> USE ConstantsAssumption
<1>1. CASE Restart
  <2>1. /\ UNCHANGED <<registry, image, cmd, mainq, stopping, running, vms, termOut, session, owner, disk, boot>>
        /\ record' \in [Sessions -> RecordStatuses \ {"running"}]
    <3>1. PICK compressed \in SUBSET Sessions :
           record' = [s \in Sessions |->
               CASE record[s] \in {"none", "vacuumed"} -> record[s]
                 [] OTHER -> IF s \in compressed THEN "vacuumed"
                             ELSE IF record[s] = "running" THEN "crashed"
                             ELSE record[s]]
      BY <1>1 DEF Restart
    <3> QED BY <1>1, <3>1 DEF Restart, appState, sessions, BookInv, BookTypes, RecordStatuses
  <2>2. BookTypes'
    BY <2>1 DEF BookInv, BookTypes, CmdVenv, StopAtHead
  <2>3. BookSessions' /\ Downloads'
    BY <2>1 DEF BookInv, BookSessions, Downloads
  <2>4. RecordsFollowMachines'
    BY <2>1 DEF BookInv, RecordsFollowMachines
  <2> QED BY <2>2, <2>3, <2>4 DEF BookInv
<1>2. CASE Quit \/ Crash
  <2>1. LoseMemory /\ UNCHANGED <<image, session, owner, disk>>
    BY <1>2 DEF Quit, Crash, diskState
  <2>2. record' \in [Sessions -> RecordStatuses]
    BY <1>2 DEF Quit, Crash, diskState, BookInv, BookTypes, RecordStatuses
  <2>3. cmd' \in [Cmds -> CmdStates] /\ CmdVenv' /\ mainq' \in Seq(Closures) /\ stopping' = 0 /\ up' = FALSE
    BY <2>1 DEF LoseMemory, Idle, CmdStates, CmdVenv
  <2>4. running' = [v \in Venvs |-> 0]
    BY <2>1 DEF LoseMemory, Fresh
  <2>5. boot' \in [Sessions -> BootStages] /\ \A s \in Sessions : boot'[s] \notin Downloading
    BY <2>1 DEF LoseMemory, BookInv, Downloads, BootStages, Downloading
  <2>6. BookTypes'
    BY <2>1, <2>2, <2>3, <2>4 DEF BookInv, BookTypes, StopAtHead
  <2>7. BookSessions' /\ Downloads'
    BY <2>1, <2>3, <2>4, <2>5 DEF BookInv, BookTypes, BookSessions, Downloads
  <2>8. RecordsFollowMachines'
    BY <2>3, <2>4 DEF RecordsFollowMachines
  <2> QED BY <2>6, <2>7, <2>8 DEF BookInv
<1> QED BY <1>1, <1>2

\* Every step keeps it.
LEMMA NextKeepsBook == BookInv /\ [Next]_vars => BookInv'
<1> SUFFICES ASSUME BookInv, [Next]_vars PROVE BookInv'
  OBVIOUS
<1>0. mainq \in Seq(Closures) /\ cmd \in [Cmds -> CmdStates] /\ CmdVenv /\ StopAtHead /\ Downloads
  BY DEF BookInv, BookTypes
<1>1. CASE \E c \in Cmds, v \in Venvs : StartVenv(c, v) \/ StopVenv(c, v) \/ DeleteVenv(c, v)
  BY <1>1, CommandsKeepBook
<1>2. CASE \E c \in Cmds : CommandStep(c)
  <2>1. PICK c \in Cmds : CommandStep(c)
    BY <1>2
  <2>2. cmd[c].venv \in Venvs
    BY <1>0, <2>1 DEF CommandStep, StartMark, StartFinish, StopFinish, DeleteRemove, CmdVenv
  <2> QED BY <2>1, <2>2, CommandsKeepBook
<1>3. CASE \E op \in {"boot", "stop"}, v \in Venvs : TrayMenu(op, v)
  <2>1. PICK op \in {"boot", "stop"}, v \in Venvs : TrayMenu(op, v)
    BY <1>3
  <2>2. UNCHANGED <<record, disk, owner, running, session, stopping, vms, up, termOut, cmd, boot, image>>
        /\ Dispatch(op, v, Tray)
    BY <2>1 DEF TrayMenu, appState, diskState, sessions
  <2>3. mainq' \in Seq(Closures) /\ StopAtHead' /\ CmdVenv' /\ Downloads'
    BY <1>0, <2>2, DispatchTyped DEF StopAtHead, CmdVenv, Downloads
  <2> QED BY <1>0, <2>2, <2>3, BookFrame
<1>4. CASE MainThread
  BY <1>4, BootKeepsBook, StopKeepsBook DEF MainThread
<1>5. CASE \E s \in Sessions : DownloadFails(s) \/ DownloadDone(s)
  BY <1>5, BackgroundKeepsBook
<1>6. CASE \E s \in Sessions : VsockConnect(s) \/ VsockAttach(s) \/ VsockAbandon(s)
  BY <1>6, BackgroundKeepsBook
<1>7. CASE Quit \/ Crash \/ Restart
  BY <1>7, ProcessKeepsBook
<1>8. CASE UNCHANGED vars
  <2>1. /\ UNCHANGED <<record, disk, owner, running, session, stopping, vms, up, termOut, cmd, mainq, boot, image>>
    BY <1>8 DEF vars
  <2>2. CmdVenv' /\ StopAtHead' /\ Downloads'
    BY <1>0, <2>1 DEF StopAtHead, CmdVenv, Downloads
  <2> QED BY <1>0, <2>1, <2>2, BookFrame
<1> QED
  BY <1>1, <1>2, <1>3, <1>4, <1>5, <1>6, <1>7, <1>8 DEF Next

\* With the rootfs in the bundle or not, for any number of venvs, commands and
\* boots: stop_vm never drops an instance without closing its session record, also
\* one that a download booted after a stop, and a venv in running_venvs always has
\* the terminal map its window polls.
THEOREM RecordsKept == Spec => []RecordsFollowMachines
<1>1. Init => BookInv
  <2> SUFFICES ASSUME Init PROVE BookInv
    OBVIOUS
  <2> USE ConstantsAssumption DEF Init, Fresh, Sessions
  <2>1. BookTypes
    BY DEF BookTypes, RecordStatuses, CmdStates, Closures, Idle, CmdVenv, StopAtHead
  <2>2. BookSessions /\ Downloads
    BY DEF BookSessions, Downloads, BootStages, Downloading
  <2>3. RecordsFollowMachines
    BY DEF RecordsFollowMachines
  <2> QED BY <2>1, <2>2, <2>3 DEF BookInv
<1>2. BookInv => RecordsFollowMachines
  BY DEF BookInv
<1> QED BY <1>1, <1>2, NextKeepsBook, PTL DEF Spec

==============================================================================
