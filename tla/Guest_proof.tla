----------------------------- MODULE Guest_proof -----------------------------
(***************************************************************************)
(* Proofs about AgentShells, for any sessions, any cap and any number of   *)
(* shells and messages, and about Ports, for any ports, commands, clients  *)
(* and relay workers.                                                      *)
(***************************************************************************)
EXTENDS AgentShells, Ports, FiniteSetTheorems, SequenceTheorems, WellFoundedInduction, TLAPS

------------------------------------------------------------------------------
(* AgentShells.                                                            *)

Bridge == [pc : {"drain", "poll", "read"}, ready : SUBSET (SessionIds \X Fds),
           closed : SUBSET SessionIds, shell : Shell \cup {None}]

Messages == [t : {"spawn", "close"}, session : SessionIds]
Answers == [t : {"ready", "closed"}, session : SessionIds]

\* The types, with those of the messages, and the shells are finitely many.
TypeInv ==
    /\ TypeOK
    /\ requests \in Seq(Messages)
    /\ replies \in Seq(Answers)
    /\ control # None => requests # << >>
    /\ IsFiniteSet(Active)

\* The shells in the map, with control_loop and with the bridge are different
\* processes.
PidsDistinct ==
    /\ \A s, t \in SessionIds : s # t /\ shells[s] # None => shells[s].pid # shells[t].pid
    /\ \A s \in SessionIds : shells[s] # None => shells[s].pid \notin {control.pid, bridge.shell.pid}
    /\ control # None => control.pid # bridge.shell.pid

\* Whoever holds a shell has its descriptor open.
HoldersOpen ==
    /\ \A s \in SessionIds : shells[s] # None => open[shells[s].fd] = shells[s].pid
    /\ control # None => open[control.fd] = control.pid
    /\ bridge.shell # None => open[bridge.shell.fd] = bridge.shell.pid

\* A shell with this descriptor is in somebody's hands.
HeldFd(f) ==
    \/ \E s \in SessionIds : shells[s] # None /\ shells[s].fd = f
    \/ control # None /\ control.fd = f
    \/ bridge.shell # None /\ bridge.shell.fd = f

\* Between two polls the bridge holds nothing.
BridgeIdle == bridge.pc # "read" => bridge.ready = {} /\ bridge.closed = {} /\ bridge.shell = None

\* Who holds which shell and which descriptor.
Holdings ==
    /\ PidsDistinct
    /\ HoldersOpen
    /\ \A f \in Fds : open[f] # 0 => HeldFd(f)
    /\ \A f \in Fds : open[f] <= spawned

\* The inductive invariant.
IInv == TypeInv /\ BridgeIdle /\ Holdings

\* None is no shell.
LEMMA NoneIsNoShell == None \notin Shell /\ None.pid = 0
  BY ShellsAssumption DEF None, Shell, Pids, Fds

\* A shell is known by its process and its descriptor.
LEMMA ShellIs ==
    ASSUME NEW x \in Shell \cup {None}, NEW p \in Pids, NEW f
    PROVE  x = [pid |-> p, fd |-> f] <=> x # None /\ x.pid = p /\ x.fd = f
  BY ShellsAssumption DEF None, Shell, Pids, Fds

\* The holders of the invariant are those of DescriptorsOwned.
LEMMA OwnedFromInvariant == IInv => DescriptorsOwned
<1> SUFFICES ASSUME IInv, NEW f \in Fds, NEW p \in Pids
             PROVE  open[f] = p <=>
                        \/ \E s \in SessionIds : shells[s] = [pid |-> p, fd |-> f]
                        \/ [pid |-> p, fd |-> f] \in {control, bridge.shell}
  BY DEF DescriptorsOwned
<1>1. /\ \A s \in SessionIds : shells[s] \in Shell \cup {None}
      /\ control \in Shell \cup {None} /\ bridge.shell \in Shell \cup {None}
  BY DEF IInv, TypeInv, TypeOK
<1>2. p # 0
  BY DEF Pids
<1>3. ASSUME open[f] = p
      PROVE  \/ \E s \in SessionIds : shells[s] = [pid |-> p, fd |-> f]
             \/ [pid |-> p, fd |-> f] \in {control, bridge.shell}
  <2>1. HeldFd(f)
    BY <1>2, <1>3 DEF IInv, Holdings
  <2>2. CASE \E s \in SessionIds : shells[s] # None /\ shells[s].fd = f
    <3>1. PICK s \in SessionIds : shells[s] # None /\ shells[s].fd = f
      BY <2>2
    <3>2. shells[s].pid = p
      BY <1>3, <3>1 DEF IInv, Holdings, HoldersOpen
    <3> QED BY <1>1, <3>1, <3>2, ShellIs
  <2>3. CASE control # None /\ control.fd = f
    <3>1. control.pid = p
      BY <1>3, <2>3 DEF IInv, Holdings, HoldersOpen
    <3> QED BY <1>1, <2>3, <3>1, ShellIs
  <2>4. CASE bridge.shell # None /\ bridge.shell.fd = f
    <3>1. bridge.shell.pid = p
      BY <1>3, <2>4 DEF IInv, Holdings, HoldersOpen
    <3> QED BY <1>1, <2>4, <3>1, ShellIs
  <2> QED BY <2>1, <2>2, <2>3, <2>4 DEF HeldFd
<1>4. ASSUME NEW s \in SessionIds, shells[s] = [pid |-> p, fd |-> f] PROVE open[f] = p
  <2>1. shells[s] # None /\ shells[s].pid = p /\ shells[s].fd = f
    BY <1>1, <1>4, ShellIs
  <2> QED BY <2>1 DEF IInv, Holdings, HoldersOpen
<1>5. ASSUME control = [pid |-> p, fd |-> f] PROVE open[f] = p
  <2>1. control # None /\ control.pid = p /\ control.fd = f
    BY <1>1, <1>5, ShellIs
  <2> QED BY <2>1 DEF IInv, Holdings, HoldersOpen
<1>6. ASSUME bridge.shell = [pid |-> p, fd |-> f] PROVE open[f] = p
  <2>1. bridge.shell # None /\ bridge.shell.pid = p /\ bridge.shell.fd = f
    BY <1>1, <1>6, ShellIs
  <2> QED BY <2>1 DEF IInv, Holdings, HoldersOpen
<1> QED BY <1>3, <1>4, <1>5, <1>6

\* openpty finds a descriptor: every open one belongs to another process, and
\* there are more descriptors than processes.
LEMMA FreeFdExists ==
    ASSUME IInv
    PROVE  FreeFd \in Fds /\ open[FreeFd] = 0
<1>1. \A f, g \in Fds : open[f] # 0 /\ open[f] = open[g] => f = g
  <2> SUFFICES ASSUME NEW f \in Fds, NEW g \in Fds, open[f] # 0, open[f] = open[g] PROVE f = g
    OBVIOUS
  <2>1. HeldFd(f) /\ HeldFd(g)
    BY DEF IInv, Holdings
  <2> QED BY <2>1, NoneIsNoShell DEF IInv, Holdings, PidsDistinct, HoldersOpen, HeldFd
<1>2. \E f \in Fds : open[f] = 0
  <2> SUFFICES ASSUME \A f \in Fds : open[f] # 0 PROVE FALSE
    OBVIOUS
  <2>1. open \in [Fds -> Pids]
    BY ShellsAssumption DEF IInv, TypeInv, TypeOK, Pids
  <2>2. MaxSpawns \in Int /\ MaxSpawns + 1 \in Int /\ 1 <= MaxSpawns
    BY ShellsAssumption
  <2>3. /\ IsFiniteSet(Fds) /\ Cardinality(Fds) = MaxSpawns + 1
        /\ IsFiniteSet(Pids) /\ Cardinality(Pids) = MaxSpawns
    BY <2>2, FS_Interval DEF Fds, Pids
  <2>4. PICK f \in Fds, g \in Fds : f # g /\ open[f] = open[g]
    BY <2>1, <2>2, <2>3, FS_PigeonHole
  <2> QED BY <1>1, <2>4
<1> DEFINE S == {f \in Fds : open[f] = 0}
<1>3. S \in SUBSET Nat /\ S # {}
  BY <1>2 DEF Fds
<1> DEFINE R == {ss \in Nat \X Nat : ss[1] < ss[2]}
<1>4. PICK f \in S : \A g \in S : <<g, f>> \notin R
  <2>1. IsWellFoundedOn(R, Nat)
    BY NatLessThanWellFounded, Zenon DEF OpToRel
  <2> HIDE DEF S, R
  <2> QED BY <1>3, <2>1, WFMin
<1>5. \E h \in Fds : open[h] = 0 /\ \A g \in Fds : open[g] = 0 => h <= g
  <2>1. f \in Nat /\ \A g \in S : g \in Nat
    BY <1>3
  <2>2. ASSUME NEW g \in S PROVE f <= g
    <3>1. f \in Nat /\ g \in Nat /\ ~(<<g, f>> \in R)
      BY <1>4, <2>1
    <3>2. ~(g < f)
      BY <3>1
    <3> QED BY <3>1, <3>2
  <2>3. f \in Fds /\ open[f] = 0
    OBVIOUS
  <2>4. \A g \in Fds : open[g] = 0 => f <= g
    BY <2>2
  <2> QED BY <2>3, <2>4
<1> QED BY <1>5 DEF FreeFd
------------------------------------------------------------------------------
(* The types.                                                              *)

\* What control_loop reads next names a session.
LEMMA AskedIs ==
    ASSUME TypeInv, requests # << >>
    PROVE  Asked \in SessionIds /\ Tail(requests) \in Seq(Messages)
<1>1. Head(requests) \in Messages /\ Tail(requests) \in Seq(Messages)
  BY HeadTailProperties DEF TypeInv
<1> QED BY <1>1 DEF Asked, Messages

\* What is answered is an answer.
LEMMA ReplyIs ==
    ASSUME TypeInv, NEW t \in {"ready", "closed"}, NEW s \in SessionIds, Reply(t, s)
    PROVE  replies' \in Seq(Answers)
<1>1. [t |-> t, session |-> s] \in Answers
  BY DEF Answers
<1> QED BY <1>1, AppendProperties DEF TypeInv, Reply

\* A shell that leaves the map leaves the others.
LEMMA ActiveShrinks ==
    ASSUME TypeInv, NEW s \in SessionIds, shells' = [shells EXCEPT ![s] = None]
    PROVE  IsFiniteSet(Active') /\ Cardinality(Active') <= MaxShells
<1>1. Active' \in SUBSET Active
  BY DEF Active, TypeInv, TypeOK
<1>2. IsFiniteSet(Active') /\ Cardinality(Active') <= Cardinality(Active)
  BY <1>1, FS_Subset DEF TypeInv
<1>3. Cardinality(Active') \in Nat /\ Cardinality(Active) \in Nat
  BY <1>2, FS_CardinalityType DEF TypeInv
<1> QED BY <1>2, <1>3, ShellsAssumption DEF TypeInv, TypeOK

\* A shell that enters the map respects the cap.
LEMMA ActiveGrows ==
    ASSUME TypeInv, NEW s \in SessionIds, NEW x, ~CapReached, shells' = [shells EXCEPT ![s] = x]
    PROVE  IsFiniteSet(Active') /\ Cardinality(Active') <= MaxShells
<1>1. Active' \in SUBSET (Active \cup {s})
  BY DEF Active, TypeInv, TypeOK
<1>2. /\ IsFiniteSet(Active \cup {s})
      /\ Cardinality(Active \cup {s}) <= Cardinality(Active) + 1
      /\ Cardinality(Active) \in Nat
  <2>1. IsFiniteSet(Active)
    BY DEF TypeInv
  <2>2. Cardinality(Active) \in Nat
    BY <2>1, FS_CardinalityType
  <2>3. /\ IsFiniteSet(Active \cup {s})
        /\ Cardinality(Active \cup {s}) = IF s \in Active THEN Cardinality(Active) ELSE Cardinality(Active) + 1
    BY ONLY <2>1, FS_AddElement
  <2> QED BY <2>2, <2>3
<1>3. IsFiniteSet(Active') /\ Cardinality(Active') <= Cardinality(Active \cup {s})
  BY <1>1, <1>2, FS_Subset
<1>4. Cardinality(Active') \in Nat /\ Cardinality(Active \cup {s}) \in Nat
  BY <1>2, <1>3, FS_CardinalityType
<1> QED BY <1>2, <1>3, <1>4, ShellsAssumption DEF CapReached

\* A step that leaves the shells alone leaves the cap alone.
LEMMA ActiveStays ==
    ASSUME TypeInv, shells' = shells
    PROVE  IsFiniteSet(Active') /\ Cardinality(Active') <= MaxShells
<1>1. Active' = Active
  BY DEF Active
<1> QED BY <1>1 DEF TypeInv, TypeOK

\* The snapshot pairs sessions with descriptors.
LEMMA SnapshotIs ==
    ASSUME TypeInv
    PROVE  Snapshot \subseteq SessionIds \X Fds
<1> SUFFICES ASSUME NEW s \in Active PROVE <<s, shells[s].fd>> \in SessionIds \X Fds
  BY DEF Snapshot
<1>1. s \in SessionIds /\ shells[s] \in Shell
  BY DEF Active, TypeInv, TypeOK
<1> QED BY <1>1 DEF Shell

\* Every step keeps the types.
LEMMA TypeStep == IInv /\ [Next]_vars => TypeInv'
<1> SUFFICES ASSUME IInv, [Next]_vars PROVE TypeInv'
  OBVIOUS
<1>0. TypeInv /\ TypeOK
  BY DEF IInv, TypeInv
<1> USE ShellsAssumption
<1>1. CASE UNCHANGED vars
  <2>1. IsFiniteSet(Active') /\ Cardinality(Active') <= MaxShells
    BY <1>0, <1>1, ActiveStays DEF vars
  <2> QED BY <1>0, <1>1, <2>1 DEF vars, TypeInv, TypeOK
<1>2. ASSUME NEW s \in SessionIds, HostSpawn(s) \/ HostClose(s) PROVE TypeInv'
  <2>1. IsFiniteSet(Active') /\ Cardinality(Active') <= MaxShells
    BY <1>0, <1>2, ActiveStays DEF HostSpawn, HostClose
  <2>2. requests' \in Seq(Messages) /\ requests' # << >>
    <3>1. PICK m \in Messages : requests' = Append(requests, m)
      BY <1>2 DEF HostSpawn, HostClose, Request, Messages
    <3> QED BY <1>0, <3>1, AppendProperties DEF TypeInv
  <2> QED BY <1>0, <1>2, <2>1, <2>2 DEF HostSpawn, HostClose, TypeInv, TypeOK
<1>3. ASSUME NEW s \in SessionIds, InputLookup(s) \/ ShellExits(s) PROVE TypeInv'
  <2>1. IsFiniteSet(Active') /\ Cardinality(Active') <= MaxShells
    BY <1>0, <1>3, ActiveStays DEF InputLookup, ShellExits
  <2> QED BY <1>0, <1>3, <2>1 DEF InputLookup, ShellExits, TypeInv, TypeOK, Shell
<1>4. CASE HostReply
  <2>1. IsFiniteSet(Active') /\ Cardinality(Active') <= MaxShells
    BY <1>0, <1>4, ActiveStays DEF HostReply
  <2>2. Head(replies) \in Answers /\ replies' \in Seq(Answers)
    BY <1>0, <1>4, HeadTailProperties DEF HostReply, TypeInv
  <2>3. queues' \subseteq SessionIds
    BY <1>0, <1>4, <2>2 DEF HostReply, Answers, TypeOK
  <2> QED BY <1>0, <1>4, <2>1, <2>2, <2>3 DEF HostReply, TypeInv, TypeOK
<1>5. ASSUME SpawnRefused \/ SpawnFails \/ CloseUnknown PROVE TypeInv'
  <2>1. IsFiniteSet(Active') /\ Cardinality(Active') <= MaxShells
    BY <1>0, <1>5, ActiveStays DEF SpawnRefused, SpawnFails, CloseUnknown
  <2>2. control = None /\ requests # << >> /\ requests' = Tail(requests)
    BY <1>5 DEF SpawnRefused, SpawnFails, CloseUnknown, Pending
  <2>3. Asked \in SessionIds /\ requests' \in Seq(Messages)
    BY <1>0, <2>2, AskedIs
  <2>4. replies' \in Seq(Answers)
    BY <1>0, <1>5, <2>3, ReplyIs DEF SpawnRefused, SpawnFails, CloseUnknown, TypeInv
  <2> QED BY <1>0, <1>5, <2>1, <2>2, <2>3, <2>4
             DEF SpawnRefused, SpawnFails, CloseUnknown, TypeInv, TypeOK
<1>6. CASE SpawnShell
  <2>1. control = None /\ requests # << >> /\ requests' = Tail(requests)
    BY <1>6 DEF SpawnShell, Pending
  <2>2. Asked \in SessionIds /\ requests' \in Seq(Messages)
    BY <1>0, <2>1, AskedIs
  <2>3. replies' \in Seq(Answers)
    BY <1>0, <1>6, <2>2, ReplyIs DEF SpawnShell
  <2>4. FreeFd \in Fds
    BY FreeFdExists
  <2>5. spawned + 1 \in Pids
    BY <1>0, <1>6 DEF SpawnShell, TypeOK, Pids
  <2>6. shells' \in [SessionIds -> Shell \cup {None}]
    BY <1>0, <1>6, <2>2, <2>4, <2>5 DEF SpawnShell, TypeOK, Shell
  <2>7. open' \in [Fds -> 0..MaxSpawns]
    BY <1>0, <1>6, <2>4, <2>5 DEF SpawnShell, TypeOK, Pids
  <2>8. IsFiniteSet(Active') /\ Cardinality(Active') <= MaxShells
    BY <1>0, <1>6, <2>2, ActiveGrows DEF SpawnShell
  <2> QED BY <1>0, <1>6, <2>1, <2>2, <2>3, <2>5, <2>6, <2>7, <2>8
             DEF SpawnShell, TypeInv, TypeOK
<1>7. CASE CloseRemove
  <2>1. control = None /\ requests # << >> /\ Asked \in SessionIds
    BY <1>0, <1>7, AskedIs DEF CloseRemove, Pending
  <2>2. IsFiniteSet(Active') /\ Cardinality(Active') <= MaxShells
    BY <1>0, <1>7, <2>1, ActiveShrinks DEF CloseRemove
  <2>3. shells[Asked] \in Shell
    BY <1>0, <1>7, <2>1 DEF CloseRemove, TypeOK
  <2> QED BY <1>0, <1>7, <2>1, <2>2, <2>3 DEF CloseRemove, TypeInv, TypeOK, Shell
<1>8. CASE CloseFinish
  <2>1. requests # << >> /\ Asked \in SessionIds /\ requests' \in Seq(Messages)
    BY <1>0, <1>8, AskedIs DEF CloseFinish, TypeInv
  <2>2. replies' \in Seq(Answers)
    BY <1>0, <1>8, <2>1, ReplyIs DEF CloseFinish
  <2>3. IsFiniteSet(Active') /\ Cardinality(Active') <= MaxShells
    BY <1>0, <1>8, ActiveStays DEF CloseFinish
  <2> QED BY <1>0, <1>8, <2>1, <2>2, <2>3
             DEF CloseFinish, Closed, TypeInv, TypeOK, Shell
<1>9. CASE BridgeDrain
  <2>1. IsFiniteSet(Active') /\ Cardinality(Active') <= MaxShells
    BY <1>0, <1>9, ActiveStays DEF BridgeDrain
  <2> QED BY <1>0, <1>9, <2>1, SnapshotIs DEF BridgeDrain, TypeInv, TypeOK
<1>10. CASE BridgePoll
  <2>1. IsFiniteSet(Active') /\ Cardinality(Active') <= MaxShells
    BY <1>0, <1>10, ActiveStays DEF BridgePoll
  <2>2. \A e \in fds : e \in SessionIds \X Fds /\ e[1] \in SessionIds
    BY <1>0 DEF TypeOK
  <2>3. bridge' \in Bridge
    BY <1>10, <2>2 DEF BridgePoll, Bridge
  <2> QED BY <1>0, <1>10, <2>1, <2>3 DEF BridgePoll, Bridge, TypeInv, TypeOK
<1>11. ASSUME NEW e \in bridge.ready, BridgeRead(e) PROVE TypeInv'
  <2>1. IsFiniteSet(Active') /\ Cardinality(Active') <= MaxShells
    BY <1>0, <1>11, ActiveStays DEF BridgeRead
  <2>2. e[1] \in SessionIds /\ e[2] \in Fds
    BY <1>0 DEF TypeOK
  <2>3. bridge' \in Bridge
    BY <1>0, <1>11, <2>2 DEF BridgeRead, Bridge, TypeOK
  <2>4. frame' \in [session : SessionIds, pid : Pids] \cup {NoFrame}
    BY <1>0, <1>11, <2>2 DEF BridgeRead, TypeOK, Pids
  <2> QED BY <1>0, <1>11, <2>1, <2>3, <2>4 DEF BridgeRead, Bridge, TypeInv, TypeOK
<1>12. ASSUME NEW s \in bridge.closed, BridgeRemove(s) PROVE TypeInv'
  <2>1. s \in SessionIds /\ shells[s] \in Shell
    BY <1>0, <1>12 DEF BridgeRemove, TypeOK
  <2>2. IsFiniteSet(Active') /\ Cardinality(Active') <= MaxShells
    BY <1>0, <1>12, <2>1, ActiveShrinks DEF BridgeRemove
  <2>3. bridge' \in Bridge
    BY <1>0, <1>12, <2>1 DEF BridgeRemove, Bridge, TypeOK
  <2> QED BY <1>0, <1>12, <2>1, <2>2, <2>3 DEF BridgeRemove, Bridge, TypeInv, TypeOK, Shell
<1>13. ASSUME NEW s \in bridge.closed, BridgeSkip(s) PROVE TypeInv'
  <2>1. IsFiniteSet(Active') /\ Cardinality(Active') <= MaxShells
    BY <1>0, <1>13, ActiveStays DEF BridgeSkip
  <2>2. bridge' \in Bridge
    BY <1>0, <1>13 DEF BridgeSkip, Bridge, TypeOK
  <2> QED BY <1>0, <1>13, <2>1, <2>2, SnapshotIs DEF BridgeSkip, Bridge, TypeInv, TypeOK
<1>14. CASE BridgeClose
  <2>1. IsFiniteSet(Active') /\ Cardinality(Active') <= MaxShells
    BY <1>0, <1>14, ActiveStays DEF BridgeClose
  <2>2. bridge' \in Bridge
    BY <1>0, <1>14 DEF BridgeClose, Bridge, TypeOK
  <2>3. open' \in [Fds -> 0..MaxSpawns]
    BY <1>0, <1>14 DEF BridgeClose, Closed, TypeOK, Shell
  <2> QED BY <1>0, <1>14, <2>1, <2>2, <2>3, SnapshotIs DEF BridgeClose, Bridge, TypeInv, TypeOK
<1>15. CASE BridgeNext
  <2>1. IsFiniteSet(Active') /\ Cardinality(Active') <= MaxShells
    BY <1>0, <1>15, ActiveStays DEF BridgeNext
  <2> QED BY <1>0, <1>15, <2>1 DEF BridgeNext, AtRest, TypeInv, TypeOK
<1>16. CASE InputWrite
  <2>1. IsFiniteSet(Active') /\ Cardinality(Active') <= MaxShells
    BY <1>0, <1>16, ActiveStays DEF InputWrite
  <2> QED BY <1>0, <1>16, <2>1 DEF InputWrite, TypeInv, TypeOK
<1> QED BY <1>1, <1>2, <1>3, <1>4, <1>5, <1>6, <1>7, <1>8, <1>9, <1>10, <1>11, <1>12, <1>13,
           <1>14, <1>15, <1>16 DEF Next, ControlStep, BridgeStep
------------------------------------------------------------------------------
(* Who holds which shell.                                                  *)

\* A step that moves no shell and no descriptor.
LEMMA NothingMoves ==
    ASSUME Holdings, UNCHANGED <<shells, control, open, spawned>>, bridge'.shell = bridge.shell
    PROVE  Holdings'
  BY DEF Holdings, PidsDistinct, HoldersOpen, HeldFd

\* The shell of a session passes from the map to control_loop.
LEMMA TakenByControl ==
    ASSUME IInv, CloseRemove PROVE Holdings'
<1>1. Asked \in SessionIds /\ control = None
  BY AskedIs DEF IInv, CloseRemove, Pending
<1>2. /\ shells' = [shells EXCEPT ![Asked] = None] /\ control' = shells[Asked] /\ shells[Asked] # None
      /\ open' = open /\ spawned' = spawned /\ bridge' = bridge
  BY DEF CloseRemove
<1>3. shells \in [SessionIds -> Shell \cup {None}] /\ bridge.shell \in Shell \cup {None}
  BY DEF IInv, TypeInv, TypeOK
<1> DEFINE a == Asked
<1>4. \A s \in SessionIds : shells'[s] = IF s = a THEN None ELSE shells[s]
  BY <1>1, <1>2, <1>3
<1>5. control' = shells[a] /\ shells[a] # None /\ a \in SessionIds
  BY <1>1, <1>2
<1> HIDE DEF a
<1>6. PidsDistinct'
  BY <1>2, <1>3, <1>4, <1>5, NoneIsNoShell DEF IInv, Holdings, PidsDistinct, Shell, Pids
<1>7. HoldersOpen'
  BY <1>2, <1>4, <1>5 DEF IInv, Holdings, HoldersOpen
<1>8. ASSUME NEW f \in Fds, open'[f] # 0 PROVE HeldFd(f)'
  <2>1. HeldFd(f)
    BY <1>2, <1>8 DEF IInv, Holdings
  <2> QED BY <1>1, <1>2, <1>4, <1>5, <2>1 DEF HeldFd
<1> QED BY <1>2, <1>6, <1>7, <1>8 DEF IInv, Holdings

\* The shell of a session passes from the map to the bridge.
LEMMA TakenByBridge ==
    ASSUME IInv, NEW a \in bridge.closed, BridgeRemove(a) PROVE Holdings'
<1>1. a \in SessionIds /\ bridge.shell = None
  BY DEF IInv, TypeInv, TypeOK, BridgeRemove, Reaping
<1>2. /\ shells' = [shells EXCEPT ![a] = None] /\ bridge'.shell = shells[a] /\ shells[a] # None
      /\ open' = open /\ spawned' = spawned /\ control' = control
  BY DEF IInv, TypeInv, TypeOK, BridgeRemove
<1>3. shells \in [SessionIds -> Shell \cup {None}] /\ control \in Shell \cup {None}
  BY DEF IInv, TypeInv, TypeOK
<1>4. \A s \in SessionIds : shells'[s] = IF s = a THEN None ELSE shells[s]
  BY <1>1, <1>2, <1>3
<1>5. PidsDistinct'
  BY <1>1, <1>2, <1>3, <1>4, NoneIsNoShell DEF IInv, Holdings, PidsDistinct, Shell, Pids
<1>6. HoldersOpen'
  BY <1>1, <1>2, <1>4 DEF IInv, Holdings, HoldersOpen
<1>7. ASSUME NEW f \in Fds, open'[f] # 0 PROVE HeldFd(f)'
  <2>1. HeldFd(f)
    BY <1>2, <1>7 DEF IInv, Holdings
  <2> QED BY <1>1, <1>2, <1>4, <2>1 DEF HeldFd
<1> QED BY <1>2, <1>5, <1>6, <1>7 DEF IInv, Holdings

\* control_loop closes the descriptor of its shell, which is nobody else's.
LEMMA ClosedByControl ==
    ASSUME IInv, CloseFinish PROVE Holdings'
<1>1. /\ control # None /\ control' = None /\ open' = [open EXCEPT ![control.fd] = 0]
      /\ shells' = shells /\ spawned' = spawned /\ bridge' = bridge
  BY DEF CloseFinish, Closed
<1>2. /\ shells \in [SessionIds -> Shell \cup {None}] /\ bridge.shell \in Shell \cup {None}
      /\ control \in Shell /\ open \in [Fds -> 0..MaxSpawns] /\ spawned \in Nat
  BY <1>1 DEF IInv, TypeInv, TypeOK, Pids
<1>3. control.fd \in Fds /\ \A f \in Fds : open'[f] = IF f = control.fd THEN 0 ELSE open[f]
  BY <1>1, <1>2 DEF Shell
<1>4. /\ \A s \in SessionIds : shells[s] # None => shells[s].fd \in Fds /\ shells[s].fd # control.fd
      /\ bridge.shell # None => bridge.shell.fd \in Fds /\ bridge.shell.fd # control.fd
  BY <1>1, <1>2 DEF IInv, Holdings, HoldersOpen, PidsDistinct, Shell
<1>5. PidsDistinct'
  BY <1>1, <1>2, NoneIsNoShell DEF IInv, Holdings, PidsDistinct, Shell, Pids
<1>6. HoldersOpen'
  BY <1>1, <1>3, <1>4 DEF IInv, Holdings, HoldersOpen
<1>7. ASSUME NEW f \in Fds, open'[f] # 0 PROVE HeldFd(f)'
  <2>1. HeldFd(f) /\ f # control.fd
    BY <1>3, <1>7 DEF IInv, Holdings
  <2> QED BY <1>1, <2>1 DEF HeldFd
<1>8. \A f \in Fds : open'[f] <= spawned'
  BY <1>1, <1>2, <1>3 DEF IInv, Holdings
<1> QED BY <1>5, <1>6, <1>7, <1>8 DEF Holdings

\* So does the bridge.
LEMMA ClosedByBridge ==
    ASSUME IInv, BridgeClose PROVE Holdings'
<1>1. /\ bridge.shell # None /\ bridge'.shell = None /\ open' = [open EXCEPT ![bridge.shell.fd] = 0]
      /\ shells' = shells /\ spawned' = spawned /\ control' = control
  BY DEF IInv, TypeInv, TypeOK, BridgeClose, Closed
<1>2. /\ shells \in [SessionIds -> Shell \cup {None}] /\ control \in Shell \cup {None}
      /\ bridge.shell \in Shell /\ open \in [Fds -> 0..MaxSpawns] /\ spawned \in Nat
  BY <1>1 DEF IInv, TypeInv, TypeOK, Pids
<1>3. bridge.shell.fd \in Fds /\ \A f \in Fds : open'[f] = IF f = bridge.shell.fd THEN 0 ELSE open[f]
  BY <1>1, <1>2 DEF Shell
<1>4. /\ \A s \in SessionIds : shells[s] # None => shells[s].fd \in Fds /\ shells[s].fd # bridge.shell.fd
      /\ control # None => control.fd \in Fds /\ control.fd # bridge.shell.fd
  BY <1>1, <1>2 DEF IInv, Holdings, HoldersOpen, PidsDistinct, Shell
<1>5. PidsDistinct'
  BY <1>1, <1>2, NoneIsNoShell DEF IInv, Holdings, PidsDistinct, Shell, Pids
<1>6. HoldersOpen'
  BY <1>1, <1>3, <1>4 DEF IInv, Holdings, HoldersOpen
<1>7. ASSUME NEW f \in Fds, open'[f] # 0 PROVE HeldFd(f)'
  <2>1. HeldFd(f) /\ f # bridge.shell.fd
    BY <1>3, <1>7 DEF IInv, Holdings
  <2> QED BY <1>1, <2>1 DEF HeldFd
<1>8. \A f \in Fds : open'[f] <= spawned'
  BY <1>1, <1>2, <1>3 DEF IInv, Holdings
<1> QED BY <1>5, <1>6, <1>7, <1>8 DEF Holdings

\* A new shell has a new process and a descriptor that nobody holds.
LEMMA NewShell ==
    ASSUME IInv, SpawnShell PROVE Holdings'
<1> DEFINE a == Asked
           fd == FreeFd
           p == spawned + 1
<1>1. a \in SessionIds /\ shells[a] = None
  BY AskedIs DEF IInv, SpawnShell, Pending
<1>2. fd \in Fds /\ open[fd] = 0
  BY FreeFdExists
<1>3. /\ shells' = [shells EXCEPT ![a] = [pid |-> p, fd |-> fd]] /\ open' = [open EXCEPT ![fd] = p]
      /\ spawned' = p /\ control' = control /\ bridge' = bridge
  BY DEF SpawnShell
<1>4. /\ shells \in [SessionIds -> Shell \cup {None}] /\ control \in Shell \cup {None}
      /\ bridge.shell \in Shell \cup {None} /\ open \in [Fds -> 0..MaxSpawns]
      /\ spawned \in Nat /\ p \in Nat /\ p > spawned /\ p # 0
  BY DEF IInv, TypeInv, TypeOK, Pids
<1> HIDE DEF a, fd, p
<1>5. /\ \A s \in SessionIds \ {a} : shells'[s] = shells[s]
      /\ shells'[a].pid = p /\ shells'[a].fd = fd
      /\ \A f \in Fds : open'[f] = IF f = fd THEN p ELSE open[f]
  BY <1>1, <1>2, <1>3, <1>4
<1>6. shells'[a] # None
  BY <1>4, <1>5, NoneIsNoShell
<1>7. ASSUME NEW x \in Shell, open[x.fd] = x.pid PROVE x.fd # fd /\ x.fd \in Fds /\ x.pid < p /\ x.pid \in Nat
  <2>1. x.pid \in Nat /\ x.pid # 0 /\ x.fd \in Fds
    BY DEF Shell, Pids
  <2>2. x.pid <= spawned
    BY <1>7, <2>1 DEF IInv, Holdings
  <2> QED BY <1>2, <1>4, <1>7, <2>1, <2>2
<1>8. /\ \A s \in SessionIds : shells[s] # None => shells[s].fd # fd /\ shells[s].fd \in Fds /\ shells[s].pid # p
      /\ control # None => control.fd # fd /\ control.fd \in Fds /\ control.pid # p
      /\ bridge.shell # None => bridge.shell.fd # fd /\ bridge.shell.fd \in Fds /\ bridge.shell.pid # p
  <2>1. ASSUME NEW x \in Shell, open[x.fd] = x.pid PROVE x.fd # fd /\ x.fd \in Fds /\ x.pid # p
    BY <1>4, <1>7, <2>1
  <2> QED BY <1>4, <2>1 DEF IInv, Holdings, HoldersOpen
<1>9. PidsDistinct'
  <2>1. \A x \in {control, bridge.shell} : x.pid # p
    BY <1>4, <1>8, NoneIsNoShell
  <2>2. ASSUME NEW s \in SessionIds, NEW t \in SessionIds, s # t, shells'[s] # None
        PROVE  shells'[s].pid # shells'[t].pid
    <3>1. \A r \in SessionIds : shells[r].pid # p
      BY <1>4, <1>8, NoneIsNoShell
    <3> QED BY <1>5, <2>2, <3>1 DEF IInv, Holdings, PidsDistinct
  <2>3. ASSUME NEW s \in SessionIds, shells'[s] # None
        PROVE  shells'[s].pid \notin {control'.pid, bridge'.shell.pid}
    BY <1>3, <1>5, <2>1, <2>3 DEF IInv, Holdings, PidsDistinct
  <2> QED BY <1>3, <2>2, <2>3 DEF IInv, Holdings, PidsDistinct
<1>10. HoldersOpen'
  BY <1>2, <1>3, <1>5, <1>8 DEF IInv, Holdings, HoldersOpen
<1>11. ASSUME NEW f \in Fds, open'[f] # 0 PROVE HeldFd(f)'
  <2>1. CASE f = fd
    BY <1>1, <1>5, <1>6, <2>1 DEF HeldFd
  <2>2. CASE f # fd
    <3>1. HeldFd(f)
      BY <1>5, <1>11, <2>2 DEF IInv, Holdings
    <3> QED BY <1>1, <1>3, <1>5, <3>1 DEF HeldFd
  <2> QED BY <2>1, <2>2
<1>12. \A f \in Fds : open'[f] <= spawned'
  BY <1>3, <1>4, <1>5 DEF IInv, Holdings
<1> QED BY <1>9, <1>10, <1>11, <1>12 DEF Holdings

\* Every step keeps the invariant.
LEMMA InvStep == IInv /\ [Next]_vars => IInv'
<1> SUFFICES ASSUME IInv, [Next]_vars PROVE BridgeIdle' /\ Holdings'
  BY TypeStep DEF IInv
<1>0. bridge \in Bridge
  BY DEF IInv, TypeInv, TypeOK, Bridge
<1>1. CASE UNCHANGED <<shells, control, open, spawned, bridge>>
  BY <1>1, NothingMoves DEF IInv, BridgeIdle
<1>2. CASE SpawnShell
  BY <1>2, NewShell DEF IInv, BridgeIdle, SpawnShell
<1>3. CASE CloseRemove
  BY <1>3, TakenByControl DEF IInv, BridgeIdle, CloseRemove
<1>4. CASE CloseFinish
  BY <1>4, ClosedByControl DEF IInv, BridgeIdle, CloseFinish
<1>5. CASE BridgeDrain
  <2>1. bridge'.shell = bridge.shell /\ BridgeIdle'
    BY <1>0, <1>5 DEF IInv, BridgeIdle, BridgeDrain, Bridge
  <2> QED BY <1>5, <2>1, NothingMoves DEF IInv, BridgeDrain
<1>6. CASE BridgePoll
  <2>1. bridge'.shell = bridge.shell /\ bridge'.pc = "read"
    BY <1>6 DEF IInv, BridgeIdle, BridgePoll
  <2> QED BY <1>6, <2>1, NothingMoves DEF IInv, BridgeIdle, BridgePoll
<1>7. ASSUME NEW e \in bridge.ready, BridgeRead(e) PROVE BridgeIdle' /\ Holdings'
  <2>1. bridge'.shell = bridge.shell /\ bridge'.pc = bridge.pc /\ bridge.pc = "read"
    BY <1>0, <1>7 DEF IInv, BridgeIdle, BridgeRead, Bridge
  <2> QED BY <1>7, <2>1, NothingMoves DEF IInv, BridgeIdle, BridgeRead
<1>8. ASSUME NEW s \in bridge.closed, BridgeRemove(s) PROVE BridgeIdle' /\ Holdings'
  <2>1. bridge'.pc = bridge.pc /\ bridge.pc = "read"
    BY <1>0, <1>8 DEF IInv, BridgeIdle, BridgeRemove, Bridge
  <2> QED BY <1>8, <2>1, TakenByBridge DEF BridgeIdle
<1>9. ASSUME NEW s \in bridge.closed, BridgeSkip(s) PROVE BridgeIdle' /\ Holdings'
  <2>1. bridge'.shell = bridge.shell /\ bridge'.pc = bridge.pc /\ bridge.pc = "read"
    BY <1>0, <1>9 DEF IInv, BridgeIdle, BridgeSkip, Bridge
  <2> QED BY <1>9, <2>1, NothingMoves DEF IInv, BridgeIdle, BridgeSkip
<1>10. CASE BridgeClose
  <2>1. bridge'.pc = bridge.pc /\ bridge.pc = "read"
    BY <1>0, <1>10 DEF IInv, BridgeIdle, BridgeClose, Bridge
  <2> QED BY <1>10, <2>1, ClosedByBridge DEF BridgeIdle
<1>11. CASE BridgeNext
  <2>1. bridge'.shell = bridge.shell /\ BridgeIdle'
    BY <1>11 DEF BridgeNext, AtRest, BridgeIdle
  <2> QED BY <1>11, <2>1, NothingMoves DEF IInv, BridgeNext
<1>12. ASSUME \/ UNCHANGED vars \/ HostReply \/ InputWrite
              \/ SpawnRefused \/ SpawnFails \/ CloseUnknown
              \/ \E s \in SessionIds : HostSpawn(s) \/ HostClose(s) \/ InputLookup(s) \/ ShellExits(s)
       PROVE  UNCHANGED <<shells, control, open, spawned, bridge>>
  BY <1>12 DEF vars, HostReply, InputWrite, SpawnRefused, SpawnFails, CloseUnknown,
               HostSpawn, HostClose, InputLookup, ShellExits
<1> QED BY <1>1, <1>2, <1>3, <1>4, <1>5, <1>6, <1>7, <1>8, <1>9, <1>10, <1>11, <1>12
           DEF Next, ControlStep, BridgeStep

\* The agent starts with the default shell, on the first descriptor.
LEMMA InvInitially == Init => IInv
<1> SUFFICES ASSUME Init PROVE IInv
  OBVIOUS
<1> USE ShellsAssumption
<1>1. 1 \in Pids /\ 1 \in Fds /\ Default \in SessionIds
  BY DEF Pids, Fds
<1>2. [pid |-> 1, fd |-> 1] \in Shell /\ [pid |-> 1, fd |-> 1] # None
  BY <1>1 DEF Shell, None
<1>3. Active = {Default}
  BY <1>1, <1>2 DEF Init, Active
<1>4. IsFiniteSet(Active) /\ Cardinality(Active) <= MaxShells
  <2>1. IsFiniteSet({Default}) /\ Cardinality({Default}) = 1
    BY FS_Singleton
  <2> QED BY <1>3, <2>1
<1>5. TypeOK
  <2>1. shells \in [SessionIds -> Shell \cup {None}] /\ open \in [Fds -> 0..MaxSpawns]
    BY <1>2 DEF Init
  <2>2. bridge \in Bridge
    BY DEF Init, AtRest, Bridge
  <2>3. spawned \in Pids /\ exited \subseteq Pids /\ control \in Shell \cup {None} /\ changes \in BOOLEAN
    BY <1>1 DEF Init
  <2>4. /\ fds \subseteq SessionIds \X Fds /\ frame \in [session : SessionIds, pid : Pids] \cup {NoFrame}
        /\ input \in Shell \cup {None} /\ queues \subseteq SessionIds
    BY <1>1 DEF Init
  <2> QED BY <1>4, <2>1, <2>2, <2>3, <2>4 DEF TypeOK, Bridge
<1>6. TypeInv
  BY <1>4, <1>5 DEF Init, TypeInv
<1>7. BridgeIdle
  BY DEF Init, AtRest, BridgeIdle
<1>8. Holdings
  <2>1. /\ \A s \in SessionIds : shells[s] = IF s = Default THEN [pid |-> 1, fd |-> 1] ELSE None
        /\ \A f \in Fds : open[f] = IF f = 1 THEN 1 ELSE 0
        /\ control = None /\ bridge.shell = None /\ spawned = 1
    BY DEF Init, AtRest
  <2>2. PidsDistinct /\ HoldersOpen
    BY <1>1, <1>2, <2>1, NoneIsNoShell DEF PidsDistinct, HoldersOpen
  <2>3. \A f \in Fds : open[f] # 0 => HeldFd(f)
    BY <1>1, <1>2, <2>1 DEF HeldFd
  <2> QED BY <2>1, <2>2, <2>3 DEF Holdings
<1> QED BY <1>6, <1>7, <1>8 DEF IInv

\* The state of the agent keeps its type and never holds more than MAX_SHELLS
\* shells, for any number of sessions and requests.
THEOREM ShellsTyped == Spec => []TypeOK
<1>1. IInv => TypeOK
  BY DEF IInv, TypeInv
<1> QED BY <1>1, InvInitially, InvStep, PTL DEF Spec

\* Each descriptor is open exactly as long as one holder, the map, control_loop
\* or the bridge, has its shell: none is closed twice, closed under another
\* shell that got its number, or leaked, however the two threads interleave.
THEOREM DescriptorsHeldOnce == Spec => []DescriptorsOwned
  BY OwnedFromInvariant, InvInitially, InvStep, PTL DEF Spec

------------------------------------------------------------------------------
(* Ports.                                                                  *)

Reports == [kind : {"opened", "closed", "snapshot"}, ports : SUBSET GuestPorts]
Loop == [pc : {"none", "accept", "relay"}, port : GuestPorts \cup {"none"}, client : Clients \cup {"none"}]
Command ==
    [kind : {"none", "forward", "stop", "proxy"}, port : GuestPorts \cup {"none"}, host : HostPorts \cup {"none"},
     pc : {"idle", "bind", "insert", "retain", "bindproxy"}]
Entry == [port : GuestPorts, host : HostPorts]

\* The types of what the watcher reports and the host shows.
WatchTypes ==
    /\ wire \in Seq(Reports)
    /\ listening \subseteq GuestPorts /\ known \subseteq GuestPorts /\ detected \subseteq GuestPorts

\* The types of the rest; a loop and a command on its way have their ports.
LoopTypes ==
    /\ accepting \in [HostPorts -> Loop]
    /\ command \in [Tabs -> Command]
    /\ forwarded \subseteq Entry
    /\ handles \in [GuestPorts -> HostPorts \cup {"none"}]
    /\ proxies \in [GuestPorts -> HostPorts \cup {"none"}]
    /\ \A h \in HostPorts : accepting[h].pc # "none" => accepting[h].port \in GuestPorts
    /\ \A k \in Tabs : /\ command[k].pc = "idle" <=> command[k].port = "none"
                       /\ command[k].pc \in {"bind", "insert"} => command[k].host \in HostPorts

\* The last report of a port among those on the way says whether it is one of K,
\* and where there is none it is one of D.
Mentions(m, p) == m.kind \in {"opened", "closed"} /\ p \in m.ports
Tells(w, p, K, D) ==
    /\ \A i \in 1..Len(w) : Mentions(w[i], p) /\ (\A j \in (i + 1)..Len(w) : ~Mentions(w[j], p)) =>
                                (p \in K <=> w[i].kind = "opened")
    /\ (\A i \in 1..Len(w) : ~Mentions(w[i], p)) => (p \in K <=> p \in D)

\* The watcher's ports are those that the host shows when it has read everything.
ReportsTell == watched => \A p \in GuestPorts : Tells(wire, p, known, detected)

\* Two commands on one port have crossed.
CrossingsSeen ==
    \A k, l \in Tabs : k # l /\ command[k].port = command[l].port => command[k].port \in crossed \cup {"none"}

Runs(h, p) == accepting[h].pc # "none" /\ accepting[h].port = p
Inserts(k, h) == command[k].pc = "insert" /\ command[k].host = h

\* Whoever is to end a loop names one that runs for its port, or that failed; no
\* two of them name the same.
NamesTrue ==
    \A h \in HostPorts \ failed :
        /\ \A p \in GuestPorts : handles[p] = h \/ proxies[p] = h => Runs(h, p)
        /\ \A k \in Tabs : Inserts(k, h) => Runs(h, command[k].port)
        /\ \A p \in GuestPorts : ~(handles[p] = h /\ proxies[p] = h)
        /\ \A k, l \in Tabs : Inserts(k, h) /\ Inserts(l, h) => k = l
        /\ \A k \in Tabs, p \in GuestPorts : Inserts(k, h) => handles[p] # h /\ proxies[p] # h

\* What a command found on its port is so until it returns, unless it was crossed.
CommandsApart ==
    \A k \in Tabs : command[k].port \notin crossed =>
        /\ command[k].pc \in {"bind", "insert", "retain"} => handles[command[k].port] = "none"
        /\ command[k].pc = "bindproxy" => proxies[command[k].port] = "none"
        /\ command[k].pc = "insert" => [port |-> command[k].port, host |-> command[k].host] \in forwarded

\* A handle has its entry, an entry its loop, a loop somebody who can end it.
EntriesMatch ==
    /\ \A p \in GuestPorts \ crossed : handles[p] # "none" => [port |-> p, host |-> handles[p]] \in forwarded
    /\ \A e \in forwarded :
          \/ e.port \in crossed \/ e.host \in failed
          \/ (\E k \in Tabs : command[k].pc = "retain" /\ command[k].port = e.port)
          \/ /\ Runs(e.host, e.port)
             /\ handles[e.port] = e.host \/ \E k \in Tabs : Inserts(k, e.host)
    /\ \A h \in HostPorts : \/ accepting[h].pc = "none" \/ accepting[h].port \in crossed
                            \/ handles[accepting[h].port] = h \/ proxies[accepting[h].port] = h
                            \/ \E k \in Tabs : Inserts(k, h)

\* A loop that failed is not there.
FailedStopped == \A h \in HostPorts \cap failed : accepting[h].pc = "none"

WatchInv == WatchTypes /\ ReportsTell
LoopInv == LoopTypes /\ CrossingsSeen /\ FailedStopped /\ NamesTrue /\ CommandsApart /\ EntriesMatch

\* What the watcher sends comes last.
LEMMA SendsAppends ==
    ASSUME NEW w \in Seq(Reports), NEW kind, NEW ports, Message(kind, ports) \in Reports
    PROVE  /\ w \o Sends(kind, ports) = IF ports = {} THEN w ELSE Append(w, Message(kind, ports))
           /\ w \o Sends(kind, ports) \in Seq(Reports)
<1>1. w \o << >> = w
  BY ConcatEmptySeq
<1>2. /\ Append(w, Message(kind, ports)) = w \o <<Message(kind, ports)>>
      /\ Append(w, Message(kind, ports)) \in Seq(Reports)
  BY AppendIsConcat, AppendProperties
<1> QED
  BY <1>1, <1>2 DEF Sends

\* One more report on the way.
LEMMA TellsMore ==
    ASSUME NEW w \in Seq(Reports), NEW m \in Reports, NEW p, NEW K, NEW L, NEW D, Tells(w, p, K, D),
           Mentions(m, p) => (p \in L <=> m.kind = "opened"), ~Mentions(m, p) => (p \in L <=> p \in K)
    PROVE  Tells(Append(w, m), p, L, D)
<1> DEFINE v == Append(w, m)
           n == Len(w)
<1>1. n \in Nat /\ Len(v) = n + 1 /\ v[n + 1] = m /\ \A i \in 1..n : v[i] = w[i]
  OBVIOUS
<1> HIDE DEF v, n
<1>2. ASSUME NEW i \in 1..(n + 1), Mentions(v[i], p), \A j \in (i + 1)..(n + 1) : ~Mentions(v[j], p)
      PROVE  p \in L <=> v[i].kind = "opened"
  <2>1. CASE i = n + 1
    BY <1>1, <1>2, <2>1
  <2>2. CASE i \in 1..n
    <3>1. n + 1 \in (i + 1)..(n + 1) /\ \A j \in (i + 1)..n : j \in (i + 1)..(n + 1) /\ j \in 1..n
      BY <1>1, <2>2
    <3>2. ~Mentions(m, p) /\ Mentions(w[i], p) /\ \A j \in (i + 1)..n : ~Mentions(w[j], p)
      BY <1>1, <1>2, <2>2, <3>1
    <3> QED
      BY <1>1, <2>2, <3>2 DEF Tells, n
  <2> QED
    BY <1>1, <2>1, <2>2
<1>3. ASSUME \A i \in 1..(n + 1) : ~Mentions(v[i], p) PROVE p \in L <=> p \in D
  <2>1. ~Mentions(m, p) /\ \A i \in 1..n : ~Mentions(w[i], p)
    <3>1. n + 1 \in 1..(n + 1) /\ \A i \in 1..n : i \in 1..(n + 1)
      BY <1>1
    <3> QED
      BY <1>1, <1>3, <3>1
  <2> QED
    BY <2>1 DEF Tells, n
<1> QED
  BY <1>1, <1>2, <1>3 DEF Tells, v

\* The first report is read.
LEMMA TellsRest ==
    ASSUME NEW w \in Seq(Reports), w # << >>, NEW p, NEW K, NEW D, NEW E, Tells(w, p, K, D),
           Mentions(Head(w), p) => (p \in E <=> Head(w).kind = "opened"), ~Mentions(Head(w), p) => (p \in E <=> p \in D)
    PROVE  Tells(Tail(w), p, K, E)
<1> DEFINE v == Tail(w)
           n == Len(v)
<1>1. n \in Nat /\ Len(w) = n + 1 /\ w[1] = Head(w) /\ \A i \in 1..n : v[i] = w[i + 1]
  OBVIOUS
<1> HIDE DEF v, n
<1>2. ASSUME NEW i \in 1..n, Mentions(v[i], p), \A j \in (i + 1)..n : ~Mentions(v[j], p)
      PROVE  p \in K <=> v[i].kind = "opened"
  <2>1. i + 1 \in 1..Len(w) /\ w[i + 1] = v[i]
    BY <1>1
  <2>2. ASSUME NEW j \in (i + 1 + 1)..Len(w) PROVE ~Mentions(w[j], p)
    <3>1. j - 1 \in (i + 1)..n /\ j - 1 \in 1..n /\ (j - 1) + 1 = j
      BY <1>1
    <3>2. v[j - 1] = w[j]
      BY <1>1, <3>1
    <3> QED
      BY <1>2, <3>1, <3>2
  <2> QED
    BY <1>2, <2>1, <2>2 DEF Tells
<1>3. ASSUME \A i \in 1..n : ~Mentions(v[i], p) PROVE p \in K <=> p \in E
  <2>1. \A j \in 1..Len(w) : j = 1 \/ ~Mentions(w[j], p)
    <3> SUFFICES ASSUME NEW j \in 1..Len(w), j # 1 PROVE ~Mentions(w[j], p)
      OBVIOUS
    <3>1. j - 1 \in 1..n /\ (j - 1) + 1 = j
      BY <1>1
    <3>2. v[j - 1] = w[j]
      BY <1>1, <3>1
    <3> QED
      BY <1>3, <3>1, <3>2
  <2>2. 1 \in 1..Len(w) /\ \A j \in (1 + 1)..Len(w) : j \in 1..Len(w) /\ j # 1
    BY <1>1
  <2>3. CASE Mentions(Head(w), p)
    BY <1>1, <2>1, <2>2, <2>3 DEF Tells
  <2>4. CASE ~Mentions(Head(w), p)
    BY <1>1, <2>1, <2>4 DEF Tells
  <2> QED
    BY <2>3, <2>4
<1> QED
  BY <1>2, <1>3 DEF Tells, v, n

\* The watcher and the reports.
LEMMA WatchStep == WatchInv /\ [PortsNext]_portVars => WatchInv'
<1> SUFFICES ASSUME WatchInv, [PortsNext]_portVars PROVE WatchInv'
  OBVIOUS
<1> USE DEF WatchInv
<1>1. wire \in Seq(Reports) /\ Len(wire) \in Nat /\ \A i \in 1..Len(wire) : wire[i] \in Reports
  BY DEF WatchTypes
<1>2. ASSUME UNCHANGED <<wire, known, detected, watched>>, listening' \subseteq GuestPorts PROVE WatchInv'
  BY <1>2 DEF WatchTypes, ReportsTell
<1>3. ASSUME NEW p \in GuestPorts, Flip(p) PROVE WatchInv'
  <2>1. listening' \subseteq GuestPorts
    BY <1>3 DEF Flip, WatchTypes
  <2> QED
    BY <1>2, <1>3, <2>1 DEF Flip
<1>4. CASE Poll
  <2> DEFINE new == listening \ known
             gone == known \ listening
             mid == wire \o Sends("opened", new)
  <2>1. wire' = mid \o Sends("closed", gone) /\ known' = listening /\ UNCHANGED <<listening, watched, detected>>
    BY <1>4 DEF Poll
  <2>2. Message("opened", new) \in Reports /\ Message("closed", gone) \in Reports
    BY DEF WatchTypes, Reports, Message
  <2>3. mid = IF new = {} THEN wire ELSE Append(wire, Message("opened", new))
    BY <1>1, <2>2, SendsAppends
  <2>4. mid \in Seq(Reports)
    BY <1>1, <2>2, SendsAppends
  <2> HIDE DEF mid, new, gone
  <2>5. wire' = IF gone = {} THEN mid ELSE Append(mid, Message("closed", gone))
    BY <2>1, <2>2, <2>4, SendsAppends
  <2> USE DEF new, gone
  <2>6. WatchTypes'
    <3>1. wire' \in Seq(Reports)
      BY <2>2, <2>4, <2>5
    <3> QED
      BY <2>1, <3>1 DEF WatchTypes
  <2>7. ASSUME watched, NEW p \in GuestPorts PROVE Tells(wire', p, listening, detected)
    <3>1. Tells(wire, p, known, detected)
      BY <2>7 DEF ReportsTell
    <3>2. Tells(mid, p, known \cup listening, detected)
      <4>1. CASE new = {}
        <5>1. known \cup listening = known
          BY <4>1
        <5> QED
          BY <2>3, <3>1, <4>1, <5>1
      <4>2. CASE new # {}
        <5>1. /\ Mentions(Message("opened", new), p) <=> p \in new
              /\ Message("opened", new).kind = "opened"
          BY DEF Mentions, Message
        <5>2. Tells(Append(wire, Message("opened", new)), p, known \cup listening, detected)
          BY <1>1, <2>2, <3>1, <5>1, TellsMore
        <5> QED
          BY <2>3, <4>2, <5>2
      <4> QED
        BY <4>1, <4>2
    <3>3. CASE gone = {}
      <4>1. known \cup listening = listening
        BY <3>3
      <4> QED
        BY <2>5, <3>2, <3>3, <4>1
    <3>4. CASE gone # {}
      <4>1. /\ Mentions(Message("closed", gone), p) <=> p \in gone
            /\ Message("closed", gone).kind = "closed"
        BY DEF Mentions, Message
      <4>2. Tells(Append(mid, Message("closed", gone)), p, listening, detected)
        BY <2>2, <2>4, <3>2, <4>1, TellsMore
      <4> QED
        BY <2>5, <3>4, <4>2
    <3> QED
      BY <3>3, <3>4
  <2> QED
    BY <2>1, <2>6, <2>7 DEF ReportsTell
<1>5. CASE ScanProcesses
  <2>1. wire' = Append(wire, Message("snapshot", known)) /\ UNCHANGED <<listening, known, watched, detected>>
    BY <1>5 DEF ScanProcesses
  <2>2. Message("snapshot", known) \in Reports
    BY DEF WatchTypes, Reports, Message
  <2>3. \A p : ~Mentions(Message("snapshot", known), p)
    BY DEF Mentions, Message
  <2>4. WatchTypes'
    BY <1>1, <2>1, <2>2 DEF WatchTypes
  <2>5. ASSUME watched, NEW p \in GuestPorts PROVE Tells(wire', p, known, detected)
    BY <1>1, <2>1, <2>2, <2>3, <2>5, TellsMore DEF ReportsTell
  <2> QED
    BY <2>1, <2>4, <2>5 DEF ReportsTell
<1>6. CASE Receive
  <2> DEFINE m == Head(wire)
  <2>1. watched /\ wire # << >> /\ wire' = Tail(wire) /\ UNCHANGED <<listening, known, watched>>
    BY <1>6 DEF Receive
  <2>2. m \in Reports /\ wire' \in Seq(Reports)
    BY <1>1, <2>1
  <2>3. \/ m.kind = "opened" /\ detected' = detected \cup m.ports
        \/ m.kind = "closed" /\ detected' = detected \ m.ports
        \/ m.kind = "snapshot" /\ detected' = detected
    BY <1>6 DEF Receive, PortOpened, PortClosed, ProcessSnapshot
  <2> HIDE DEF m
  <2>4. WatchTypes'
    BY <2>1, <2>2, <2>3 DEF WatchTypes, Reports
  <2>5. ASSUME NEW p \in GuestPorts PROVE Tells(Tail(wire), p, known, detected')
    <3>1. /\ Mentions(m, p) => (p \in detected' <=> m.kind = "opened")
          /\ ~Mentions(m, p) => (p \in detected' <=> p \in detected)
      BY <2>3 DEF Mentions
    <3>2. Tells(wire, p, known, detected)
      BY <2>1 DEF ReportsTell
    <3> QED
      BY <1>1, <2>1, <3>1, <3>2, TellsRest DEF m
  <2> QED
    BY <2>1, <2>4, <2>5 DEF ReportsTell
<1>7. CASE WatchEnds
  BY <1>7 DEF WatchEnds, WatchTypes, ReportsTell
<1>8. ASSUME UNCHANGED watchVars PROVE WatchInv'
  BY <1>2, <1>8 DEF watchVars, WatchTypes
<1>9. ASSUME NEW h \in HostPorts, LoopStep(h) \/ AcceptFails(h) PROVE WatchInv'
  BY <1>8, <1>9 DEF LoopStep, Accept, TakeRelay, DropClient, AcceptFails
<1>10. CASE \/ \E c \in Clients : ClientConnects(c)
            \/ \E w \in Relays : Offer(w) \/ BridgeEnds(w)
            \/ \E p \in GuestPorts : StopProxy(p)
  BY <1>8, <1>10 DEF ClientConnects, Offer, BridgeEnds, StopProxy
<1>11. ASSUME NEW k \in Tabs, Bind(k) \/ InsertHandle(k) \/ Retain(k) \/ BindProxy(k) PROVE WatchInv'
  BY <1>8, <1>11 DEF Bind, InsertHandle, Retain, BindProxy
<1>12. ASSUME NEW k \in Tabs, NEW p \in GuestPorts,
              StopForward(k, p) \/ StartProxy(k, p) \/ \E h \in HostPorts : ForwardPort(k, p, h)
       PROVE  WatchInv'
  BY <1>8, <1>12 DEF StopForward, StartProxy, ForwardPort
<1>13. CASE UNCHANGED portVars
  BY <1>8, <1>13 DEF portVars, watchVars
<1> QED
  BY <1>3, <1>4, <1>5, <1>6, <1>7, <1>9, <1>10, <1>11, <1>12, <1>13 DEF PortsNext

\* The loops of hosts are gone, the others run on.
LEMMA LoopsEnded ==
    ASSUME LoopTypes, NEW hosts, EndLoops(hosts)
    PROVE  /\ accepting' \in [HostPorts -> Loop]
           /\ \A h \in HostPorts : h \notin hosts => accepting'[h] = accepting[h]
           /\ \A h \in HostPorts : h \in hosts => accepting'[h].pc = "none" /\ accepting'[h].port = "none"
           /\ \A h \in HostPorts : \A p : Runs(h, p)' <=> Runs(h, p) /\ h \notin hosts
<1>1. NoLoop \in Loop /\ NoLoop.pc = "none" /\ NoLoop.port = "none"
  BY DEF NoLoop, Loop
<1>2. accepting' = [h \in HostPorts |-> IF h \in hosts THEN NoLoop ELSE accepting[h]]
  BY DEF EndLoops
<1>3. accepting \in [HostPorts -> Loop]
  BY DEF LoopTypes
<1>4. accepting' \in [HostPorts -> Loop]
  BY <1>1, <1>2, <1>3
<1> QED
  BY <1>1, <1>2, <1>4 DEF Runs

\* A loop goes on with its port.
LEMMA LoopsMove ==
    ASSUME LoopInv, UNCHANGED <<command, forwarded, handles, proxies, crossed, failed>>,
           accepting' \in [HostPorts -> Loop],
           \A h \in HostPorts : accepting'[h].port = accepting[h].port /\ (accepting'[h].pc = "none" <=> accepting[h].pc = "none")
    PROVE  LoopInv'
<1>1. \A h \in HostPorts : \A p : Runs(h, p)' <=> Runs(h, p)
  BY DEF Runs
<1>2. \A h : \A k \in Tabs : Inserts(k, h)' <=> Inserts(k, h)
  BY DEF Inserts
<1>3. LoopTypes'
  BY DEF LoopInv, LoopTypes
<1>4. CrossingsSeen' /\ FailedStopped' /\ NamesTrue' /\ CommandsApart'
  BY <1>1, <1>2 DEF LoopInv, CrossingsSeen, FailedStopped, NamesTrue, CommandsApart
<1>5. \A e \in forwarded : e.host \in HostPorts
  BY DEF LoopInv, LoopTypes, Entry
<1>6. EntriesMatch'
  BY <1>1, <1>2, <1>5 DEF LoopInv, EntriesMatch
<1> QED
  BY <1>3, <1>4, <1>6 DEF LoopInv

\* A loop accepts a client, or is done with one.
LEMMA LoopMoves == ASSUME LoopInv, NEW h \in HostPorts, LoopStep(h) PROVE LoopInv'
<1>1. accepting \in [HostPorts -> Loop]
  BY DEF LoopInv, LoopTypes
<1>2. CASE Accept(h)
  <2>1. PICK c \in Clients : accepting' = [accepting EXCEPT ![h].pc = "relay", ![h].client = c]
    BY <1>2 DEF Accept
  <2>2. accepting[h].pc = "accept"
    BY <1>2 DEF Accept
  <2> DEFINE new == [accepting[h] EXCEPT !.pc = "relay", !.client = c]
  <2>3. new \in Loop /\ new.pc = "relay" /\ new.port = accepting[h].port
    BY <1>1 DEF Loop
  <2>4. accepting' = [accepting EXCEPT ![h] = new]
    BY <1>1, <2>1
  <2> HIDE DEF new
  <2>5. /\ accepting' \in [HostPorts -> Loop]
        /\ \A g \in HostPorts : /\ accepting'[g].port = accepting[g].port
                                /\ accepting'[g].pc = "none" <=> accepting[g].pc = "none"
    BY <1>1, <2>2, <2>3, <2>4
  <2>6. UNCHANGED <<command, forwarded, handles, proxies, crossed, failed>>
    BY <1>2 DEF Accept, entryVars
  <2> QED
    BY <2>5, <2>6, LoopsMove
<1>3. ASSUME Holds(h), NextClient(h), UNCHANGED <<entryVars, failed>> PROVE LoopInv'
  <2>1. accepting[h].pc = "relay" /\ accepting' = [accepting EXCEPT ![h].pc = "accept", ![h].client = "none"]
    BY <1>3 DEF Holds, NextClient
  <2> DEFINE new == [accepting[h] EXCEPT !.pc = "accept", !.client = "none"]
  <2>2. new \in Loop /\ new.pc = "accept" /\ new.port = accepting[h].port
    BY <1>1 DEF Loop
  <2>3. accepting' = [accepting EXCEPT ![h] = new]
    BY <1>1, <2>1
  <2> HIDE DEF new
  <2>4. /\ accepting' \in [HostPorts -> Loop]
        /\ \A g \in HostPorts : /\ accepting'[g].port = accepting[g].port
                                /\ accepting'[g].pc = "none" <=> accepting[g].pc = "none"
    BY <1>1, <2>1, <2>2, <2>3
  <2>5. UNCHANGED <<command, forwarded, handles, proxies, crossed, failed>>
    BY <1>3 DEF entryVars
  <2> QED
    BY <2>4, <2>5, LoopsMove
<1> QED
  BY <1>2, <1>3 DEF LoopStep, TakeRelay, DropClient, RelayTimesOut

\* A loop ends on an error; what names it keeps its name.
LEMMA FailureKeeps == ASSUME LoopInv, NEW h \in HostPorts, AcceptFails(h) PROVE LoopInv'
<1>1. EndLoops({h}) /\ failed' = failed \cup {h} /\ UNCHANGED <<command, forwarded, handles, proxies, crossed>>
  BY DEF AcceptFails, entryVars
<1>2. /\ accepting' \in [HostPorts -> Loop]
      /\ \A g \in HostPorts : g # h => accepting'[g] = accepting[g]
      /\ accepting'[h].pc = "none"
      /\ \A g \in HostPorts : \A p : Runs(g, p)' <=> Runs(g, p) /\ g # h
  BY <1>1, LoopsEnded DEF LoopInv
<1>3. \A g : \A k \in Tabs : Inserts(k, g)' <=> Inserts(k, g)
  BY <1>1 DEF Inserts
<1>4. LoopTypes' /\ CrossingsSeen' /\ FailedStopped' /\ CommandsApart'
  BY <1>1, <1>2 DEF LoopInv, LoopTypes, CrossingsSeen, FailedStopped, CommandsApart
<1>5. NamesTrue'
  BY <1>1, <1>2, <1>3 DEF LoopInv, NamesTrue
<1>6. EntriesMatch'
  <2>1. \A e \in forwarded : e.host \in HostPorts
    BY DEF LoopInv, LoopTypes, Entry
  <2> QED
    BY <1>1, <1>2, <1>3, <2>1 DEF LoopInv, EntriesMatch
<1> QED
  BY <1>4, <1>5, <1>6 DEF LoopInv

\* The watcher says that ports closed: their entries and loops go.
LEMMA ClosedKeeps == ASSUME LoopInv, PortClosed, UNCHANGED command, Head(wire) \in Reports PROVE LoopInv'
<1> DEFINE ports == Head(wire).ports
           hosts == UNION {LoopOf(p) : p \in ports}
<1>0. ports \subseteq GuestPorts
  BY DEF Reports
<1>1. /\ forwarded' = {e \in forwarded : e.port \notin ports}
      /\ handles' = [p \in GuestPorts |-> IF p \in ports THEN "none" ELSE handles[p]]
      /\ crossed' = crossed \cup {p \in ports : InFlight(p) # {}}
      /\ proxies' = proxies /\ failed' = failed /\ EndLoops(hosts)
  BY DEF PortClosed
<1> HIDE DEF ports
<1>2. \A h \in HostPorts : h \in hosts <=> \E p \in ports : handles[p] = h
  BY DEF LoopOf
<1> HIDE DEF hosts
<1>3. /\ accepting' \in [HostPorts -> Loop]
      /\ \A h \in HostPorts : h \notin hosts => accepting'[h] = accepting[h]
      /\ \A h \in HostPorts : h \in hosts => accepting'[h].pc = "none" /\ accepting'[h].port = "none"
      /\ \A h \in HostPorts : \A p : Runs(h, p)' <=> Runs(h, p) /\ h \notin hosts
  BY <1>1, LoopsEnded DEF LoopInv
<1>4. \A h : \A k \in Tabs : Inserts(k, h)' <=> Inserts(k, h)
  BY DEF Inserts
<1>5. /\ handles' \in [GuestPorts -> HostPorts \cup {"none"}]
      /\ \A p \in GuestPorts : handles'[p] = IF p \in ports THEN "none" ELSE handles[p]
  BY <1>1 DEF LoopInv, LoopTypes
<1>6. \A k \in Tabs : command[k].port \in ports => command[k].port \in crossed'
  BY <1>1 DEF InFlight
<1>7. LoopTypes'
  BY <1>1, <1>3, <1>5 DEF LoopInv, LoopTypes
<1>8. CrossingsSeen' /\ FailedStopped'
  BY <1>1, <1>3 DEF LoopInv, CrossingsSeen, FailedStopped
<1>9. ASSUME NEW h \in HostPorts \ failed, NEW p \in GuestPorts, Runs(h, p), p \notin ports PROVE h \notin hosts
  <2> SUFFICES ASSUME NEW q \in ports, handles[q] = h PROVE FALSE
    BY <1>2
  <2>1. Runs(h, q)
    BY <1>0 DEF LoopInv, NamesTrue
  <2> QED
    BY <1>9, <2>1 DEF Runs
<1>10. ASSUME NEW h \in HostPorts \ failed, NEW p \in GuestPorts, Runs(h, p), handles[p] # h PROVE h \notin hosts
  <2> SUFFICES ASSUME NEW q \in ports, handles[q] = h PROVE FALSE
    BY <1>2
  <2>1. Runs(h, q)
    BY <1>0 DEF LoopInv, NamesTrue
  <2> QED
    BY <1>10, <2>1 DEF Runs
<1>11. NamesTrue'
  <2> SUFFICES ASSUME NEW h \in HostPorts \ failed
               PROVE  /\ \A p \in GuestPorts : handles'[p] = h \/ proxies[p] = h => Runs(h, p)'
                      /\ \A k \in Tabs : Inserts(k, h) => Runs(h, command[k].port)'
                      /\ \A p \in GuestPorts : ~(handles'[p] = h /\ proxies[p] = h)
                      /\ \A k, l \in Tabs : Inserts(k, h) /\ Inserts(l, h) => k = l
                      /\ \A k \in Tabs, p \in GuestPorts : Inserts(k, h) => handles'[p] # h /\ proxies[p] # h
    BY <1>1, <1>4 DEF NamesTrue
  <2>0. /\ \A p \in GuestPorts : handles[p] = h \/ proxies[p] = h => Runs(h, p)
        /\ \A k \in Tabs : Inserts(k, h) => Runs(h, command[k].port)
        /\ \A p \in GuestPorts : ~(handles[p] = h /\ proxies[p] = h)
        /\ \A k, l \in Tabs : Inserts(k, h) /\ Inserts(l, h) => k = l
        /\ \A k \in Tabs, p \in GuestPorts : Inserts(k, h) => handles[p] # h /\ proxies[p] # h
    BY DEF LoopInv, NamesTrue
  <2>1. \A p \in GuestPorts : handles'[p] = h => p \notin ports /\ handles[p] = h
    BY <1>5, PortsAssumption
  <2>2. ASSUME NEW p \in GuestPorts, handles'[p] = h \/ proxies[p] = h PROVE Runs(h, p)'
    <3>1. Runs(h, p)
      BY <2>0, <2>1, <2>2
    <3>2. h \notin hosts
      BY <1>9, <1>10, <2>0, <2>1, <2>2, <3>1
    <3> QED
      BY <1>3, <3>1, <3>2
  <2>3. ASSUME NEW k \in Tabs, Inserts(k, h) PROVE Runs(h, command[k].port)'
    <3>1. Runs(h, command[k].port) /\ command[k].port \in GuestPorts
      BY <2>0, <2>3 DEF Inserts, LoopInv, LoopTypes, Command
    <3>2. h \notin hosts
      BY <1>10, <2>0, <2>3, <3>1
    <3> QED
      BY <1>3, <3>1, <3>2
  <2> QED
    BY <2>0, <2>1, <2>2, <2>3
<1>12. CommandsApart'
  <2> SUFFICES ASSUME NEW k \in Tabs, command[k].port \notin crossed'
               PROVE  /\ command[k].pc \in {"bind", "insert", "retain"} => handles'[command[k].port] = "none"
                      /\ command[k].pc = "bindproxy" => proxies[command[k].port] = "none"
                      /\ command[k].pc = "insert" => [port |-> command[k].port, host |-> command[k].host] \in forwarded'
    BY <1>1 DEF CommandsApart
  <2>1. command[k].port \notin crossed /\ command[k].port \notin ports
    BY <1>1, <1>6
  <2>2. command[k].pc # "idle" => command[k].port \in GuestPorts
    BY DEF LoopInv, LoopTypes, Command
  <2> QED
    BY <1>1, <1>5, <2>1, <2>2 DEF LoopInv, CommandsApart
<1>13. EntriesMatch'
  <2>1. ASSUME NEW p \in GuestPorts \ crossed', handles'[p] # "none"
        PROVE  [port |-> p, host |-> handles'[p]] \in forwarded'
    BY <1>1, <1>5, <2>1 DEF LoopInv, EntriesMatch
  <2>2. ASSUME NEW e \in forwarded', e.port \notin crossed', e.host \notin failed,
               ~\E k \in Tabs : command[k].pc = "retain" /\ command[k].port = e.port
        PROVE  Runs(e.host, e.port)' /\ (handles'[e.port] = e.host \/ \E k \in Tabs : Inserts(k, e.host))
    <3>1. e \in forwarded /\ e.port \notin ports /\ e.port \notin crossed
      BY <1>1, <2>2
    <3>2. e.port \in GuestPorts /\ e.host \in HostPorts \ failed
      BY <2>2, <3>1 DEF LoopInv, LoopTypes, Entry
    <3>3. Runs(e.host, e.port) /\ (handles[e.port] = e.host \/ \E k \in Tabs : Inserts(k, e.host))
      BY <2>2, <3>1 DEF LoopInv, EntriesMatch
    <3>4. e.host \notin hosts
      BY <1>9, <3>1, <3>2, <3>3
    <3>5. Runs(e.host, e.port)'
      BY <1>3, <3>2, <3>3, <3>4
    <3> QED
      BY <1>5, <3>1, <3>2, <3>3, <3>5
  <2>3. ASSUME NEW h \in HostPorts, accepting'[h].pc # "none", accepting'[h].port \notin crossed'
        PROVE  \/ handles'[accepting'[h].port] = h \/ proxies[accepting'[h].port] = h
               \/ \E k \in Tabs : Inserts(k, h)
    <3>1. h \notin hosts /\ accepting'[h] = accepting[h]
      BY <1>3, <2>3
    <3>2. handles[accepting[h].port] = h \/ proxies[accepting[h].port] = h \/ \E k \in Tabs : Inserts(k, h)
      BY <1>1, <2>3, <3>1 DEF LoopInv, EntriesMatch
    <3>3. CASE handles[accepting[h].port] = h
      <4>1. accepting[h].port \notin ports
        BY <1>2, <3>1, <3>3
      <4>2. accepting[h].port \in GuestPorts
        BY <2>3, <3>1 DEF LoopInv, LoopTypes
      <4> QED
        BY <1>5, <3>1, <3>3, <4>1, <4>2
    <3> QED
      BY <3>1, <3>2, <3>3
  <2> QED
    BY <1>1, <1>4, <2>1, <2>2, <2>3 DEF EntriesMatch
<1> QED
  BY <1>7, <1>8, <1>11, <1>12, <1>13 DEF LoopInv

\* Whoever names a loop that goes on still names it.
LEMMA NamesKept ==
    ASSUME LoopInv, NEW h \in HostPorts \ failed
    PROVE  /\ \A p \in GuestPorts : handles[p] = h \/ proxies[p] = h => Runs(h, p)
           /\ \A k \in Tabs : Inserts(k, h) => Runs(h, command[k].port) /\ command[k].port \in GuestPorts
           /\ \A p \in GuestPorts : ~(handles[p] = h /\ proxies[p] = h)
           /\ \A k, l \in Tabs : Inserts(k, h) /\ Inserts(l, h) => k = l
           /\ \A k \in Tabs, p \in GuestPorts : Inserts(k, h) => handles[p] # h /\ proxies[p] # h
           /\ \A p, q : Runs(h, p) /\ Runs(h, q) => p = q
BY DEF LoopInv, NamesTrue, Runs, Inserts, LoopTypes, Command

\* A command begins; the port is crossed if another one is on its way.
LEMMA Begins ==
    ASSUME LoopInv, NEW k \in Tabs, NEW kind, NEW p \in GuestPorts, NEW h \in HostPorts \cup {"none"},
           NEW pc \in {"bind", "retain", "bindproxy"}, Begin(k, kind, p, h, pc),
           kind \in {"forward", "stop", "proxy"}, pc = "bind" => h \in HostPorts
    PROVE  /\ command' \in [Tabs -> Command]
           /\ \A l \in Tabs : /\ command'[l].pc = "idle" <=> command'[l].port = "none"
                              /\ command'[l].pc \in {"bind", "insert"} => command'[l].host \in HostPorts
           /\ CrossingsSeen'
           /\ crossed \subseteq crossed'
           /\ command[k].pc = "idle" /\ command'[k] = [kind |-> kind, port |-> p, host |-> h, pc |-> pc]
           /\ \A l \in Tabs : l # k => command'[l] = command[l] /\ (command[l].port = p => p \in crossed')
           /\ \A l \in Tabs, g \in HostPorts : Inserts(l, g)' <=> Inserts(l, g)
<1> DEFINE new == [kind |-> kind, port |-> p, host |-> h, pc |-> pc]
<1>1. command \in [Tabs -> Command]
  BY DEF LoopInv, LoopTypes
<1>2. command[k].pc = "idle" /\ command' = [command EXCEPT ![k] = new]
      /\ crossed' = IF InFlight(p) = {} THEN crossed ELSE crossed \cup {p}
  BY DEF Begin
<1>3. new \in Command /\ new.pc = pc /\ new.port = p /\ new.host = h /\ p # "none"
  BY PortsAssumption DEF Command
<1> HIDE DEF new
<1>4. command' \in [Tabs -> Command] /\ command'[k] = new /\ \A l \in Tabs : l # k => command'[l] = command[l]
  BY <1>1, <1>2, <1>3
<1>5. \A l \in Tabs : command[l].port = p => p \in crossed'
  BY <1>2 DEF InFlight
<1>6. /\ \A l \in Tabs : /\ command'[l].pc = "idle" <=> command'[l].port = "none"
                         /\ command'[l].pc \in {"bind", "insert"} => command'[l].host \in HostPorts
  BY <1>3, <1>4 DEF LoopInv, LoopTypes
<1>7. \A l \in Tabs, g \in HostPorts : Inserts(l, g)' <=> Inserts(l, g)
  BY <1>2, <1>3, <1>4 DEF Inserts
<1>8. crossed \subseteq crossed'
  BY <1>2
<1>9. CrossingsSeen'
  BY <1>3, <1>4, <1>5, <1>8 DEF LoopInv, CrossingsSeen
<1> QED
  BY <1>2, <1>4, <1>5, <1>6, <1>7, <1>8, <1>9 DEF new

\* forward_port and start_browser_proxy begin on a port that has none yet.
LEMMA StartKeeps ==
    ASSUME LoopInv, NEW k \in Tabs, NEW p \in GuestPorts,
           StartProxy(k, p) \/ \E h \in HostPorts : ForwardPort(k, p, h)
    PROVE  LoopInv'
<1>1. PICK h \in HostPorts \cup {"none"}, kind \in {"forward", "proxy"}, pc \in {"bind", "bindproxy"} :
          /\ Begin(k, kind, p, h, pc) /\ (pc = "bind" => h \in HostPorts)
          /\ pc = "bind" => NotForwarded(p)
          /\ pc = "bindproxy" => proxies[p] = "none"
  BY DEF StartProxy, ForwardPort
<1>2. UNCHANGED <<accepting, failed, forwarded, handles, proxies>>
  BY DEF StartProxy, ForwardPort, loopVars
<1>3. /\ command' \in [Tabs -> Command]
      /\ \A l \in Tabs : /\ command'[l].pc = "idle" <=> command'[l].port = "none"
                         /\ command'[l].pc \in {"bind", "insert"} => command'[l].host \in HostPorts
      /\ CrossingsSeen'
      /\ crossed \subseteq crossed'
      /\ command[k].pc = "idle" /\ command'[k] = [kind |-> kind, port |-> p, host |-> h, pc |-> pc]
      /\ \A l \in Tabs : l # k => command'[l] = command[l] /\ (command[l].port = p => p \in crossed')
      /\ \A l \in Tabs, g \in HostPorts : Inserts(l, g)' <=> Inserts(l, g)
  <2>1. pc \in {"bind", "retain", "bindproxy"} /\ kind \in {"forward", "stop", "proxy"} /\ Begin(k, kind, p, h, pc)
    BY <1>1
  <2> QED
    BY <1>1, <2>1, Begins, Zenon
<1>4. LoopTypes' /\ FailedStopped'
  BY <1>2, <1>3 DEF LoopInv, LoopTypes, FailedStopped
<1>5. \A g \in HostPorts : \A q : Runs(g, q)' <=> Runs(g, q)
  BY <1>2 DEF Runs
<1>6. NamesTrue'
  <2> SUFFICES ASSUME NEW g \in HostPorts \ failed
               PROVE  /\ \A q \in GuestPorts : handles[q] = g \/ proxies[q] = g => Runs(g, q)
                      /\ \A l \in Tabs : Inserts(l, g) => Runs(g, command'[l].port)
                      /\ \A q \in GuestPorts : ~(handles[q] = g /\ proxies[q] = g)
                      /\ \A l, m \in Tabs : Inserts(l, g) /\ Inserts(m, g) => l = m
                      /\ \A l \in Tabs, q \in GuestPorts : Inserts(l, g) => handles[q] # g /\ proxies[q] # g
    BY <1>2, <1>3, <1>5 DEF NamesTrue
  <2>1. \A l \in Tabs : Inserts(l, g) => l # k
    BY <1>3 DEF Inserts
  <2> QED
    BY <1>3, <2>1, NamesKept
<1>7. CommandsApart'
  <2> SUFFICES ASSUME NEW l \in Tabs, command'[l].port \notin crossed'
               PROVE  /\ command'[l].pc \in {"bind", "insert", "retain"} => handles[command'[l].port] = "none"
                      /\ command'[l].pc = "bindproxy" => proxies[command'[l].port] = "none"
                      /\ command'[l].pc = "insert" => [port |-> command'[l].port, host |-> command'[l].host] \in forwarded
    BY <1>2 DEF CommandsApart
  <2>1. CASE l # k
    BY <1>3, <2>1 DEF LoopInv, CommandsApart
  <2>2. CASE l = k
    <3>1. p \notin crossed
      BY <1>3, <2>2
    <3>2. handles[p] # "none" => [port |-> p, host |-> handles[p]] \in forwarded
      BY <3>1 DEF LoopInv, EntriesMatch
    <3>3. [port |-> p, host |-> handles[p]].port = p
      OBVIOUS
    <3>4. pc = "bind" => handles[p] = "none"
      BY <1>1, <3>2, <3>3, Zenon DEF NotForwarded
    <3> QED
      BY <1>1, <1>3, <2>2, <3>4
  <2> QED
    BY <2>1, <2>2
<1>8. EntriesMatch'
  <2>1. \A e \in forwarded : e.host \in HostPorts
    BY DEF LoopInv, LoopTypes, Entry
  <2>2. \A l \in Tabs : command[l].pc = "retain" => command'[l] = command[l]
    BY <1>3
  <2> QED
    BY <1>2, <1>3, <1>5, <2>1, <2>2 DEF LoopInv, EntriesMatch
<1> QED
  BY <1>3, <1>4, <1>6, <1>7, <1>8 DEF LoopInv

\* A loop starts on a host port that nobody names.
LEMMA LoopStarts ==
    ASSUME LoopInv, NEW p \in GuestPorts, NEW h \in HostPorts, Free(h),
           accepting' = [accepting EXCEPT ![h] = [pc |-> "accept", port |-> p, client |-> "none"]]
    PROVE  /\ accepting' \in [HostPorts -> Loop]
           /\ \A g \in HostPorts : accepting'[g].pc # "none" => accepting'[g].port \in GuestPorts
           /\ accepting'[h].pc = "accept" /\ accepting'[h].port = p
           /\ \A g \in HostPorts : g # h => accepting'[g] = accepting[g]
           /\ \A g \in HostPorts : \A q : Runs(g, q)' <=> Runs(g, q) \/ (g = h /\ q = p)
           /\ h \notin failed /\ \A q : ~Runs(h, q)
           /\ \A q \in GuestPorts : handles[q] # h /\ proxies[q] # h
           /\ \A k \in Tabs : ~Inserts(k, h)
<1> DEFINE new == [pc |-> "accept", port |-> p, client |-> "none"]
<1>1. accepting \in [HostPorts -> Loop] /\ new \in Loop /\ new.pc = "accept" /\ new.port = p
  BY DEF LoopInv, LoopTypes, Loop
<1>2. accepting' = [accepting EXCEPT ![h] = new]
  OBVIOUS
<1> HIDE DEF new
<1>3. accepting' \in [HostPorts -> Loop] /\ accepting'[h] = new /\ \A g \in HostPorts : g # h => accepting'[g] = accepting[g]
  BY <1>1, <1>2
<1>4. h \notin failed /\ accepting[h].pc = "none"
  BY DEF Free
<1>5. \A q : ~Runs(h, q)
  BY <1>4 DEF Runs
<1>6. h \in HostPorts \ failed
  BY <1>4
<1>7. \A q \in GuestPorts : handles[q] # h /\ proxies[q] # h
  BY <1>5, <1>6, NamesKept
<1>8. \A k \in Tabs : ~Inserts(k, h)
  BY <1>5, <1>6, NamesKept
<1>9. \A g \in HostPorts : \A q : Runs(g, q)' <=> Runs(g, q) \/ (g = h /\ q = p)
  BY <1>1, <1>3, <1>5 DEF Runs
<1>10. \A g \in HostPorts : accepting'[g].pc # "none" => accepting'[g].port \in GuestPorts
  BY <1>1, <1>3 DEF LoopInv, LoopTypes
<1> QED
  BY <1>1, <1>3, <1>4, <1>5, <1>7, <1>8, <1>9, <1>10

\* A command returns.
LEMMA Returned ==
    ASSUME LoopInv, NEW k \in Tabs, Returns(k), command[k].pc # "idle"
    PROVE  /\ command' \in [Tabs -> Command]
           /\ \A l \in Tabs : /\ command'[l].pc = "idle" <=> command'[l].port = "none"
                              /\ command'[l].pc \in {"bind", "insert"} => command'[l].host \in HostPorts
           /\ command'[k].pc = "idle" /\ command'[k].port = "none"
           /\ \A l \in Tabs : l # k => command'[l] = command[l]
           /\ \A l \in Tabs : l # k /\ command[l].port = command[k].port => command[k].port \in crossed
           /\ crossed' = crossed => CrossingsSeen'
           /\ \A l \in Tabs, g \in HostPorts : Inserts(l, g)' <=> l # k /\ Inserts(l, g)
<1>1. command \in [Tabs -> Command] /\ command' = [command EXCEPT ![k] = NoCommand]
  BY DEF LoopInv, LoopTypes, Returns
<1>2. NoCommand \in Command /\ NoCommand.pc = "idle" /\ NoCommand.port = "none"
  BY DEF NoCommand, Command
<1>3. command' \in [Tabs -> Command] /\ command'[k] = NoCommand /\ \A l \in Tabs : l # k => command'[l] = command[l]
  BY <1>1, <1>2
<1>4. \A l \in Tabs : /\ command'[l].pc = "idle" <=> command'[l].port = "none"
                      /\ command'[l].pc \in {"bind", "insert"} => command'[l].host \in HostPorts
  BY <1>2, <1>3 DEF LoopInv, LoopTypes
<1>5. command[k].port # "none"
  BY DEF LoopInv, LoopTypes
<1>6. \A l \in Tabs : l # k /\ command[l].port = command[k].port => command[k].port \in crossed
  BY <1>5 DEF LoopInv, CrossingsSeen
<1>7. crossed' = crossed => CrossingsSeen'
  BY <1>2, <1>3 DEF LoopInv, CrossingsSeen
<1>8. \A l \in Tabs, g \in HostPorts : Inserts(l, g)' <=> l # k /\ Inserts(l, g)
  BY <1>2, <1>3 DEF Inserts
<1> QED
  BY <1>2, <1>3, <1>4, <1>6, <1>7, <1>8

\* forward_port fails to bind.
LEMMA BindFails ==
    ASSUME LoopInv, NEW k \in Tabs, command[k].pc = "bind", Returns(k),
           UNCHANGED <<accepting, forwarded, handles, proxies, crossed, failed>>
    PROVE  LoopInv'
<1>1. /\ command' \in [Tabs -> Command]
      /\ \A l \in Tabs : /\ command'[l].pc = "idle" <=> command'[l].port = "none"
                         /\ command'[l].pc \in {"bind", "insert"} => command'[l].host \in HostPorts
      /\ command'[k].pc = "idle" /\ command'[k].port = "none"
      /\ \A l \in Tabs : l # k => command'[l] = command[l]
      /\ CrossingsSeen'
      /\ \A l \in Tabs, g \in HostPorts : Inserts(l, g)' <=> l # k /\ Inserts(l, g)
  BY Returned
<1>2. LoopTypes' /\ FailedStopped'
  BY <1>1 DEF LoopInv, LoopTypes, FailedStopped
<1>3. \A g \in HostPorts : \A q : Runs(g, q)' <=> Runs(g, q)
  BY DEF Runs
<1>4. \A l \in Tabs, g \in HostPorts : Inserts(l, g)' <=> Inserts(l, g)
  BY <1>1 DEF Inserts
<1>5. NamesTrue'
  BY <1>1, <1>3, <1>4 DEF LoopInv, NamesTrue
<1>6. CommandsApart'
  BY <1>1 DEF LoopInv, CommandsApart
<1>7. EntriesMatch'
  <2>1. \A e \in forwarded : e.host \in HostPorts
    BY DEF LoopInv, LoopTypes, Entry
  <2>2. \A l \in Tabs : command[l].pc = "retain" => command'[l] = command[l]
    BY <1>1
  <2> QED
    BY <1>3, <1>4, <2>1, <2>2 DEF LoopInv, EntriesMatch
<1> QED
  BY <1>1, <1>2, <1>5, <1>6, <1>7 DEF LoopInv

\* forward_port binds its port: the loop runs, and its entry is shown.
LEMMA BindKeeps == ASSUME LoopInv, NEW k \in Tabs, Bind(k) PROVE LoopInv'
<1>1. command[k].pc = "bind" /\ UNCHANGED <<handles, proxies, crossed, failed>>
  BY DEF Bind
<1>0. PICK p \in GuestPorts, h \in HostPorts : p = command[k].port /\ h = command[k].host
  BY <1>1 DEF LoopInv, LoopTypes, Command
<1> DEFINE new == [command[k] EXCEPT !.pc = "insert"]
           entry == [port |-> p, host |-> h]
<1>2. SUFFICES ASSUME Free(h), accepting' = [accepting EXCEPT ![h] = [pc |-> "accept", port |-> p, client |-> "none"]],
                      forwarded' = forwarded \cup {entry}, command' = [command EXCEPT ![k].pc = "insert"]
               PROVE  LoopInv'
  BY <1>0, <1>1, BindFails DEF Bind
<1>3. command \in [Tabs -> Command]
  BY DEF LoopInv, LoopTypes
<1>4. new \in Command /\ new.pc = "insert" /\ new.port = p /\ new.host = h /\ command' = [command EXCEPT ![k] = new]
  BY <1>0, <1>2, <1>3 DEF Command
<1>5. entry \in Entry /\ entry.port = p /\ entry.host = h
  BY DEF Entry
<1>6. /\ accepting' \in [HostPorts -> Loop]
      /\ \A g \in HostPorts : accepting'[g].pc # "none" => accepting'[g].port \in GuestPorts
      /\ accepting'[h].pc = "accept" /\ accepting'[h].port = p
      /\ \A g \in HostPorts : g # h => accepting'[g] = accepting[g]
      /\ \A g \in HostPorts : \A q : Runs(g, q)' <=> Runs(g, q) \/ (g = h /\ q = p)
      /\ h \notin failed /\ \A q : ~Runs(h, q)
      /\ \A q \in GuestPorts : handles[q] # h /\ proxies[q] # h
      /\ \A l \in Tabs : ~Inserts(l, h)
  BY <1>2, LoopStarts
<1> HIDE DEF new
<1>7. command' \in [Tabs -> Command] /\ command'[k] = new /\ \A l \in Tabs : l # k => command'[l] = command[l]
  BY <1>3, <1>4
<1>8. \A l \in Tabs, g \in HostPorts : Inserts(l, g)' <=> Inserts(l, g) \/ (l = k /\ g = h)
  BY <1>0, <1>1, <1>4, <1>7 DEF Inserts
<1>9. \A l \in Tabs : command'[l].port = command[l].port /\ (command[l].pc = "retain" => command'[l] = command[l])
  BY <1>0, <1>1, <1>4, <1>7
<1>10. p # "none"
  BY PortsAssumption
<1> HIDE DEF entry
<1>11. LoopTypes'
  BY <1>1, <1>2, <1>3, <1>4, <1>5, <1>6, <1>7, <1>10 DEF LoopInv, LoopTypes
<1>12. CrossingsSeen' /\ FailedStopped'
  BY <1>1, <1>6, <1>9 DEF LoopInv, CrossingsSeen, FailedStopped
<1>13. NamesTrue'
  <2> SUFFICES ASSUME NEW g \in HostPorts \ failed
               PROVE  /\ \A q \in GuestPorts : handles[q] = g \/ proxies[q] = g => Runs(g, q)'
                      /\ \A l \in Tabs : Inserts(l, g)' => Runs(g, command[l].port)'
                      /\ \A q \in GuestPorts : ~(handles[q] = g /\ proxies[q] = g)
                      /\ \A l, m \in Tabs : Inserts(l, g)' /\ Inserts(m, g)' => l = m
                      /\ \A l \in Tabs, q \in GuestPorts : Inserts(l, g)' => handles[q] # g /\ proxies[q] # g
    BY <1>1 DEF NamesTrue
  <2>1. CASE g = h
    <3>1. \A l \in Tabs : Inserts(l, g)' => l = k
      BY <1>6, <1>8, <2>1
    <3>2. accepting'[g].pc # "none" /\ accepting'[g].port = command'[k].port
      BY <1>4, <1>6, <1>7, <2>1
    <3>3. Runs(g, command[k].port)'
      BY <3>2 DEF Runs
    <3> QED
      BY <1>6, <2>1, <3>1, <3>3
  <2>2. CASE g # h
    <3>1. \A l \in Tabs : Inserts(l, g)' <=> Inserts(l, g)
      BY <1>8, <2>2
    <3>2. \A q : Runs(g, q)' <=> Runs(g, q)
      BY <1>6, <2>2
    <3>3. \A l \in Tabs : Inserts(l, g)' => Runs(g, command[l].port)'
      <4> SUFFICES ASSUME NEW l \in Tabs, Inserts(l, g)' PROVE Runs(g, command[l].port)'
        OBVIOUS
      <4>1. Runs(g, command[l].port) /\ command'[l].port = command[l].port /\ accepting'[g] = accepting[g]
        BY <1>6, <1>9, <2>2, <3>1, NamesKept
      <4> QED
        BY <4>1 DEF Runs
    <3> QED
      BY <3>1, <3>2, <3>3, NamesKept
  <2> QED
    BY <2>1, <2>2
<1>14. CommandsApart'
  <2> SUFFICES ASSUME NEW l \in Tabs, command[l].port \notin crossed
               PROVE  /\ command'[l].pc \in {"bind", "insert", "retain"} => handles[command[l].port] = "none"
                      /\ command'[l].pc = "bindproxy" => proxies[command[l].port] = "none"
                      /\ command'[l].pc = "insert" => [port |-> command[l].port, host |-> command'[l].host] \in forwarded'
    BY <1>1, <1>9 DEF CommandsApart
  <2>1. CASE l # k
    BY <1>2, <1>7, <2>1 DEF LoopInv, CommandsApart
  <2>2. CASE l = k
    <3>1. handles[command[k].port] = "none"
      BY <1>1, <2>2 DEF LoopInv, CommandsApart
    <3>2. [port |-> command[k].port, host |-> command'[k].host] \in forwarded'
      BY <1>0, <1>2, <1>4, <1>7 DEF entry
    <3> QED
      BY <1>4, <1>7, <2>2, <3>1, <3>2
  <2> QED
    BY <2>1, <2>2
<1>15. EntriesMatch'
  <2>1. \A q \in GuestPorts \ crossed : handles[q] # "none" => [port |-> q, host |-> handles[q]] \in forwarded'
    BY <1>2 DEF LoopInv, EntriesMatch
  <2>2. ASSUME NEW e \in forwarded', e.port \notin crossed, e.host \notin failed,
               ~\E l \in Tabs : command'[l].pc = "retain" /\ command'[l].port = e.port
        PROVE  Runs(e.host, e.port)' /\ (handles[e.port] = e.host \/ \E l \in Tabs : Inserts(l, e.host)')
    <3>1. CASE e = entry
      BY <1>3, <1>5, <1>6, <1>8, <3>1
    <3>2. CASE e \in forwarded
      <4>1. ~\E l \in Tabs : command[l].pc = "retain" /\ command[l].port = e.port
        BY <1>9, <2>2
      <4>2. Runs(e.host, e.port) /\ (handles[e.port] = e.host \/ \E l \in Tabs : Inserts(l, e.host))
        BY <2>2, <3>2, <4>1 DEF LoopInv, EntriesMatch
      <4>3. e.host \in HostPorts
        BY <3>2 DEF LoopInv, LoopTypes, Entry
      <4> QED
        BY <1>6, <1>8, <4>2, <4>3
    <3> QED
      BY <1>2, <3>1, <3>2
  <2>3. ASSUME NEW g \in HostPorts, accepting'[g].pc # "none", accepting'[g].port \notin crossed
        PROVE  handles[accepting'[g].port] = g \/ proxies[accepting'[g].port] = g \/ \E l \in Tabs : Inserts(l, g)'
    BY <1>6, <1>8, <2>3 DEF LoopInv, EntriesMatch
  <2> QED
    BY <1>1, <2>1, <2>2, <2>3 DEF EntriesMatch, Runs, Inserts
<1> QED
  BY <1>11, <1>12, <1>13, <1>14, <1>15 DEF LoopInv

\* forward_port leaves the handle of its loop and returns.
LEMMA InsertKeeps == ASSUME LoopInv, NEW k \in Tabs, InsertHandle(k) PROVE LoopInv'
<1>1. command[k].pc = "insert" /\ Returns(k) /\ UNCHANGED <<accepting, forwarded, proxies, crossed, failed>>
  BY DEF InsertHandle, loopVars
<1>2. PICK p \in GuestPorts, h \in HostPorts : p = command[k].port /\ h = command[k].host
  BY <1>1 DEF LoopInv, LoopTypes, Command
<1>3. /\ command' \in [Tabs -> Command]
      /\ \A l \in Tabs : /\ command'[l].pc = "idle" <=> command'[l].port = "none"
                         /\ command'[l].pc \in {"bind", "insert"} => command'[l].host \in HostPorts
      /\ command'[k].pc = "idle" /\ command'[k].port = "none"
      /\ \A l \in Tabs : l # k => command'[l] = command[l]
      /\ \A l \in Tabs : l # k /\ command[l].port = p => p \in crossed
      /\ CrossingsSeen'
      /\ \A l \in Tabs, g \in HostPorts : Inserts(l, g)' <=> l # k /\ Inserts(l, g)
  BY <1>1, <1>2, Returned
<1>4. /\ handles' \in [GuestPorts -> HostPorts \cup {"none"}] /\ handles'[p] = h
      /\ \A q \in GuestPorts : q # p => handles'[q] = handles[q]
  <2>1. handles' = [handles EXCEPT ![p] = h] /\ handles \in [GuestPorts -> HostPorts \cup {"none"}]
    BY <1>2 DEF InsertHandle, LoopInv, LoopTypes
  <2> QED
    BY <2>1
<1>5. \A g \in HostPorts : \A q : Runs(g, q)' <=> Runs(g, q)
  BY <1>1 DEF Runs
<1>6. Inserts(k, h) /\ \A g \in HostPorts : Inserts(k, g) => g = h
  BY <1>1, <1>2 DEF Inserts
<1>7. p \notin crossed => handles[p] = "none" /\ [port |-> p, host |-> h] \in forwarded
  BY <1>1, <1>2 DEF LoopInv, CommandsApart
<1>8. LoopTypes' /\ FailedStopped'
  BY <1>1, <1>3, <1>4 DEF LoopInv, LoopTypes, FailedStopped
<1>9. NamesTrue'
  <2> SUFFICES ASSUME NEW g \in HostPorts \ failed
               PROVE  /\ \A q \in GuestPorts : handles'[q] = g \/ proxies[q] = g => Runs(g, q)
                      /\ \A l \in Tabs : l # k /\ Inserts(l, g) => Runs(g, command'[l].port)
                      /\ \A q \in GuestPorts : ~(handles'[q] = g /\ proxies[q] = g)
                      /\ \A l, m \in Tabs : l # k /\ m # k /\ Inserts(l, g) /\ Inserts(m, g) => l = m
                      /\ \A l \in Tabs, q \in GuestPorts : l # k /\ Inserts(l, g) => handles'[q] # g /\ proxies[q] # g
    BY <1>1, <1>3, <1>5 DEF NamesTrue
  <2>1. g = h => Runs(g, p) /\ proxies[p] # g /\ \A l \in Tabs : Inserts(l, g) => l = k
    BY <1>2, <1>6, NamesKept
  <2> QED
    BY <1>3, <1>4, <2>1, NamesKept
<1>10. CommandsApart'
  <2> SUFFICES ASSUME NEW l \in Tabs, l # k, command[l].port \notin crossed, command[l].pc # "idle"
               PROVE  /\ command[l].pc \in {"bind", "insert", "retain"} => handles'[command[l].port] = "none"
                      /\ command[l].pc = "bindproxy" => proxies[command[l].port] = "none"
                      /\ command[l].pc = "insert" => [port |-> command[l].port, host |-> command[l].host] \in forwarded
    BY <1>1, <1>3 DEF CommandsApart
  <2>1. command[l].port # p /\ command[l].port \in GuestPorts
    BY <1>3 DEF LoopInv, LoopTypes, Command
  <2> QED
    BY <1>4, <2>1 DEF LoopInv, CommandsApart
<1>11. EntriesMatch'
  <2>1. ASSUME NEW q \in GuestPorts \ crossed, handles'[q] # "none" PROVE [port |-> q, host |-> handles'[q]] \in forwarded
    BY <1>4, <1>7, <2>1 DEF LoopInv, EntriesMatch
  <2>2. ASSUME NEW e \in forwarded, e.port \notin crossed, e.host \notin failed,
               ~\E l \in Tabs : command'[l].pc = "retain" /\ command'[l].port = e.port
        PROVE  Runs(e.host, e.port) /\ (handles'[e.port] = e.host \/ \E l \in Tabs : l # k /\ Inserts(l, e.host))
    <3>1. ~\E l \in Tabs : command[l].pc = "retain" /\ command[l].port = e.port
      BY <1>1, <1>3, <2>2
    <3>2. e.port \in GuestPorts /\ e.host \in HostPorts \ failed
      BY <2>2 DEF LoopInv, LoopTypes, Entry
    <3>3. Runs(e.host, e.port) /\ (handles[e.port] = e.host \/ \E l \in Tabs : Inserts(l, e.host))
      BY <2>2, <3>1 DEF LoopInv, EntriesMatch
    <3>4. CASE handles[e.port] = e.host
      BY <1>4, <1>7, <2>2, <3>2, <3>3, <3>4, PortsAssumption
    <3>5. CASE Inserts(k, e.host)
      <4>1. e.host = h
        BY <1>6, <3>2, <3>5
      <4>2. Runs(e.host, p)
        BY <1>2, <3>2, <3>5, NamesKept
      <4> QED
        BY <1>4, <3>2, <3>3, <4>1, <4>2, NamesKept
    <3> QED
      BY <3>3, <3>4, <3>5
  <2>3. ASSUME NEW g \in HostPorts, accepting[g].pc # "none", accepting[g].port \notin crossed
        PROVE  handles'[accepting[g].port] = g \/ proxies[accepting[g].port] = g \/ \E l \in Tabs : l # k /\ Inserts(l, g)
    <3>1. handles[accepting[g].port] = g \/ proxies[accepting[g].port] = g \/ \E l \in Tabs : Inserts(l, g)
      BY <2>3 DEF LoopInv, EntriesMatch
    <3>2. accepting[g].port \in GuestPorts /\ g \in HostPorts \ failed
      BY <2>3 DEF LoopInv, LoopTypes, FailedStopped
    <3>3. CASE handles[accepting[g].port] = g
      BY <1>4, <1>7, <2>3, <3>2, <3>3, PortsAssumption
    <3>4. CASE Inserts(k, g)
      <4>1. g = h /\ Runs(g, p)
        BY <1>2, <1>6, <3>2, <3>4, NamesKept
      <4> QED
        BY <1>4, <4>1 DEF Runs
    <3> QED
      BY <3>1, <3>3, <3>4
  <2>4. \A e \in forwarded : e.host \in HostPorts
    BY DEF LoopInv, LoopTypes, Entry
  <2> QED
    BY <1>1, <1>3, <1>5, <2>1, <2>2, <2>3, <2>4 DEF EntriesMatch
<1> QED
  BY <1>3, <1>8, <1>9, <1>10, <1>11 DEF LoopInv

\* stop_forward takes the entry of its port away and returns.
LEMMA RetainKeeps == ASSUME LoopInv, NEW k \in Tabs, Retain(k) PROVE LoopInv'
<1>1. command[k].pc = "retain" /\ Returns(k) /\ UNCHANGED <<accepting, handles, proxies, crossed, failed>>
  BY DEF Retain, loopVars
<1>2. PICK p \in GuestPorts : p = command[k].port
  BY <1>1 DEF LoopInv, LoopTypes, Command
<1>3. /\ command' \in [Tabs -> Command]
      /\ \A l \in Tabs : /\ command'[l].pc = "idle" <=> command'[l].port = "none"
                         /\ command'[l].pc \in {"bind", "insert"} => command'[l].host \in HostPorts
      /\ command'[k].pc = "idle" /\ command'[k].port = "none"
      /\ \A l \in Tabs : l # k => command'[l] = command[l]
      /\ \A l \in Tabs : l # k /\ command[l].port = p => p \in crossed
      /\ CrossingsSeen'
      /\ \A l \in Tabs, g \in HostPorts : Inserts(l, g)' <=> l # k /\ Inserts(l, g)
  BY <1>1, <1>2, Returned
<1>4. forwarded' = {e \in forwarded : e.port # p}
  BY <1>2 DEF Retain
<1>5. \A g \in HostPorts : \A q : Runs(g, q)' <=> Runs(g, q)
  BY <1>1 DEF Runs
<1>6. \A l \in Tabs, g \in HostPorts : Inserts(l, g)' <=> Inserts(l, g)
  BY <1>1, <1>3 DEF Inserts
<1>7. LoopTypes' /\ FailedStopped'
  BY <1>1, <1>3, <1>4 DEF LoopInv, LoopTypes, FailedStopped
<1>8. NamesTrue'
  <2> SUFFICES ASSUME NEW g \in HostPorts \ failed
               PROVE  /\ \A q \in GuestPorts : handles[q] = g \/ proxies[q] = g => Runs(g, q)
                      /\ \A l \in Tabs : Inserts(l, g) => Runs(g, command'[l].port)
                      /\ \A q \in GuestPorts : ~(handles[q] = g /\ proxies[q] = g)
                      /\ \A l, m \in Tabs : Inserts(l, g) /\ Inserts(m, g) => l = m
                      /\ \A l \in Tabs, q \in GuestPorts : Inserts(l, g) => handles[q] # g /\ proxies[q] # g
    BY <1>1, <1>5, <1>6 DEF NamesTrue
  <2>1. \A l \in Tabs : Inserts(l, g) => command'[l] = command[l]
    BY <1>1, <1>3 DEF Inserts
  <2> QED
    BY <2>1, NamesKept
<1>9. CommandsApart'
  <2> SUFFICES ASSUME NEW l \in Tabs, l # k, command[l].port \notin crossed, command[l].pc # "idle"
               PROVE  /\ command[l].pc \in {"bind", "insert", "retain"} => handles[command[l].port] = "none"
                      /\ command[l].pc = "bindproxy" => proxies[command[l].port] = "none"
                      /\ command[l].pc = "insert" => [port |-> command[l].port, host |-> command[l].host] \in forwarded'
    BY <1>1, <1>3 DEF CommandsApart
  <2>1. command[l].port # p
    BY <1>3
  <2>2. [port |-> command[l].port, host |-> command[l].host] \in forwarded
        => [port |-> command[l].port, host |-> command[l].host] \in forwarded'
    BY <1>4, <2>1
  <2> QED
    BY <2>2 DEF LoopInv, CommandsApart
<1>10. EntriesMatch'
  <2>1. ASSUME NEW q \in GuestPorts \ crossed, handles[q] # "none" PROVE [port |-> q, host |-> handles[q]] \in forwarded'
    <3>1. [port |-> q, host |-> handles[q]] \in forwarded
      BY <2>1 DEF LoopInv, EntriesMatch
    <3>2. q # p
      BY <1>1, <1>2, <2>1 DEF LoopInv, CommandsApart
    <3> QED
      BY <1>4, <3>1, <3>2
  <2>2. ASSUME NEW e \in forwarded', e.port \notin crossed, e.host \notin failed,
               ~\E l \in Tabs : command'[l].pc = "retain" /\ command'[l].port = e.port
        PROVE  Runs(e.host, e.port) /\ (handles[e.port] = e.host \/ \E l \in Tabs : Inserts(l, e.host))
    <3>1. e \in forwarded /\ e.port # p
      BY <1>4
    <3>2. ~\E l \in Tabs : command[l].pc = "retain" /\ command[l].port = e.port
      BY <1>2, <1>3, <2>2, <3>1
    <3> QED
      BY <2>2, <3>1, <3>2 DEF LoopInv, EntriesMatch
  <2>3. \A e \in forwarded' : e.host \in HostPorts
    BY <1>4 DEF LoopInv, LoopTypes, Entry
  <2>4. \A g \in HostPorts : \/ accepting[g].pc = "none" \/ accepting[g].port \in crossed
                             \/ handles[accepting[g].port] = g \/ proxies[accepting[g].port] = g
                             \/ \E l \in Tabs : Inserts(l, g)
    BY DEF LoopInv, EntriesMatch
  <2> QED
    BY <1>1, <1>5, <1>6, <2>1, <2>2, <2>3, <2>4 DEF EntriesMatch
<1> QED
  BY <1>3, <1>7, <1>8, <1>9, <1>10 DEF LoopInv

\* start_browser_proxy takes a port of the host and keeps its loop's handle.
LEMMA BindProxyKeeps == ASSUME LoopInv, NEW k \in Tabs, BindProxy(k) PROVE LoopInv'
<1>1. command[k].pc = "bindproxy" /\ Returns(k) /\ UNCHANGED <<forwarded, handles, crossed, failed>>
  BY DEF BindProxy
<1>2. PICK p \in GuestPorts : p = command[k].port
  BY <1>1 DEF LoopInv, LoopTypes, Command
<1>3. PICK h \in HostPorts :
          /\ Free(h) /\ proxies' = [proxies EXCEPT ![p] = h]
          /\ accepting' = [accepting EXCEPT ![h] = [pc |-> "accept", port |-> p, client |-> "none"]]
  BY <1>2 DEF BindProxy
<1>4. /\ command' \in [Tabs -> Command]
      /\ \A l \in Tabs : /\ command'[l].pc = "idle" <=> command'[l].port = "none"
                         /\ command'[l].pc \in {"bind", "insert"} => command'[l].host \in HostPorts
      /\ command'[k].pc = "idle" /\ command'[k].port = "none"
      /\ \A l \in Tabs : l # k => command'[l] = command[l]
      /\ \A l \in Tabs : l # k /\ command[l].port = p => p \in crossed
      /\ CrossingsSeen'
      /\ \A l \in Tabs, g \in HostPorts : Inserts(l, g)' <=> l # k /\ Inserts(l, g)
  BY <1>1, <1>2, Returned
<1>5. /\ accepting' \in [HostPorts -> Loop]
      /\ \A g \in HostPorts : accepting'[g].pc # "none" => accepting'[g].port \in GuestPorts
      /\ accepting'[h].pc = "accept" /\ accepting'[h].port = p
      /\ \A g \in HostPorts : g # h => accepting'[g] = accepting[g]
      /\ \A g \in HostPorts : \A q : Runs(g, q)' <=> Runs(g, q) \/ (g = h /\ q = p)
      /\ h \notin failed /\ \A q : ~Runs(h, q)
      /\ \A q \in GuestPorts : handles[q] # h /\ proxies[q] # h
      /\ \A l \in Tabs : ~Inserts(l, h)
  BY <1>3, LoopStarts
<1>6. /\ proxies' \in [GuestPorts -> HostPorts \cup {"none"}] /\ proxies'[p] = h
      /\ \A q \in GuestPorts : q # p => proxies'[q] = proxies[q]
  BY <1>3 DEF LoopInv, LoopTypes
<1>7. \A l \in Tabs, g \in HostPorts : Inserts(l, g)' <=> Inserts(l, g)
  BY <1>1, <1>4 DEF Inserts
<1>8. p \notin crossed => proxies[p] = "none"
  BY <1>1, <1>2 DEF LoopInv, CommandsApart
<1>9. LoopTypes' /\ FailedStopped'
  BY <1>1, <1>4, <1>5, <1>6 DEF LoopInv, LoopTypes, FailedStopped
<1>10. NamesTrue'
  <2> SUFFICES ASSUME NEW g \in HostPorts \ failed
               PROVE  /\ \A q \in GuestPorts : handles[q] = g \/ proxies'[q] = g => Runs(g, q)'
                      /\ \A l \in Tabs : Inserts(l, g) => Runs(g, command[l].port)'
                      /\ \A q \in GuestPorts : ~(handles[q] = g /\ proxies'[q] = g)
                      /\ \A l, m \in Tabs : Inserts(l, g) /\ Inserts(m, g) => l = m
                      /\ \A l \in Tabs, q \in GuestPorts : Inserts(l, g) => handles[q] # g /\ proxies'[q] # g
    BY <1>1, <1>7 DEF NamesTrue
  <2>1. CASE g = h
    BY <1>2, <1>5, <1>6, <2>1
  <2>2. CASE g # h
    <3>1. \A q \in GuestPorts : proxies'[q] = g => proxies[q] = g
      BY <1>6, <2>2
    <3>2. \A q : Runs(g, q)' <=> Runs(g, q)
      BY <1>5, <2>2
    <3>3. ASSUME NEW l \in Tabs, Inserts(l, g) PROVE Runs(g, command[l].port)'
      <4>1. Runs(g, command[l].port) /\ command'[l] = command[l] /\ accepting'[g] = accepting[g]
        BY <1>1, <1>4, <1>5, <2>2, <3>3, NamesKept DEF Inserts
      <4> QED
        BY <4>1 DEF Runs
    <3> QED
      BY <3>1, <3>2, <3>3, NamesKept
  <2> QED
    BY <2>1, <2>2
<1>11. CommandsApart'
  <2> SUFFICES ASSUME NEW l \in Tabs, l # k, command[l].port \notin crossed, command[l].pc # "idle"
               PROVE  /\ command[l].pc \in {"bind", "insert", "retain"} => handles[command[l].port] = "none"
                      /\ command[l].pc = "bindproxy" => proxies'[command[l].port] = "none"
                      /\ command[l].pc = "insert" => [port |-> command[l].port, host |-> command[l].host] \in forwarded
    BY <1>1, <1>4 DEF CommandsApart
  <2>1. command[l].port # p /\ command[l].port \in GuestPorts
    BY <1>4 DEF LoopInv, LoopTypes, Command
  <2> QED
    BY <1>6, <2>1 DEF LoopInv, CommandsApart
<1>12. EntriesMatch'
  <2>1. \A q \in GuestPorts \ crossed : handles[q] # "none" => [port |-> q, host |-> handles[q]] \in forwarded
    BY DEF LoopInv, EntriesMatch
  <2>2. ASSUME NEW e \in forwarded, e.port \notin crossed, e.host \notin failed,
               ~\E l \in Tabs : command'[l].pc = "retain" /\ command'[l].port = e.port
        PROVE  Runs(e.host, e.port)' /\ (handles[e.port] = e.host \/ \E l \in Tabs : Inserts(l, e.host))
    <3>1. ~\E l \in Tabs : command[l].pc = "retain" /\ command[l].port = e.port
      BY <1>1, <1>4, <2>2
    <3>2. Runs(e.host, e.port) /\ (handles[e.port] = e.host \/ \E l \in Tabs : Inserts(l, e.host))
      BY <2>2, <3>1 DEF LoopInv, EntriesMatch
    <3>3. e.host \in HostPorts
      BY DEF LoopInv, LoopTypes, Entry
    <3> QED
      BY <1>5, <3>2, <3>3
  <2>3. ASSUME NEW g \in HostPorts, accepting'[g].pc # "none", accepting'[g].port \notin crossed
        PROVE  handles[accepting'[g].port] = g \/ proxies'[accepting'[g].port] = g \/ \E l \in Tabs : Inserts(l, g)
    <3>1. CASE g = h
      BY <1>5, <1>6, <3>1
    <3>2. CASE g # h
      <4>1. accepting'[g] = accepting[g] /\ accepting[g].port \in GuestPorts
        BY <1>5, <2>3, <3>2 DEF LoopInv, LoopTypes
      <4>2. handles[accepting[g].port] = g \/ proxies[accepting[g].port] = g \/ \E l \in Tabs : Inserts(l, g)
        BY <2>3, <4>1 DEF LoopInv, EntriesMatch
      <4>3. proxies[accepting[g].port] = g => proxies'[accepting[g].port] = g
        BY <1>6, <1>8, <2>3, <4>1, PortsAssumption
      <4> QED
        BY <4>1, <4>2, <4>3
    <3> QED
      BY <3>1, <3>2
  <2>4. \A e \in forwarded : e.host \in HostPorts
    BY DEF LoopInv, LoopTypes, Entry
  <2> QED
    BY <1>1, <1>7, <2>1, <2>2, <2>3, <2>4 DEF EntriesMatch
<1> QED
  BY <1>4, <1>9, <1>10, <1>11, <1>12 DEF LoopInv

\* stop_browser_proxy, or the port of the guest closes: the loop ends with its handle.
LEMMA StopProxyKeeps == ASSUME LoopInv, NEW p \in GuestPorts, StopProxy(p) PROVE LoopInv'
<1>1. PICK hosts \in SUBSET HostPorts : hosts = {proxies[p]} \cap HostPorts
  OBVIOUS
<1>2. EndLoops(hosts) /\ UNCHANGED <<command, forwarded, handles, crossed, failed>>
  BY <1>1 DEF StopProxy
<1>3. /\ proxies' \in [GuestPorts -> HostPorts \cup {"none"}] /\ proxies'[p] = "none"
      /\ \A q \in GuestPorts : q # p => proxies'[q] = proxies[q]
  BY DEF StopProxy, LoopInv, LoopTypes
<1>4. /\ accepting' \in [HostPorts -> Loop]
      /\ \A h \in HostPorts : h \notin hosts => accepting'[h] = accepting[h]
      /\ \A h \in HostPorts : h \in hosts => accepting'[h].pc = "none" /\ accepting'[h].port = "none"
      /\ \A h \in HostPorts : \A q : Runs(h, q)' <=> Runs(h, q) /\ h \notin hosts
  BY <1>2, LoopsEnded DEF LoopInv
<1>5. \A h \in HostPorts : h \in hosts <=> proxies[p] = h
  BY <1>1
<1>6. \A h : \A k \in Tabs : Inserts(k, h)' <=> Inserts(k, h)
  BY <1>2 DEF Inserts
<1>7. LoopTypes' /\ CrossingsSeen' /\ FailedStopped'
  BY <1>2, <1>3, <1>4 DEF LoopInv, LoopTypes, CrossingsSeen, FailedStopped
<1>8. NamesTrue'
  <2> SUFFICES ASSUME NEW h \in HostPorts \ failed
               PROVE  /\ \A q \in GuestPorts : handles[q] = h \/ proxies'[q] = h => Runs(h, q)'
                      /\ \A k \in Tabs : Inserts(k, h) => Runs(h, command[k].port)'
                      /\ \A q \in GuestPorts : ~(handles[q] = h /\ proxies'[q] = h)
                      /\ \A k, l \in Tabs : Inserts(k, h) /\ Inserts(l, h) => k = l
                      /\ \A k \in Tabs, q \in GuestPorts : Inserts(k, h) => handles[q] # h /\ proxies'[q] # h
    BY <1>2, <1>6 DEF NamesTrue
  <2>1. \A q \in GuestPorts : proxies'[q] = h => proxies[q] = h /\ q # p
    BY <1>3, PortsAssumption
  <2>2. ASSUME NEW q \in GuestPorts, handles[q] = h \/ proxies'[q] = h PROVE Runs(h, q)'
    <3>1. Runs(h, q) /\ ~(handles[q] = h /\ proxies[q] = h)
      BY <2>1, <2>2, NamesKept
    <3>2. ASSUME proxies[p] = h PROVE FALSE
      <4>1. q = p
        BY <3>1, <3>2, NamesKept
      <4> QED
        BY <2>1, <2>2, <3>1, <3>2, <4>1
    <3> QED
      BY <1>4, <1>5, <3>1, <3>2
  <2>3. ASSUME NEW k \in Tabs, Inserts(k, h) PROVE Runs(h, command[k].port)'
    <3>1. Runs(h, command[k].port) /\ proxies[p] # h
      BY <2>3, NamesKept
    <3>2. accepting'[h] = accepting[h] /\ command'[k] = command[k]
      BY <1>2, <1>4, <1>5, <3>1
    <3> QED
      BY <3>1, <3>2 DEF Runs
  <2> QED
    BY <2>1, <2>2, <2>3, NamesKept
<1>9. CommandsApart'
  <2> SUFFICES ASSUME NEW k \in Tabs, command[k].port \notin crossed, command[k].pc = "bindproxy"
               PROVE  proxies'[command[k].port] = "none"
    BY <1>2 DEF LoopInv, CommandsApart
  <2>1. command[k].port \in GuestPorts
    BY DEF LoopInv, LoopTypes, Command
  <2> QED
    BY <1>3, <2>1 DEF LoopInv, CommandsApart
<1>10. EntriesMatch'
  <2>1. \A q \in GuestPorts \ crossed : handles[q] # "none" => [port |-> q, host |-> handles[q]] \in forwarded
    BY DEF LoopInv, EntriesMatch
  <2>2. ASSUME NEW e \in forwarded, e.port \notin crossed, e.host \notin failed,
               ~\E k \in Tabs : command[k].pc = "retain" /\ command[k].port = e.port
        PROVE  Runs(e.host, e.port)' /\ (handles[e.port] = e.host \/ \E k \in Tabs : Inserts(k, e.host))
    <3>1. Runs(e.host, e.port) /\ (handles[e.port] = e.host \/ \E k \in Tabs : Inserts(k, e.host))
      BY <2>2 DEF LoopInv, EntriesMatch
    <3>2. e.host \in HostPorts \ failed /\ e.port \in GuestPorts
      BY <2>2 DEF LoopInv, LoopTypes, Entry
    <3>3. proxies[p] # e.host
      <4> SUFFICES ASSUME proxies[p] = e.host PROVE FALSE
        OBVIOUS
      <4>1. e.port = p
        BY <3>1, <3>2, NamesKept
      <4> QED
        BY <3>1, <3>2, <4>1, NamesKept
    <3> QED
      BY <1>4, <1>5, <3>1, <3>2, <3>3
  <2>3. ASSUME NEW h \in HostPorts, accepting'[h].pc # "none", accepting'[h].port \notin crossed
        PROVE  handles[accepting'[h].port] = h \/ proxies'[accepting'[h].port] = h \/ \E k \in Tabs : Inserts(k, h)
    <3>1. h \notin hosts /\ accepting'[h] = accepting[h]
      BY <1>4, <2>3
    <3>2. accepting[h].port \in GuestPorts
      BY <2>3, <3>1 DEF LoopInv, LoopTypes
    <3>3. handles[accepting[h].port] = h \/ proxies[accepting[h].port] = h \/ \E k \in Tabs : Inserts(k, h)
      BY <2>3, <3>1 DEF LoopInv, EntriesMatch
    <3> QED
      BY <1>3, <1>5, <3>1, <3>2, <3>3
  <2> QED
    BY <1>2, <1>6, <2>1, <2>2, <2>3 DEF EntriesMatch
<1> QED
  BY <1>7, <1>8, <1>9, <1>10 DEF LoopInv

\* stop_forward ends the loop of its port.
LEMMA StopKeeps == ASSUME LoopInv, NEW k \in Tabs, NEW p \in GuestPorts, StopForward(k, p) PROVE LoopInv'
<1>1. PICK hosts \in SUBSET HostPorts : hosts = LoopOf(p)
  BY DEF LoopOf
<1>2. EndLoops(hosts) /\ Begin(k, "stop", p, "none", "retain") /\ UNCHANGED <<forwarded, proxies, failed>>
  BY <1>1 DEF StopForward
<1>3. /\ handles' \in [GuestPorts -> HostPorts \cup {"none"}] /\ handles'[p] = "none"
      /\ \A q \in GuestPorts : q # p => handles'[q] = handles[q]
  BY DEF StopForward, LoopInv, LoopTypes
<1>4. /\ accepting' \in [HostPorts -> Loop]
      /\ \A h \in HostPorts : h \notin hosts => accepting'[h] = accepting[h]
      /\ \A h \in HostPorts : h \in hosts => accepting'[h].pc = "none" /\ accepting'[h].port = "none"
      /\ \A h \in HostPorts : \A q : Runs(h, q)' <=> Runs(h, q) /\ h \notin hosts
  BY <1>2, LoopsEnded DEF LoopInv
<1>5. \A h \in HostPorts : h \in hosts <=> handles[p] = h
  BY <1>1 DEF LoopOf
<1>6. /\ command' \in [Tabs -> Command]
      /\ \A l \in Tabs : /\ command'[l].pc = "idle" <=> command'[l].port = "none"
                         /\ command'[l].pc \in {"bind", "insert"} => command'[l].host \in HostPorts
      /\ CrossingsSeen'
      /\ crossed \subseteq crossed'
      /\ command[k].pc = "idle" /\ command'[k] = [kind |-> "stop", port |-> p, host |-> "none", pc |-> "retain"]
      /\ \A l \in Tabs : l # k => command'[l] = command[l] /\ (command[l].port = p => p \in crossed')
      /\ \A l \in Tabs, g \in HostPorts : Inserts(l, g)' <=> Inserts(l, g)
  <2>1. \A h \in HostPorts : "retain" # "bind"
    OBVIOUS
  <2> QED
    BY <1>2, <2>1, Begins
<1>7. LoopTypes' /\ FailedStopped'
  BY <1>2, <1>3, <1>4, <1>6 DEF LoopInv, LoopTypes, FailedStopped
<1>8. NamesTrue'
  <2> SUFFICES ASSUME NEW h \in HostPorts \ failed
               PROVE  /\ \A q \in GuestPorts : handles'[q] = h \/ proxies[q] = h => Runs(h, q)'
                      /\ \A l \in Tabs : Inserts(l, h) => Runs(h, command[l].port)'
                      /\ \A q \in GuestPorts : ~(handles'[q] = h /\ proxies[q] = h)
                      /\ \A l, m \in Tabs : Inserts(l, h) /\ Inserts(m, h) => l = m
                      /\ \A l \in Tabs, q \in GuestPorts : Inserts(l, h) => handles'[q] # h /\ proxies[q] # h
    BY <1>2, <1>6 DEF NamesTrue
  <2>1. \A q \in GuestPorts : handles'[q] = h => handles[q] = h /\ q # p
    BY <1>3, PortsAssumption
  <2>2. ASSUME NEW q \in GuestPorts, handles'[q] = h \/ proxies[q] = h PROVE Runs(h, q)'
    <3>1. Runs(h, q) /\ ~(handles[q] = h /\ proxies[q] = h)
      BY <2>1, <2>2, NamesKept
    <3>2. ASSUME handles[p] = h PROVE FALSE
      <4>1. q = p
        BY <3>1, <3>2, NamesKept
      <4> QED
        BY <2>1, <2>2, <3>1, <3>2, <4>1
    <3> QED
      BY <1>4, <1>5, <3>1, <3>2
  <2>3. ASSUME NEW l \in Tabs, Inserts(l, h) PROVE Runs(h, command[l].port)'
    <3>1. Runs(h, command[l].port) /\ handles[p] # h
      BY <2>3, NamesKept
    <3>2. accepting'[h] = accepting[h] /\ command'[l] = command[l]
      BY <1>4, <1>5, <1>6, <2>3, <3>1 DEF Inserts
    <3> QED
      BY <3>1, <3>2 DEF Runs
  <2> QED
    BY <2>1, <2>2, <2>3, NamesKept
<1>9. CommandsApart'
  <2> SUFFICES ASSUME NEW l \in Tabs, command'[l].port \notin crossed'
               PROVE  /\ command'[l].pc \in {"bind", "insert", "retain"} => handles'[command'[l].port] = "none"
                      /\ command'[l].pc = "bindproxy" => proxies[command'[l].port] = "none"
                      /\ command'[l].pc = "insert" => [port |-> command'[l].port, host |-> command'[l].host] \in forwarded
    BY <1>2 DEF CommandsApart
  <2>1. CASE l = k
    BY <1>3, <1>6, <2>1
  <2>2. CASE l # k
    <3>1. command'[l] = command[l] /\ command[l].port # p /\ command[l].port \notin crossed
      BY <1>6, <2>2
    <3>2. command[l].pc # "idle" => command[l].port \in GuestPorts
      BY DEF LoopInv, LoopTypes, Command
    <3> QED
      BY <1>3, <3>1, <3>2 DEF LoopInv, CommandsApart
  <2> QED
    BY <2>1, <2>2
<1>10. EntriesMatch'
  <2>1. ASSUME NEW q \in GuestPorts \ crossed', handles'[q] # "none" PROVE [port |-> q, host |-> handles'[q]] \in forwarded
    BY <1>3, <1>6, <2>1 DEF LoopInv, EntriesMatch
  <2>2. ASSUME NEW e \in forwarded, e.port \notin crossed', e.host \notin failed,
               ~\E l \in Tabs : command'[l].pc = "retain" /\ command'[l].port = e.port
        PROVE  Runs(e.host, e.port)' /\ (handles'[e.port] = e.host \/ \E l \in Tabs : Inserts(l, e.host))
    <3>1. e.port # p /\ e.port \notin crossed /\ ~\E l \in Tabs : command[l].pc = "retain" /\ command[l].port = e.port
      BY <1>6, <2>2
    <3>2. Runs(e.host, e.port) /\ (handles[e.port] = e.host \/ \E l \in Tabs : Inserts(l, e.host))
      BY <2>2, <3>1 DEF LoopInv, EntriesMatch
    <3>3. e.host \in HostPorts \ failed /\ e.port \in GuestPorts
      BY <2>2 DEF LoopInv, LoopTypes, Entry
    <3>4. handles[p] # e.host
      BY <3>1, <3>2, <3>3, NamesKept
    <3> QED
      BY <1>3, <1>4, <1>5, <3>1, <3>2, <3>3, <3>4
  <2>3. ASSUME NEW h \in HostPorts, accepting'[h].pc # "none", accepting'[h].port \notin crossed'
        PROVE  handles'[accepting'[h].port] = h \/ proxies[accepting'[h].port] = h \/ \E l \in Tabs : Inserts(l, h)
    <3>1. h \notin hosts /\ accepting'[h] = accepting[h]
      BY <1>4, <2>3
    <3>2. accepting[h].port \in GuestPorts
      BY <2>3, <3>1 DEF LoopInv, LoopTypes
    <3>3. handles[accepting[h].port] = h \/ proxies[accepting[h].port] = h \/ \E l \in Tabs : Inserts(l, h)
      BY <1>6, <2>3, <3>1 DEF LoopInv, EntriesMatch
    <3> QED
      BY <1>3, <1>5, <3>1, <3>2, <3>3
  <2>4. \A e \in forwarded : e.host \in HostPorts
    BY DEF LoopInv, LoopTypes, Entry
  <2> QED
    BY <1>2, <1>6, <2>1, <2>2, <2>3, <2>4 DEF EntriesMatch
<1> QED
  BY <1>6, <1>7, <1>8, <1>9, <1>10 DEF LoopInv

\* The entries, the loops and what names them.
LEMMA LoopStepKeeps == LoopInv /\ WatchInv /\ [PortsNext]_portVars => LoopInv'
<1> SUFFICES ASSUME LoopInv, WatchInv, [PortsNext]_portVars PROVE LoopInv'
  OBVIOUS
<1>1. ASSUME UNCHANGED <<command, forwarded, handles, proxies, crossed, failed, accepting>> PROVE LoopInv'
  <2>1. accepting \in [HostPorts -> Loop]
    BY DEF LoopInv, LoopTypes
  <2> QED
    BY <1>1, <2>1, LoopsMove
<1>2. CASE Poll \/ ScanProcesses \/ WatchEnds \/ \E p \in GuestPorts : Flip(p)
  BY <1>1, <1>2 DEF Poll, ScanProcesses, WatchEnds, Flip, loopVars, entryVars
<1>3. CASE Receive
  <2>1. Head(wire) \in Reports /\ UNCHANGED command
    BY <1>3 DEF Receive, WatchInv, WatchTypes
  <2>2. CASE PortClosed
    BY <2>1, <2>2, ClosedKeeps
  <2>3. CASE PortOpened \/ ProcessSnapshot
    BY <1>1, <2>1, <2>3 DEF PortOpened, ProcessSnapshot, loopVars
  <2> QED
    BY <1>3, <2>2, <2>3 DEF Receive
<1>4. CASE (\E c \in Clients : ClientConnects(c)) \/ \E w \in Relays : Offer(w) \/ BridgeEnds(w)
  BY <1>1, <1>4 DEF ClientConnects, Offer, BridgeEnds, entryVars
<1>5. CASE UNCHANGED portVars
  BY <1>1, <1>5 DEF portVars
<1> QED
  BY <1>2, <1>3, <1>4, <1>5, LoopMoves, FailureKeeps, StopProxyKeeps, BindKeeps, InsertKeeps, RetainKeeps,
     BindProxyKeeps, StopKeeps, StartKeeps DEF PortsNext

\* Nothing is forwarded at first.
LEMMA PortsInitInv == PortsInit => WatchInv /\ LoopInv
<1> SUFFICES ASSUME PortsInit PROVE WatchInv /\ LoopInv
  OBVIOUS
<1>1. /\ listening = {} /\ known = {} /\ wire = << >> /\ detected = {} /\ forwarded = {} /\ failed = {}
      /\ handles = [p \in GuestPorts |-> "none"] /\ proxies = [p \in GuestPorts |-> "none"]
      /\ accepting = [h \in HostPorts |-> NoLoop] /\ command = [k \in Tabs |-> NoCommand] /\ crossed = {}
  BY DEF PortsInit, PortsInitWith
<1>2. NoLoop \in Loop /\ NoLoop.pc = "none" /\ NoCommand \in Command /\ NoCommand.pc = "idle" /\ NoCommand.port = "none"
  BY DEF NoLoop, Loop, NoCommand, Command
<1>3. WatchInv
  BY <1>1 DEF WatchInv, WatchTypes, ReportsTell, Tells
<1>4. LoopTypes
  BY <1>1, <1>2 DEF LoopTypes
<1>5. CrossingsSeen /\ FailedStopped /\ EntriesMatch
  BY <1>1, <1>2 DEF CrossingsSeen, FailedStopped, EntriesMatch
<1>6. NamesTrue
  BY <1>1, <1>2, PortsAssumption DEF NamesTrue, Inserts
<1>7. CommandsApart
  BY <1>1, <1>2 DEF CommandsApart
<1> QED
  BY <1>3, <1>4, <1>5, <1>6, <1>7 DEF LoopInv

\* With everything read and every loop named, the ports are accounted for.
LEMMA PortsInvAccounts == WatchInv /\ LoopInv => PortsAccounted
<1> SUFFICES ASSUME WatchInv, LoopInv PROVE PortsAccounted
  OBVIOUS
<1>1. watched /\ wire = << >> => detected = known
  <2> SUFFICES ASSUME watched, wire = << >> PROVE \A p \in GuestPorts : p \in known <=> p \in detected
    BY DEF WatchInv, WatchTypes
  <2>1. Len(wire) = 0 /\ \A i \in 1..0 : FALSE
    OBVIOUS
  <2> QED
    BY <2>1 DEF WatchInv, ReportsTell, Tells
<1>2. \A h \in HostPorts :
         LET p == accepting[h].port
         IN accepting[h].pc = "none" \/ p \in crossed \/ handles[p] = h \/ proxies[p] = h
            \/ \E k \in Tabs : command[k].pc = "insert" /\ command[k].host = h
  BY DEF LoopInv, EntriesMatch, Inserts
<1>3. \A e \in forwarded :
         \/ e.port \in crossed \/ e.host \in failed \/ accepting[e.host].port = e.port
         \/ \E k \in Tabs : command[k].pc = "retain" /\ command[k].port = e.port
  BY DEF LoopInv, EntriesMatch, Runs
<1> QED
  BY <1>1, <1>2, <1>3 DEF PortsAccounted

\* What the host shows of the ports is what the watcher reported, and every accept
\* loop of forward_port and start_browser_proxy can be stopped, for any number of
\* ports, commands, clients and workers.
THEOREM PortsAreAccounted == PortsSpec => []PortsAccounted
<1>1. PortsInit => WatchInv /\ LoopInv
  BY PortsInitInv
<1>2. WatchInv /\ LoopInv /\ [PortsNext]_portVars => (WatchInv /\ LoopInv)'
  BY WatchStep, LoopStepKeeps
<1>3. WatchInv /\ LoopInv => PortsAccounted
  BY PortsInvAccounts
<1> QED
  BY <1>1, <1>2, <1>3, PTL DEF PortsSpec
==============================================================================
