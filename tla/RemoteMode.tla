------------------------------ MODULE RemoteMode ------------------------------
(***************************************************************************)
(* detach_venv and reattach_venv: the disk of an environment is carried to *)
(* a server in the cloud and back, in steps that wait for ssh and for the  *)
(* cloud, any of which may fail, and between which the program may die.    *)
(* The mode of an environment is on disk, in its remote.json.              *)
(***************************************************************************)
EXTENDS Naturals, FiniteSets, TLC

CONSTANTS
    Venvs,          \* environments
    Servers,        \* servers the cloud may provision
    MaxWork,        \* bound: changes a user makes to one disk
    MaxTrips        \* bound: detach and reattach commands

VARIABLES
    mode,       \* venv -> remote.json: [type, server]
    at,         \* venv -> the step its command is at; "idle" without one
    target,     \* venv -> the server its command works with
    local,      \* venv -> version of scratch.img, Broken when cut off
    vps,        \* server -> [state, disk, mounted]
    latest,     \* venv -> number of changes made to its disk
    trips,      \* commands issued
    died,       \* the program died
    spoiled     \* venvs whose disk met what the code does not guard against

remoteVars == <<mode, at, target, local, vps, latest, trips, died, spoiled>>

Nowhere == "none"
Broken == MaxWork + 1

ASSUME RemoteAssumption == MaxWork \in Nat /\ Nowhere \notin Servers \cup Venvs

LocalMode == [type |-> "Local", server |-> Nowhere]

RemoteInit ==
    /\ mode = [v \in Venvs |-> LocalMode] /\ at = [v \in Venvs |-> "idle"]
    /\ target = [v \in Venvs |-> Nowhere]
    /\ local = [v \in Venvs |-> 0] /\ latest = [v \in Venvs |-> 0]
    /\ vps = [s \in Servers |-> [state |-> "none", disk |-> 0, mounted |-> Nowhere]]
    /\ trips = 0 /\ died = FALSE /\ spoiled = {}

------------------------------------------------------------------------------
(* Work on the disk.                                                       *)

\* In the local machine.  detach_venv does not ask whether it runs, and
\* start_venv not whether the environment is remote.
LocalWork(v) ==
    /\ latest[v] < MaxWork /\ local[v] # Broken
    /\ latest' = [latest EXCEPT ![v] = @ + 1] /\ local' = [local EXCEPT ![v] = latest[v] + 1]
    /\ spoiled' = IF mode[v] = LocalMode THEN spoiled ELSE spoiled \cup {v}
    /\ UNCHANGED <<mode, at, target, vps, trips, died>>

\* In the tmux session on a server.
RemoteWork(s) ==
    /\ vps[s].mounted # Nowhere
    /\ LET v == vps[s].mounted
       IN /\ latest[v] < MaxWork /\ latest' = [latest EXCEPT ![v] = @ + 1]
          /\ vps' = [vps EXCEPT ![s].disk = latest[v] + 1]
    /\ UNCHANGED <<mode, at, target, local, trips, died, spoiled>>

------------------------------------------------------------------------------
(* detach_venv.                                                            *)

Move(v, pc) == at' = [at EXCEPT ![v] = pc]

\* The frontend offers it for an environment that is local.
Detach(v) ==
    /\ at[v] = "idle" /\ mode[v] = LocalMode /\ trips < MaxTrips /\ trips' = trips + 1
    /\ mode' = [mode EXCEPT ![v].type = "Detaching"] /\ Move(v, "create")
    /\ UNCHANGED <<target, local, vps, latest, died, spoiled>>

RolledBack(v) == [mode EXCEPT ![v] = LocalMode]

\* Any step fails: ssh-keygen, the cloud, a server that does not come up, ssh.
Rollback(v) ==
    /\ at[v] \in {"create", "cleanup", "again", "up", "start"} /\ Move(v, "idle")
    /\ mode' = RolledBack(v)
    /\ UNCHANGED <<target, local, vps, latest, trips, died, spoiled>>

\* The remote.json of v names the server, or its detach has been given it.
Names(v, s) == mode[v].server = s
Takes(v, s) == at[v] \in {"up", "start"} /\ target[v] = s

\* Nothing keeps an idle server that a remote.json still names, or that another
\* detach works with, from being given to v as well.
GivenAway(v, s) ==
    {w \in Venvs : Names(w, s) \/ Takes(w, s)} \cup {w \in {v} : \E u \in Venvs : Takes(u, s)}

\* create_remote_session gives an idle server, a new one, or a conflict.
CreateRemoteSession(v) ==
    /\ at[v] \in {"create", "again"}
    /\ \E s \in Servers :
          /\ vps[s].state \in {"none", "idle"}
          /\ vps' = [vps EXCEPT ![s].state = "ready"]
          /\ target' = [target EXCEPT ![v] = s] /\ Move(v, "up")
          /\ spoiled' = spoiled \cup GivenAway(v, s)
    /\ UNCHANGED <<mode, local, latest, trips, died>>

Conflict(v) ==
    /\ at[v] = "create" /\ \E s \in Servers : vps[s].state = "ready"
    /\ Move(v, "cleanup")
    /\ UNCHANGED <<mode, target, local, vps, latest, trips, died, spoiled>>

\* force_cleanup_remote_sessions destroys every session of the user, in use or
\* not; a destroy that fails is only logged.
ForceCleanup(v) ==
    /\ at[v] = "cleanup" /\ Move(v, "again")
    /\ \E gone \in SUBSET {s \in Servers : vps[s].state \in {"ready", "idle"}} :
          /\ vps' = [s \in Servers |-> IF s \in gone THEN [state |-> "gone", disk |-> 0, mounted |-> Nowhere]
                                       ELSE vps[s]]
          /\ spoiled' = spoiled \cup {w \in Venvs : mode[w].server \in gone \/ (at[w] # "idle" /\ target[w] \in gone)}
    /\ UNCHANGED <<mode, target, local, latest, trips, died>>

\* transfer_scratch up; a server that is gone cannot be reached.
TransferUp(v) ==
    /\ at[v] = "up" /\ vps[target[v]].state # "gone" /\ local[v] # Broken /\ Move(v, "start")
    /\ vps' = [vps EXCEPT ![target[v]].disk = local[v], ![target[v]].mounted = Nowhere]
    /\ UNCHANGED <<mode, target, local, latest, trips, died, spoiled>>

\* umount of what is left, mount and tmux, and the new mode.
StartSession(v) ==
    /\ at[v] = "start" /\ vps[target[v]].state # "gone" /\ Move(v, "idle")
    /\ vps' = [vps EXCEPT ![target[v]].mounted = v]
    /\ mode' = [mode EXCEPT ![v] = [type |-> "Remote", server |-> target[v]]]
    /\ UNCHANGED <<target, local, latest, trips, died, spoiled>>

------------------------------------------------------------------------------
(* reattach_venv.                                                          *)

\* A reattach that failed may be tried again.
Reattach(v) ==
    /\ at[v] = "idle" /\ mode[v].type \in {"Remote", "Reattaching"}
    /\ trips < MaxTrips /\ trips' = trips + 1
    /\ mode' = [mode EXCEPT ![v].type = "Reattaching"]
    /\ target' = [target EXCEPT ![v] = mode[v].server] /\ Move(v, "stop")
    /\ UNCHANGED <<local, vps, latest, died, spoiled>>

Unmounted(v) == [vps EXCEPT ![target[v]].mounted = Nowhere]

\* kill-server, sync and umount; an error is ignored.
StopSession(v) ==
    /\ at[v] = "stop" /\ Move(v, "down")
    /\ \/ vps' = Unmounted(v) /\ UNCHANGED spoiled
       \/ UNCHANGED vps /\ spoiled' = spoiled \cup {v}
    /\ UNCHANGED <<mode, target, local, latest, trips, died>>

\* transfer_scratch down, over the local disk.
TransferDown(v) ==
    /\ at[v] = "down" /\ vps[target[v]].state # "gone" /\ Move(v, "release")
    /\ local' = [local EXCEPT ![v] = vps[target[v]].disk]
    /\ UNCHANGED <<mode, target, vps, latest, trips, died, spoiled>>

\* Takes the environment back as detach does.
GivenUp(v) == [mode EXCEPT ![v] = LocalMode]

\* The mode stays for another attempt.
Kept(v) == mode

TransferDownFails(v) ==
    /\ at[v] = "down" /\ Move(v, "idle")
    /\ local' = [local EXCEPT ![v] = Broken] /\ mode' = Kept(v)
    /\ UNCHANGED <<target, vps, latest, trips, died, spoiled>>

\* release_remote_session at the cloud, or its failure.
Release(v) ==
    /\ at[v] = "release" /\ Move(v, "end")
    /\ vps' \in {vps, [vps EXCEPT ![target[v]].state = IF @ = "ready" THEN "idle" ELSE @]}
    /\ UNCHANGED <<mode, target, local, latest, trips, died, spoiled>>

\* The answer has come, and remote.json is removed.
FinishReattach(v) ==
    /\ at[v] = "end" /\ Move(v, "idle") /\ mode' = [mode EXCEPT ![v] = LocalMode]
    /\ UNCHANGED <<target, local, vps, latest, trips, died, spoiled>>

\* The program dies; remote.json is cut off when it was being written, and
\* load_mode then takes the environment for a local one.
RemoteCrash ==
    /\ ~died /\ died' = TRUE /\ at' = [v \in Venvs |-> "idle"]
    /\ local' = [v \in Venvs |-> IF at[v] = "down" THEN Broken ELSE local[v]]
    /\ \E cut \in SUBSET {v \in Venvs : at[v] \in {"stop", "create"}} :
          /\ mode' = [v \in Venvs |-> IF v \in cut THEN LocalMode ELSE mode[v]]
          /\ spoiled' = spoiled \cup {v \in cut : at[v] = "stop"}
    /\ UNCHANGED <<target, vps, latest, trips>>

RemoteNext ==
    \/ \E v \in Venvs : \/ LocalWork(v) \/ Detach(v) \/ Rollback(v) \/ CreateRemoteSession(v) \/ Conflict(v)
                        \/ ForceCleanup(v) \/ TransferUp(v) \/ StartSession(v)
                        \/ Reattach(v) \/ StopSession(v) \/ TransferDown(v) \/ TransferDownFails(v) \/ Release(v)
                        \/ FinishReattach(v)
    \/ \E s \in Servers : RemoteWork(s)
    \/ RemoteCrash

RemoteSpec == RemoteInit /\ [][RemoteNext]_remoteVars

------------------------------------------------------------------------------
(* Properties.                                                             *)

\* Versions and steps keep their types, and an environment is on its way out
\* only while its detach is at work, or after the program died in one.
RemoteTypeOK ==
    /\ \A v \in Venvs : local[v] \in 0..Broken /\ latest[v] \in 0..MaxWork
    /\ \A v \in Venvs : mode[v].type = "Detaching" => died \/ at[v] # "idle"
    /\ \A v \in Venvs : mode[v].type \in {"Remote", "Reattaching"} <=> mode[v].server # Nowhere

\* The newest version of a disk is where the mode says: here when the environment
\* is local or on its way out, on its server until the way back is complete,
\* whatever step fails and wherever the program dies.  Out of this are disks the
\* code does not guard (spoiled): worked on here while they are away, on a session
\* another detach destroyed or that could not be stopped, with a remote.json cut
\* off, and on a server given to another detach while remote.json names it, as
\* one is when the program dies between its release and the end of remote.json.
WorkKept ==
    \A v \in Venvs \ spoiled :
        IF mode[v].server = Nowhere THEN local[v] = latest[v] ELSE vps[mode[v].server].disk = latest[v]
==============================================================================
