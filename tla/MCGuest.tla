------------------------------- MODULE MCGuest -------------------------------
(***************************************************************************)
(* The shells of the guest agent and the port daemon with its host side.   *)
(* They share no variable, so a behaviour runs one of them, picked by part.*)
(* Shells: two sessions for one shell, so that the cap is met and          *)
(* descriptors are used again.  Ports: two clients and a quiet guest, or   *)
(* one client and a guest whose ports change.                              *)
(***************************************************************************)
EXTENDS AgentShells, Ports

CONSTANT c1

VARIABLE part
guestVars == <<part, vars, portVars>>

GuestInit ==
    /\ part \in {"shells", "ports"} /\ Init
    /\ PortsInitWith(Clients, 0, MaxFlips) \/ (part = "ports" /\ PortsInitWith({c1}, 1, 0))

GuestNext ==
    \/ part = "shells" /\ Next /\ UNCHANGED <<part, portVars>>
    \/ part = "ports" /\ PortsNext /\ UNCHANGED <<part, vars>>

\* The fairness of both; the bridge turns its loop only where the shells run.
GuestSpec ==
    /\ GuestInit /\ [][GuestNext]_guestVars /\ PortsFairness
    /\ WF_vars(ControlStep) /\ WF_vars(HostReply) /\ WF_vars(part = "shells" /\ BridgeStep)

\* Nothing waits for ever: a shell that exited is taken out of the map, and every
\* client of a forwarded port is connected or turned away.
WaitsEnd == ExitedShellsReaped /\ ClientsAnswered
==============================================================================
