--------------------------------- MODULE Vpn ---------------------------------
(***************************************************************************)
(* The WireGuard manager of a virtual environment: connect, disconnect and *)
(* the connections the proxy opens through it.  connect lets go of the     *)
(* manager's lock while it waits for the handshake, so calls overlap.      *)
(***************************************************************************)
EXTENDS Naturals, FiniteSets, Sequences, TLC

CONSTANTS
    Callers,        \* commands of the frontend: vpn_connect
    Dialers,        \* upstream connections of the proxy
    Configs,        \* configurations a user may paste
    MaxTunnels      \* bound: tunnels that are created

Line == [kind : {"section", "key", "neither"}, name : STRING, value : {"good", "bad", "empty", "none"}]

ASSUME VpnAssumption == Configs \subseteq Seq(Line)

VARIABLES
    vpn,        \* VpnManagerInner: [status, tunnel, poll, config]
    tunnels,    \* tunnels in the order of their creation: [session, driven, open]
    call,       \* caller -> tunnel whose handshake it waits for; 0 when idle
    dial,       \* dialer -> [pc, tunnel]
    overlap,    \* a call came while another waited
    detached    \* tunnels whose poll task lost its handle in a later connect

vpnVars == <<vpn, tunnels, call, dial, overlap, detached>>

VpnInit ==
    /\ vpn = [status |-> "disconnected", tunnel |-> 0, poll |-> 0, config |-> << >>]
    /\ tunnels = << >>
    /\ call = [k \in Callers |-> 0]
    /\ dial = [d \in Dialers |-> [pc |-> "idle", tunnel |-> 0]]
    /\ overlap = FALSE /\ detached = {}

------------------------------------------------------------------------------
(* config::parse.  A line is a section header, a key with its value, which *)
(* is "good", "bad" or "empty", or neither.                                *)

Header(name) == [kind |-> "section", name |-> name, value |-> "none"]
Setting(name, value) == [kind |-> "key", name |-> name, value |-> value]
Neither == [kind |-> "neither", name |-> "", value |-> "none"]

Known(section) ==
    IF section = "Interface" THEN {"PrivateKey", "Address", "DNS"}
    ELSE {"PublicKey", "PresharedKey", "Endpoint", "AllowedIPs", "PersistentKeepalive"}
Lists == {"DNS", "AllowedIPs"}

\* One line: the section it leaves, the keys it sets, or a failure.
ParseLine(s, line) ==
    IF s.failed THEN s ELSE
    CASE line.kind = "section" /\ line.name \in {"Interface", "Peer"} -> [s EXCEPT !.section = line.name]
      [] line.kind = "key" /\ s.section # "none" ->
            IF line.name \notin Known(s.section) \/ (line.name \in Lists /\ line.value = "empty") THEN s
            ELSE IF line.value = "good" THEN [s EXCEPT !.keys = @ \cup {line.name}]
            ELSE [s EXCEPT !.failed = TRUE]
      [] OTHER -> [s EXCEPT !.failed = TRUE]

Required == {"PrivateKey", "Address", "PublicKey", "Endpoint", "AllowedIPs"}

\* PartialInterface::build and PartialPeer::build.
Build(keys) == Required \subseteq keys

\* What the parser knows after the first i lines.
Parsed(lines) ==
    LET upTo[i \in 0..Len(lines)] ==
            IF i = 0 THEN [section |-> "none", keys |-> {}, failed |-> FALSE]
            ELSE ParseLine(upTo[i - 1], lines[i])
    IN upTo

Parses(lines) == LET last == Parsed(lines)[Len(lines)] IN ~last.failed /\ Build(last.keys)

------------------------------------------------------------------------------
(* VpnManager.                                                             *)

Waiting == {k \in Callers : call[k] # 0}

\* abort of the poll task; a tunnel is driven by its task.
Abort(t) == IF t = 0 THEN tunnels ELSE [tunnels EXCEPT ![t].driven = FALSE]

Connect(k, lines) ==
    /\ call[k] = 0 /\ Parses(lines) /\ Len(tunnels) < MaxTunnels
    /\ \/ \* WgTunnel::new fails: an older tunnel stays where it is
          /\ vpn' = [vpn EXCEPT !.status = "error", !.config = lines]
          /\ UNCHANGED <<tunnels, call, detached>>
       \/ LET t == Len(tunnels) + 1
          IN /\ tunnels' = Append(tunnels, [session |-> "none", driven |-> TRUE, open |-> 0])
             /\ vpn' = [status |-> "connecting", tunnel |-> t, poll |-> t, config |-> lines]
             /\ call' = [call EXCEPT ![k] = t]
             /\ detached' = IF vpn.poll = 0 THEN detached ELSE detached \cup {vpn.poll}
    /\ overlap' = (overlap \/ Waiting # {})
    /\ UNCHANGED dial

\* is_established: boringtun holds a session.
Up(t) == tunnels[t].session = "fresh"

\* poll is called by the tunnel's task and by the connections through it.
Polled(t) == tunnels[t].driven \/ \E d \in Dialers : dial[d].pc \in {"syn", "stream"} /\ dial[d].tunnel = t

Session(t, s) ==
    /\ Polled(t) /\ tunnels' = [tunnels EXCEPT ![t].session = s]
    /\ UNCHANGED <<vpn, call, dial, overlap, detached>>

\* poll receives the server's answer, the first time or after the session expired.
WgHandshake(t) == ~Up(t) /\ Session(t, "fresh")

\* The timers of boringtun drop a session that was not renewed; the manager never
\* looks at it again.
WgExpires(t) == Up(t) /\ Session(t, "expired")

ConnectDone(k) ==
    /\ call[k] # 0 /\ Up(call[k])
    /\ vpn' = [vpn EXCEPT !.status = "connected"]
    /\ call' = [call EXCEPT ![k] = 0]
    /\ UNCHANGED <<tunnels, dial, overlap, detached>>

Fail == [vpn EXCEPT !.status = "error", !.poll = 0, !.tunnel = 0]

\* Ten seconds are over; the answer may have come since the last look at it.
TimesOut(k) == call[k] # 0

ConnectTimesOut(k) ==
    /\ TimesOut(k)
    /\ tunnels' = Abort(vpn.poll) /\ vpn' = Fail
    /\ call' = [call EXCEPT ![k] = 0]
    /\ UNCHANGED <<dial, overlap, detached>>

\* Forgets the tunnel and not that it was connected.
OffSilent == [vpn EXCEPT !.tunnel = 0, !.poll = 0]

Off == [status |-> "disconnected", tunnel |-> 0, poll |-> 0, config |-> << >>]

Disconnect ==
    /\ vpn # Off
    /\ tunnels' = Abort(vpn.poll) /\ vpn' = Off
    /\ overlap' = (overlap \/ Waiting # {})
    /\ UNCHANGED <<call, dial, detached>>

------------------------------------------------------------------------------
(* connect_upstream of the proxy.                                          *)

Set(d, pc, t) == dial' = [dial EXCEPT ![d] = [pc |-> pc, tunnel |-> t]]
Sockets(t, n) == tunnels' = [tunnels EXCEPT ![t].open = n]

\* get_tunnel and tcp_connect.  Without a tunnel, or when the socket cannot be
\* connected, the connection is made directly.
TcpDial(d) ==
    /\ dial[d].pc = "idle"
    /\ \/ /\ vpn.status = "connected" /\ vpn.tunnel # 0
          /\ Set(d, "syn", vpn.tunnel) /\ Sockets(vpn.tunnel, tunnels[vpn.tunnel].open + 1)
       \/ Set(d, "direct", 0) /\ UNCHANGED tunnels
    /\ UNCHANGED <<vpn, call, overlap, detached>>

\* The server behind the tunnel answers the SYN.
Established(d) ==
    /\ dial[d].pc = "syn" /\ Up(dial[d].tunnel)
    /\ Set(d, "stream", dial[d].tunnel)
    /\ UNCHANGED <<vpn, tunnels, call, overlap, detached>>

\* Refused: the socket is closed and the connection made directly.
Refused(d) ==
    /\ dial[d].pc = "syn" /\ Up(dial[d].tunnel)
    /\ Set(d, "direct", 0) /\ Sockets(dial[d].tunnel, tunnels[dial[d].tunnel].open - 1)
    /\ UNCHANGED <<vpn, call, overlap, detached>>

\* connect_timeout drops the future; nothing closes its socket.
DialTimesOut(d) ==
    /\ dial[d].pc \in {"syn", "direct"} /\ Set(d, "failed", dial[d].tunnel)
    /\ UNCHANGED <<vpn, tunnels, call, overlap, detached>>

\* The direct connection is made or fails.
Direct(d) ==
    /\ dial[d].pc = "direct" /\ \E pc \in {"plain", "failed"} : Set(d, pc, 0)
    /\ UNCHANGED <<vpn, tunnels, call, overlap, detached>>

\* Drop of VpnTcpStream.
StreamEnds(d) ==
    /\ dial[d].pc = "stream"
    /\ Set(d, "over", 0) /\ Sockets(dial[d].tunnel, tunnels[dial[d].tunnel].open - 1)
    /\ UNCHANGED <<vpn, call, overlap, detached>>

VpnNext ==
    \/ \E k \in Callers : \/ \E lines \in Configs : Connect(k, lines)
                          \/ ConnectDone(k) \/ ConnectTimesOut(k)
    \/ \E t \in DOMAIN tunnels : WgHandshake(t) \/ WgExpires(t)
    \/ Disconnect
    \/ \E d \in Dialers : TcpDial(d) \/ Established(d) \/ Refused(d) \/ DialTimesOut(d) \/ Direct(d) \/ StreamEnds(d)

\* The timers of tokio.
VpnFairness ==
    /\ \A k \in Callers : WF_vpnVars(ConnectTimesOut(k))
    /\ \A d \in Dialers : WF_vpnVars(DialTimesOut(d))

VpnSpec == VpnInit /\ [][VpnNext]_vpnVars /\ VpnFairness

------------------------------------------------------------------------------
(* Properties.                                                             *)

\* The manager and its tunnels keep their types; the tunnel the manager holds
\* is the one its task drives, and a tunnel counts the sockets of its dialers.
VpnTypeOK ==
    /\ vpn.status \in {"disconnected", "connecting", "connected", "error"}
    /\ vpn.tunnel \in 0..Len(tunnels) /\ vpn.tunnel = vpn.poll
    /\ vpn.tunnel # 0 => tunnels[vpn.tunnel].driven
    /\ \A t \in DOMAIN tunnels :
          tunnels[t].open = Cardinality({d \in Dialers : dial[d].tunnel = t})

\* A line of the configuration sets the name, under a header it belongs to.
Sets(lines, name) ==
    \E i, head \in DOMAIN lines :
        /\ lines[i] = Setting(name, "good")
        /\ head < i /\ lines[head].kind = "section" /\ name \in Known(lines[head].name)
        /\ \A j \in (head + 1)..i : lines[j].kind # "section"

\* The manager's state is true of the tunnels.  Only a configuration that names
\* both keys, an address, an endpoint and the networks behind the peer makes one,
\* each in its own section, in whatever order the sections and lines come.  As
\* long as no two calls overlapped, a manager that says it is connected holds a
\* tunnel, and that tunnel's server has answered a handshake: connect never takes
\* the answer, or the end, of one tunnel for another's.  It does not say that the
\* session still lives (WgExpires leaves the status alone) nor that connections
\* stay inside (KillSwitch).  A poll task belongs to the manager, which can abort
\* it, or lost its handle in a connect that replaced its tunnel.
TunnelsKnown ==
    /\ vpn.config # << >> => \A name \in Required : Sets(vpn.config, name)
    /\ ~overlap /\ vpn.status = "connected" => vpn.tunnel # 0 /\ tunnels[vpn.tunnel].session # "none"
    /\ {t \in DOMAIN tunnels : tunnels[t].driven} \subseteq detached \cup {vpn.poll}

\* What the settings promise of the kill switch (config/defaults.toml:520): a
\* connection that belongs in the tunnel is never made outside it.
KillSwitch == [][\A d \in Dialers : dial[d].pc = "syn" => dial'[d].pc # "direct"]_vpnVars

\* connect returns, whatever the server and the other calls do.
ConnectReturns == \A k \in Callers : call[k] # 0 ~> call[k] = 0
==============================================================================
