------------------------------ MODULE MitmProxy ------------------------------
(***************************************************************************)
(* The proxy on vsock port 5002: connections of the guest that are         *)
(* admitted, read as far as the ClientHello, tunnelled or terminated, and  *)
(* the requests of a terminated one, with the report each leaves; what     *)
(* becomes of a report is Telemetry's.  The guest picks domain, requests   *)
(* and moments to hang up; the network may fail at every step.             *)
(***************************************************************************)
EXTENDS Naturals, FiniteSets, TLC

CONSTANTS
    Conns,
    Names,          \* connection -> domains it may ask for
    AiDomains,      \* domains of detect_ai_provider
    PolicySet,      \* policies that settings can put in force
    MaxConns,       \* permits of the semaphore
    Rate,           \* tokens a second of each domain's bucket
    MaxRequests,    \* bound: connection -> its requests
    MaxSwaps,       \* bound: changes of the policy
    MaxTicks,       \* bound: seconds that pass
    None

ASSUME ProxyAssumption ==
    /\ IsFiniteSet(Conns) /\ MaxConns \in Nat /\ Rate \in Nat
    /\ MaxRequests \in [Conns -> Nat]

Domains == UNION {Names[c] : c \in Conns}

VARIABLES
    conn,       \* the connections
    permits,    \* connection_semaphore
    policy,     \* the live policy: domain -> [read, write]
    bucket,     \* RateLimiterMap: tokens of each domain
    enabled,    \* network.proxy_enabled
    clock, swaps,
    inForce,    \* connection -> policies in force since it was admitted
    sent,       \* what reached an upstream server last: [conn, domain, method]
    answered,   \* exchanges the guest got the head of an answer for
    admitted,   \* domain -> connections that passed the rate limit
    reports     \* exchange -> reports spawned for it; number 0 is the connection

proxyVars == <<conn, permits, policy, bucket, enabled, clock, swaps, inForce, sent, answered,
               admitted, reports>>

Exchanges == UNION {{c} \X (0..MaxRequests[c]) : c \in Conns}

Fresh == [pc |-> "new", domain |-> None, sni |-> "none", policy |-> None, n |-> 0,
          method |-> None]

ProxyInit ==
    /\ conn = [c \in Conns |-> Fresh]
    /\ permits = MaxConns
    /\ policy \in PolicySet
    /\ bucket = [d \in Domains |-> Rate]
    /\ enabled \in BOOLEAN
    /\ clock = 0 /\ swaps = 0
    /\ inForce = [c \in Conns |-> {}]
    /\ sent = None /\ answered = {}
    /\ admitted = [d \in Domains |-> 0]
    /\ reports = [ex \in Exchanges |-> 0]

Reads == {"GET", "HEAD"}
Allows(p, d, method) == IF method \in Reads THEN p[d].read ELSE p[d].write
Go(c, pc) == conn' = [conn EXCEPT ![c].pc = pc]

Report(ex) == reports' = [reports EXCEPT ![ex] = @ + 1]
Surroundings == <<policy, bucket, enabled, clock, swaps, admitted>>
World == <<Surroundings, inForce>>

------------------------------------------------------------------------------
(* handle_connection and handle_inner up to the choice of a mode.          *)

\* try_acquire: at the limit the connection is closed and nothing is written.
Admit(c) ==
    /\ conn[c].pc = "new"
    /\ IF permits > 0
       THEN Go(c, "hello") /\ permits' = permits - 1 /\ inForce' = [inForce EXCEPT ![c] = {policy}]
       ELSE Go(c, "done") /\ UNCHANGED <<permits, inForce>>
    /\ UNCHANGED <<policy, bucket, enabled, clock, swaps, sent, answered, admitted, reports>>

\* RateLimiterMap::check.
Check(d) == bucket[d] >= 1

\* A tunnel that is not asked about.
ModeOpen(c, d, sni) ==
    CASE sni = "seen" /\ ~Check(d) -> "error"
      [] sni # "seen" /\ ~enabled -> "error"
      [] sni = "seen" /\ Check(d) /\ (~enabled \/ d \notin AiDomains) -> "dial"
      [] OTHER -> "tls"

\* What becomes of a connection whose ClientHello names domain d: "seen" in the
\* bytes of the first read, "split" over several of them, or not at all.
Mode(c, d, sni) ==
    CASE sni = "seen" /\ ~Check(d) -> "error"
      [] sni # "seen" /\ ~enabled -> "error"
      [] sni = "seen" /\ Check(d) /\ (~enabled \/ d \notin AiDomains) ->
            IF Allows(policy, d, "CONNECT") THEN "dial" ELSE IF enabled THEN "denied" ELSE "error"
      [] OTHER -> "tls"

Hello(c, d, sni) ==
    /\ conn[c].pc = "hello"
    /\ conn' = [conn EXCEPT ![c] = [@ EXCEPT !.pc = Mode(c, d, sni), !.domain = d, !.sni = sni,
                                             !.policy = policy]]
    /\ IF sni = "seen" /\ Check(d)
       THEN bucket' = [bucket EXCEPT ![d] = @ - 1] /\ admitted' = [admitted EXCEPT ![d] = @ + 1]
       ELSE UNCHANGED <<bucket, admitted>>
    /\ UNCHANGED <<permits, policy, enabled, clock, swaps, inForce, sent, answered, reports>>

\* The metadata or the ClientHello cannot be read.
HelloFails(c) ==
    /\ conn[c].pc = "hello" /\ Go(c, "error")
    /\ UNCHANGED <<permits, sent, answered, reports>> /\ UNCHANGED World

\* A denied tunnel is reported here, and again as the error of the connection.
ReportDenied(c) ==
    /\ conn[c].pc = "denied"
    /\ Report(<<c, 0>>) /\ Go(c, "error")
    /\ UNCHANGED <<permits, sent, answered>>
    /\ UNCHANGED World

Release(c) ==
    /\ conn' = [conn EXCEPT ![c] = [Fresh EXCEPT !.pc = "done", !.n = conn[c].n]]
    /\ permits' = permits + 1
    /\ sent' = IF sent # None /\ sent.conn = c THEN None ELSE sent
    /\ inForce' = [inForce EXCEPT ![c] = {}]

ReportError(c) ==
    /\ conn[c].pc = "error"
    /\ Report(<<c, 0>>) /\ Release(c)
    /\ UNCHANGED <<answered>>
    /\ UNCHANGED Surroundings

------------------------------------------------------------------------------
(* handle_tunnel.                                                          *)

\* connect_upstream: through the VPN or, if that fails, directly.
Dial(c) ==
    /\ conn[c].pc = "dial"
    /\ \/ Go(c, "tunnel") /\ sent' = [conn |-> c, domain |-> conn[c].domain, method |-> "CONNECT"]
       \/ Go(c, "error") /\ UNCHANGED sent
    /\ UNCHANGED <<permits, answered, reports>> /\ UNCHANGED World

TunnelEnds(c) ==
    /\ conn[c].pc = "tunnel" /\ Go(c, "report")
    /\ UNCHANGED <<permits, sent, answered, reports>> /\ UNCHANGED World

ReportTunnel(c) ==
    /\ conn[c].pc = "report"
    /\ Report(<<c, 0>>) /\ Release(c)
    /\ UNCHANGED <<answered>>
    /\ UNCHANGED Surroundings

------------------------------------------------------------------------------
(* Terminated connections: one request after another.                      *)

\* The certificate resolver takes the name from the handshake.
Handshake(c) ==
    /\ conn[c].pc = "tls"
    /\ \/ conn[c].sni # "none" /\ conn' = [conn EXCEPT ![c] = [@ EXCEPT !.pc = "open", !.sni = "seen"]]
       \/ Go(c, "error")
    /\ UNCHANGED <<permits, sent, answered, reports>> /\ UNCHANGED World

Ex(c) == <<c, conn[c].n>>

\* handle_request: the policy is asked before anything else; WebSockets are refused.
Request(c, method, upgrade) ==
    /\ conn[c].pc = "open" /\ conn[c].n < MaxRequests[c]
    /\ LET n == conn[c].n + 1
           refused == ~Allows(conn[c].policy, conn[c].domain, method) \/ upgrade
       IN /\ conn' = [conn EXCEPT ![c] = [@ EXCEPT
                        !.pc = IF refused THEN "body" ELSE "upstream", !.n = n,
                        !.method = IF refused THEN None ELSE method]]
          /\ answered' = IF refused THEN answered \cup {<<c, n>>} ELSE answered
    /\ UNCHANGED <<permits, sent, reports>> /\ UNCHANGED World

\* The answer of the proxy itself when an upstream step fails (make_502).
BadGateway(c) ==
    /\ conn' = [conn EXCEPT ![c] = [@ EXCEPT !.pc = "body", !.method = None]]
    /\ answered' = answered \cup {Ex(c)}

\* A cached sender that is still alive, or a new connection.
Upstream(c) ==
    /\ conn[c].pc = "upstream"
    /\ \/ Go(c, "send") /\ UNCHANGED answered
       \/ BadGateway(c)
    /\ UNCHANGED <<permits, sent, reports>> /\ UNCHANGED World

Send(c) ==
    /\ conn[c].pc = "send"
    /\ sent' = [conn |-> c, domain |-> conn[c].domain, method |-> conn[c].method]
    /\ \/ /\ conn' = [conn EXCEPT ![c] = [@ EXCEPT !.pc = "body", !.method = None]]
          /\ answered' = answered \cup {Ex(c)}
       \/ BadGateway(c)
    /\ UNCHANGED <<permits, reports>> /\ UNCHANGED World

\* Only a body that is read to its end reports.
SpawnAtEnd(c, ended) ==
    IF ended THEN Report(Ex(c)) ELSE UNCHANGED reports

\* TelemetryBody: at its end, or when it is dropped before.
Spawn(c, ended) == Report(Ex(c))

BodyEnds(c) ==
    /\ conn[c].pc = "body" /\ Spawn(c, TRUE)
    /\ Go(c, "open")
    /\ UNCHANGED <<permits, sent, answered>>
    /\ UNCHANGED World

\* The guest hangs up, or a body fails or grows past max_response_body_bytes.
\* A request that has no answer yet is dropped with its future.
HangUp(c) ==
    /\ conn[c].pc \in {"open", "upstream", "send", "body"}
    /\ IF conn[c].pc = "body" THEN Spawn(c, FALSE) ELSE UNCHANGED reports
    /\ Release(c)
    /\ UNCHANGED <<answered>>
    /\ UNCHANGED Surroundings

------------------------------------------------------------------------------

Guarded == {"hello", "denied", "dial", "tunnel", "report", "tls", "open", "upstream", "send", "body"}

\* A timeout that only looks at connections that wait for the guest.
TimeoutIdle(c) ==
    /\ conn[c].pc \in {"hello", "tls", "open"}
    /\ UNCHANGED reports
    /\ Release(c)
    /\ UNCHANGED <<answered>>
    /\ UNCHANGED Surroundings

\* connection_idle_timeout, which covers the whole of handle_inner.
Timeout(c) ==
    /\ conn[c].pc \in Guarded
    /\ IF conn[c].pc = "body" THEN Spawn(c, FALSE) ELSE UNCHANGED reports
    /\ Release(c)
    /\ UNCHANGED <<answered>>
    /\ UNCHANGED Surroundings

\* Hot reload of the policy; the live connections keep theirs.
SwapPolicy ==
    /\ swaps < MaxSwaps
    /\ \E p \in PolicySet \ {policy} :
        /\ policy' = p
        /\ inForce' = [c \in Conns |-> IF conn[c].pc \in {"new", "done"} THEN inForce[c]
                                       ELSE inForce[c] \cup {p}]
    /\ swaps' = swaps + 1
    /\ UNCHANGED <<conn, permits, bucket, enabled, clock, sent, answered, admitted, reports>>

\* A second passes: a bucket holds at most twice the rate.
Refill(tokens) == IF tokens + Rate > 2 * Rate THEN 2 * Rate ELSE tokens + Rate

Tick ==
    /\ clock < MaxTicks /\ clock' = clock + 1
    /\ bucket' = [d \in Domains |-> Refill(bucket[d])]
    /\ UNCHANGED <<conn, permits, policy, enabled, swaps, inForce, sent, answered, admitted, reports>>

ConnStep(c) ==
    \/ Admit(c) \/ HelloFails(c) \/ \E d \in Names[c], sni \in {"seen", "split", "none"} : Hello(c, d, sni)
    \/ ReportDenied(c) \/ ReportError(c)
    \/ Dial(c) \/ TunnelEnds(c) \/ ReportTunnel(c)
    \/ Handshake(c) \/ \E method \in {"GET", "POST"}, upgrade \in BOOLEAN : Request(c, method, upgrade)
    \/ Upstream(c) \/ Send(c) \/ BodyEnds(c)
    \/ HangUp(c)
    \/ Timeout(c)

ProxyNext == (\E c \in Conns : ConnStep(c)) \/ SwapPolicy \/ Tick

\* The timer of a connection fires and the runtime runs its task.
ProxyFairness == \A c \in Conns : WF_proxyVars(Timeout(c)) /\ WF_proxyVars(ReportError(c))

ProxySpec == ProxyInit /\ [][ProxyNext]_proxyVars /\ ProxyFairness

------------------------------------------------------------------------------
(* Properties.                                                             *)

\* The connections, permits, buckets and reports keep their types, and the
\* permits that are taken are those of the connections that are live.
ProxyTypeOK ==
    /\ \A c \in Conns : conn[c].pc \in Guarded \cup {"new", "error", "done"} /\ conn[c].n \in 0..MaxRequests[c]
    /\ permits + Cardinality({c \in Conns : conn[c].pc \notin {"new", "done"}}) = MaxConns
    /\ \A d \in Domains : bucket[d] \in Nat
    /\ \A ex \in Exchanges : reports[ex] \in Nat

\* Nothing of a connection reaches an upstream server unless a policy that was
\* in force while the connection lived allows its domain for that method: also
\* for a name that arrives in pieces and so escapes the check before the
\* handshake, for a later request on a connection that was kept alive, and while
\* the policy is replaced.  And over any time no more connections to a domain
\* pass the rate limit than the first bucket and the refills give.
OnlyAllowedSent ==
    /\ sent # None => \E p \in inForce[sent.conn] : Allows(p, sent.domain, sent.method)
    /\ \A d \in Domains : admitted[d] <= Rate * (1 + clock)

\* An exchange of which the guest saw an answer is reported exactly once,
\* whether its body ends, fails, is abandoned by the guest or cut by the timeout.
ReportedOnce ==
    \A ex \in answered :
        reports[ex] + (IF conn[ex[1]].pc = "body" /\ conn[ex[1]].n = ex[2] THEN 1 ELSE 0) = 1

\* A connection that was admitted ends and gives its permit back, whatever the
\* guest and the servers do: the timeout covers tunnels and requests too.
ConnectionsEnd == \A c \in Conns : conn[c].pc \notin {"new", "done"} ~> conn[c].pc = "done"
==============================================================================
