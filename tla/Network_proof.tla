---------------------------- MODULE Network_proof ----------------------------
(***************************************************************************)
(* Proofs about MitmProxy for any connections, domains, policies, rate and *)
(* number of requests, swaps and seconds, about Vpn for any callers,       *)
(* dialers, configurations and number of tunnels, about Telemetry for any  *)
(* exchanges, tool calls, capacity and size of a batch, and about LlmStream*)
(* for any bodies, documents and sizes of a chunk, a body and the preview. *)
(***************************************************************************)
EXTENDS MitmProxy, Vpn, Telemetry, LlmStream, FiniteSetTheorems, SequenceTheorems, WellFoundedInduction, TLAPS

Closed == {"new", "done"}

Points == Guarded \cup {"new", "error", "done"}

ConnState ==
    [pc : Points, domain : Domains \cup {None},
     sni : {"seen", "split", "none"}, policy : PolicySet \cup {None}, n : Nat,
     method : {"GET", "POST", None}]

\* Every variable the properties read has its type.
ProxyTypes ==
    /\ conn \in [Conns -> ConnState]
    /\ permits \in Nat
    /\ policy \in PolicySet
    /\ inForce \in [Conns -> SUBSET PolicySet]
    /\ bucket \in [Domains -> Nat]
    /\ admitted \in [Domains -> Nat]
    /\ clock \in Nat
    /\ reports \in [Exchanges -> Nat]
    /\ \A c \in Conns : conn[c].n <= MaxRequests[c]

\* Live of a connection: its permit is taken.
LiveConns == {c \in Conns : conn[c].pc \notin Closed}

\* An exchange is a connection with a number up to its requests.
LEMMA ExchangeIs ==
    ASSUME NEW c \in Conns, NEW k
    PROVE  <<c, k>> \in Exchanges <=> k \in 0..MaxRequests[c]
<1>1. ASSUME <<c, k>> \in Exchanges PROVE k \in 0..MaxRequests[c]
  <2>1. PICK d \in Conns : <<c, k>> \in {d} \X (0..MaxRequests[d])
    BY <1>1 DEF Exchanges
  <2> QED BY <2>1
<1>2. ASSUME k \in 0..MaxRequests[c] PROVE <<c, k>> \in Exchanges
  <2>1. <<c, k>> \in {c} \X (0..MaxRequests[c])
    BY <1>2
  <2> QED BY <2>1 DEF Exchanges
<1> QED BY <1>1, <1>2

\* The reports of the connection itself and of its current request are counted.
LEMMA ExchangeOf ==
    ASSUME ProxyTypes, NEW c \in Conns
    PROVE  <<c, 0>> \in Exchanges /\ Ex(c) \in Exchanges
<1>1. MaxRequests[c] \in Nat /\ conn[c].n \in Nat /\ conn[c].n <= MaxRequests[c]
  BY ProxyAssumption DEF ProxyTypes, ConnState
<1> QED BY <1>1, ExchangeIs DEF Ex

\* What a step of a connection leaves alone: the others, and what it knows itself.
OthersKept(c) == \A d \in Conns \ {c} : conn'[d] = conn[d]
KnowsTheSame(c) ==
    /\ conn'[c].policy = conn[c].policy /\ conn'[c].domain = conn[c].domain
    /\ conn'[c].n = conn[c].n

\* A domain some connection may name has a bucket.
LEMMA NameIsDomain == ASSUME NEW c \in Conns, NEW d \in Names[c] PROVE d \in Domains
  BY DEF Domains

\* The states of a connection that the steps lead to.
LEMMA PointsAre ==
    /\ {"new", "hello", "denied", "dial", "tunnel", "report", "tls", "open", "upstream", "send", "body",
        "error", "done"} = Points
    /\ Guarded \subseteq Points
  BY DEF Points, Guarded

\* A connection that moves on changes its control point alone.
LEMMA GoEffect ==
    ASSUME ProxyTypes, NEW c \in Conns, NEW q, Go(c, q)
    PROVE  /\ conn'[c].pc = q /\ conn'[c].method = conn[c].method
           /\ KnowsTheSame(c) /\ OthersKept(c)
  BY DEF ProxyTypes, ConnState, Go, KnowsTheSame, OthersKept

\* An answer, of a server or of the proxy itself, is the start of a body.
LEMMA AnswerEffect ==
    ASSUME ProxyTypes, NEW c \in Conns,
           conn' = [conn EXCEPT ![c] = [@ EXCEPT !.pc = "body", !.method = None]]
    PROVE  conn'[c].pc = "body" /\ KnowsTheSame(c) /\ OthersKept(c)
  BY DEF ProxyTypes, ConnState, KnowsTheSame, OthersKept

\* A connection that moves on keeps its type and its count of requests.
LEMMA GoTypes ==
    ASSUME ProxyTypes, NEW c \in Conns, NEW q \in Points, Go(c, q)
    PROVE  conn' \in [Conns -> ConnState] /\ \A d \in Conns : conn'[d].n = conn[d].n
  BY SMTT(30) DEF ProxyTypes, Go, ConnState

\* The answer of the proxy itself keeps them too.
LEMMA BadGatewayTypes ==
    ASSUME ProxyTypes, NEW c \in Conns,
           conn' = [conn EXCEPT ![c] = [@ EXCEPT !.pc = "body", !.method = None]]
    PROVE  conn' \in [Conns -> ConnState] /\ \A d \in Conns : conn'[d].n = conn[d].n
<1>1. "body" \in Points
  BY PointsAre
<1> DEFINE r == [conn[c] EXCEPT !.pc = "body", !.method = None]
<1>2. conn[c] \in ConnState
  BY DEF ProxyTypes
<1>3. r \in ConnState /\ r.n = conn[c].n
  BY <1>1, <1>2 DEF ConnState
<1>4. conn' = [conn EXCEPT ![c] = r]
  OBVIOUS
<1> HIDE DEF r
<1> QED BY <1>3, <1>4 DEF ProxyTypes

\* What Release leaves has its type.
LEMMA ReleaseTypes ==
    ASSUME ProxyTypes, NEW c \in Conns, Release(c)
    PROVE  /\ conn' \in [Conns -> ConnState] /\ permits' \in Nat
           /\ inForce' \in [Conns -> SUBSET PolicySet]
           /\ \A d \in Conns : conn'[d].n <= MaxRequests[d]
<1> DEFINE r == [Fresh EXCEPT !.pc = "done", !.n = conn[c].n]
<1>1. conn[c] \in ConnState /\ "done" \in Points
  BY PointsAre DEF ProxyTypes
<1>2. r \in ConnState /\ r.n = conn[c].n
  BY <1>1 DEF ConnState, Fresh
<1>3. conn' = [conn EXCEPT ![c] = r]
  BY DEF Release
<1> HIDE DEF r
<1> QED BY <1>2, <1>3 DEF ProxyTypes, Release

\* Every step keeps the types.
LEMMA TypesStep == ProxyTypes /\ [ProxyNext]_proxyVars => ProxyTypes'
<1> SUFFICES ASSUME ProxyTypes, [ProxyNext]_proxyVars PROVE ProxyTypes'
  OBVIOUS
<1> USE ProxyAssumption
<1>1. CASE UNCHANGED proxyVars
  BY <1>1 DEF ProxyTypes, proxyVars
<1>2. CASE SwapPolicy
  BY <1>2 DEF ProxyTypes, SwapPolicy
<1>3. CASE Tick
  <2>1. \A d \in Domains : Refill(bucket[d]) \in Nat
    BY DEF ProxyTypes, Refill
  <2> QED BY <1>3, <2>1 DEF ProxyTypes, Tick
<1>4. ASSUME NEW c \in Conns, ConnStep(c) PROVE ProxyTypes'
  <2>0. <<c, 0>> \in Exchanges /\ Ex(c) \in Exchanges
    BY ExchangeOf
  <2>1. CASE Admit(c)
    BY <2>1, PointsAre, GoTypes DEF ProxyTypes, Admit
  <2>2. CASE HelloFails(c)
    BY <2>2, PointsAre, GoTypes DEF ProxyTypes, HelloFails, World, Surroundings
  <2>3. ASSUME NEW d \in Names[c], NEW sni \in {"seen", "split", "none"}, Hello(c, d, sni)
        PROVE  ProxyTypes'
    <3>1. d \in Domains
      BY NameIsDomain
    <3>2. Mode(c, d, sni) \in Points
      BY PointsAre DEF Mode
    <3>3. bucket' \in [Domains -> Nat] /\ admitted' \in [Domains -> Nat]
      BY <2>3, <3>1 DEF ProxyTypes, Hello, Check
    <3>4. conn' \in [Conns -> ConnState] /\ \A e \in Conns : conn'[e].n = conn[e].n
      BY <2>3, <3>1, <3>2, ZenonT(60) DEF ProxyTypes, Hello, ConnState
    <3> QED BY <2>3, <3>3, <3>4 DEF ProxyTypes, Hello
  <2>4. CASE ReportDenied(c)
    BY <2>0, <2>4, PointsAre, GoTypes DEF ProxyTypes, ReportDenied, Report, World, Surroundings
  <2>5. CASE ReportError(c)
    BY <2>0, <2>5, ReleaseTypes DEF ProxyTypes, ReportError, Report, Surroundings
  <2>6. CASE Dial(c)
    BY <2>6, PointsAre, GoTypes DEF ProxyTypes, Dial, World, Surroundings
  <2>7. CASE TunnelEnds(c)
    BY <2>7, PointsAre, GoTypes DEF ProxyTypes, TunnelEnds, World, Surroundings
  <2>8. CASE ReportTunnel(c)
    BY <2>0, <2>8, ReleaseTypes DEF ProxyTypes, ReportTunnel, Report, Surroundings
  <2>9. CASE Handshake(c)
    <3>1. "open" \in Points /\ "error" \in Points
      BY PointsAre
    <3>2. conn' \in [Conns -> ConnState] /\ \A d \in Conns : conn'[d].n = conn[d].n
      <4>1. CASE Go(c, "error")
        BY <3>1, <4>1, GoTypes
      <4>2. CASE conn' = [conn EXCEPT ![c] = [@ EXCEPT !.pc = "open", !.sni = "seen"]]
        <5> DEFINE r == [conn[c] EXCEPT !.pc = "open", !.sni = "seen"]
        <5>1. r \in ConnState /\ r.n = conn[c].n
          BY <3>1 DEF ProxyTypes, ConnState
        <5>2. conn' = [conn EXCEPT ![c] = r]
          BY <4>2
        <5> HIDE DEF r
        <5> QED BY <5>1, <5>2 DEF ProxyTypes
      <4> QED BY <2>9, <4>1, <4>2 DEF Handshake
    <3> QED BY <2>9, <3>2 DEF ProxyTypes, Handshake, World, Surroundings
  <2>10. ASSUME NEW method \in {"GET", "POST"}, NEW upgrade \in BOOLEAN, Request(c, method, upgrade)
         PROVE  ProxyTypes'
    <3>0. PICK old \in ConnState : old = conn[c]
      BY DEF ProxyTypes
    <3>1. conn[c].n < MaxRequests[c] /\ conn[c].n \in Nat /\ MaxRequests[c] \in Nat
      BY <2>10, <3>0 DEF Request, ConnState
    <3>2. PICK k \in Nat : k = conn[c].n + 1
      BY <3>1
    <3>3. PICK q \in {"body", "upstream"}, m \in {"GET", "POST", None} :
             conn' = [conn EXCEPT ![c] = [@ EXCEPT !.pc = q, !.n = k, !.method = m]]
      <4>1. CASE ~Allows(conn[c].policy, conn[c].domain, method) \/ upgrade
        BY <2>10, <3>2, <4>1 DEF Request
      <4>2. CASE ~(~Allows(conn[c].policy, conn[c].domain, method) \/ upgrade)
        BY <2>10, <3>2, <4>2 DEF Request
      <4> QED BY <4>1, <4>2
    <3>4. q \in Points
      BY PointsAre
    <3> DEFINE r == [old EXCEPT !.pc = q, !.n = k, !.method = m]
    <3>5. r \in ConnState /\ r.n = k
      BY <3>4 DEF ConnState
    <3>6. conn' = [conn EXCEPT ![c] = r]
      BY <3>0, <3>3
    <3> HIDE DEF r
    <3>7. conn' \in [Conns -> ConnState] /\ \A d \in Conns : conn'[d].n <= MaxRequests[d]
      BY <3>1, <3>2, <3>5, <3>6 DEF ProxyTypes
    <3> QED BY <2>10, <3>7 DEF ProxyTypes, Request, World, Surroundings
  <2>11. CASE Upstream(c)
    BY <2>11, PointsAre, GoTypes, BadGatewayTypes
       DEF ProxyTypes, Upstream, BadGateway, World, Surroundings
  <2>12. CASE Send(c)
    BY <2>12, BadGatewayTypes DEF ProxyTypes, Send, BadGateway, World, Surroundings
  <2>13. CASE BodyEnds(c)
    BY <2>0, <2>13, PointsAre, GoTypes DEF ProxyTypes, BodyEnds, Spawn, Report, World, Surroundings
  <2>14. CASE HangUp(c)
    BY <2>0, <2>14, ReleaseTypes, SMTT(30) DEF ProxyTypes, HangUp, Spawn, Report, Surroundings
  <2>15. CASE Timeout(c)
    BY <2>0, <2>15, ReleaseTypes DEF ProxyTypes, Timeout, Spawn, Report, Surroundings
  <2> QED BY <1>4, <2>1, <2>2, <2>3, <2>4, <2>5, <2>6, <2>7, <2>8, <2>9, <2>10, <2>11, <2>12,
             <2>13, <2>14, <2>15 DEF ConnStep
<1> QED BY <1>1, <1>2, <1>3, <1>4 DEF ProxyNext
------------------------------------------------------------------------------
(* Only what a policy allows is sent.                                      *)

\* The policy a connection works with, and what was asked of it before the
\* connection reached its control point.
Decided == {"dial", "tunnel", "report", "tls", "open", "upstream", "send", "body"}

AllowedAt(cn) ==
    /\ cn.pc = "dial" => Allows(cn.policy, cn.domain, "CONNECT")
    /\ cn.pc \in {"upstream", "send"} => Allows(cn.policy, cn.domain, cn.method)

PolicyKept ==
    \A c \in Conns :
        /\ conn[c].pc \notin Closed => policy \in inForce[c]
        /\ conn[c].pc \in Decided => conn[c].policy \in inForce[c]
        /\ AllowedAt(conn[c])

\* What was sent last belongs to a connection that still lives.
SentAllowed ==
    sent # None => /\ sent.conn \in Conns
                   /\ conn[sent.conn].pc \notin Closed
                   /\ \E p \in inForce[sent.conn] : Allows(p, sent.domain, sent.method)

\* The tokens that were given out and those that are left never exceed what
\* the first bucket and the refills gave.
TokensBounded == \A d \in Domains : admitted[d] + bucket[d] <= Rate * (1 + clock)

PolicyInv == ProxyTypes /\ PolicyKept /\ SentAllowed /\ TokensBounded

\* A step of one connection that leaves the policies in force alone keeps the
\* invariant when that connection still knows its policy and what it allows.
LEMMA MovesOn ==
    ASSUME PolicyInv, ProxyTypes', NEW c \in Conns, conn[c].pc \notin Closed,
           conn'[c].pc \notin Closed, \A d \in Conns \ {c} : conn'[d] = conn[d],
           UNCHANGED <<policy, inForce, bucket, clock, admitted>>,
           conn'[c].pc \in Decided => conn'[c].policy \in inForce[c],
           AllowedAt(conn'[c]),
           sent' = sent \/ (sent'.conn = c /\ \E p \in inForce[c] : Allows(p, sent'.domain, sent'.method))
    PROVE  PolicyInv'
<1>1. PolicyKept'
  <2> SUFFICES ASSUME NEW d \in Conns
               PROVE  /\ conn'[d].pc \notin Closed => policy' \in inForce'[d]
                      /\ conn'[d].pc \in Decided => conn'[d].policy \in inForce'[d]
                      /\ AllowedAt(conn'[d])
    BY DEF PolicyKept, AllowedAt
  <2>1. CASE d = c
    BY <2>1 DEF PolicyInv, PolicyKept
  <2>2. CASE d # c
    BY <2>2 DEF PolicyInv, PolicyKept
  <2> QED BY <2>1, <2>2
<1>2. SentAllowed'
  <2> SUFFICES ASSUME sent' # None
               PROVE  /\ sent'.conn \in Conns /\ conn'[sent'.conn].pc \notin Closed
                      /\ \E p \in inForce'[sent'.conn] : Allows(p, sent'.domain, sent'.method)
    BY DEF SentAllowed, Allows, Reads
  <2>1. CASE sent' = sent
    BY <2>1 DEF PolicyInv, SentAllowed
  <2>2. CASE sent'.conn = c /\ \E p \in inForce[c] : Allows(p, sent'.domain, sent'.method)
    BY <2>2
  <2> QED BY <2>1, <2>2
<1>3. TokensBounded'
  BY DEF PolicyInv, TokensBounded
<1> QED BY <1>1, <1>2, <1>3 DEF PolicyInv

\* A connection that ends takes what it sent with it.
LEMMA ReleaseKeepsPolicy ==
    ASSUME PolicyInv, ProxyTypes', NEW c \in Conns, Release(c), UNCHANGED Surroundings
    PROVE  PolicyInv'
<1>1. conn'[c].pc = "done" /\ \A d \in Conns \ {c} : conn'[d] = conn[d] /\ inForce'[d] = inForce[d]
  BY DEF PolicyInv, ProxyTypes, Release, Fresh
<1>2. PolicyKept'
  <2> SUFFICES ASSUME NEW d \in Conns
               PROVE  /\ conn'[d].pc \notin Closed => policy' \in inForce'[d]
                      /\ conn'[d].pc \in Decided => conn'[d].policy \in inForce'[d]
                      /\ AllowedAt(conn'[d])
    BY DEF PolicyKept, AllowedAt
  <2>1. CASE d = c
    BY <1>1, <2>1 DEF Closed, Decided, AllowedAt
  <2>2. CASE d # c
    BY <1>1, <2>2 DEF PolicyInv, PolicyKept, Surroundings
  <2> QED BY <2>1, <2>2
<1>3. SentAllowed'
  <2> SUFFICES ASSUME sent' # None
               PROVE  /\ sent'.conn \in Conns /\ conn'[sent'.conn].pc \notin Closed
                      /\ \E p \in inForce'[sent'.conn] : Allows(p, sent'.domain, sent'.method)
    BY DEF SentAllowed
  <2>1. sent' = sent /\ sent.conn # c
    BY DEF Release
  <2> QED BY <1>1, <2>1 DEF PolicyInv, SentAllowed
<1>4. TokensBounded'
  BY DEF PolicyInv, TokensBounded, Surroundings
<1> QED BY <1>2, <1>3, <1>4 DEF PolicyInv

\* Every step keeps the policy invariant.
LEMMA PolicyStep == PolicyInv /\ [ProxyNext]_proxyVars => PolicyInv'
<1> SUFFICES ASSUME PolicyInv, [ProxyNext]_proxyVars PROVE PolicyInv'
  OBVIOUS
<1> USE ProxyAssumption
<1>0. ProxyTypes /\ ProxyTypes'
  BY TypesStep DEF PolicyInv
<1>1. CASE UNCHANGED proxyVars
  <2>1. UNCHANGED <<conn, policy, inForce, sent, bucket, admitted, clock>>
    BY <1>1 DEF proxyVars
  <2>2. PolicyKept' /\ TokensBounded'
    BY <2>1 DEF PolicyInv, PolicyKept, TokensBounded, AllowedAt, Allows
  <2>3. SentAllowed'
    BY <2>1 DEF PolicyInv, SentAllowed
  <2> QED BY <1>0, <2>2, <2>3 DEF PolicyInv
<1>2. CASE SwapPolicy
  <2>1. conn' = conn /\ sent' = sent /\ bucket' = bucket /\ admitted' = admitted /\ clock' = clock
    BY <1>2 DEF SwapPolicy
  <2>2. \A c \in Conns : /\ inForce[c] \subseteq inForce'[c]
                         /\ conn[c].pc \notin Closed => policy' \in inForce'[c]
    BY <1>2 DEF SwapPolicy, Closed
  <2>3. PolicyKept'
    BY <2>1, <2>2 DEF PolicyInv, PolicyKept, AllowedAt
  <2>4. SentAllowed'
    BY <2>1, <2>2 DEF PolicyInv, SentAllowed
  <2>5. TokensBounded'
    BY <2>1 DEF PolicyInv, TokensBounded
  <2> QED BY <1>0, <2>3, <2>4, <2>5 DEF PolicyInv
<1>3. CASE Tick
  <2>1. UNCHANGED <<conn, policy, inForce, sent, admitted>> /\ clock' = clock + 1
    BY <1>3 DEF Tick
  <2>2. PolicyKept'
    BY <2>1 DEF PolicyInv, PolicyKept, AllowedAt
  <2>3. SentAllowed'
    BY <2>1 DEF PolicyInv, SentAllowed
  <2>4. TokensBounded'
    <3> SUFFICES ASSUME NEW d \in Domains PROVE admitted'[d] + bucket'[d] <= Rate * (1 + clock')
      BY DEF TokensBounded
    <3>1. admitted[d] \in Nat /\ bucket[d] \in Nat /\ clock \in Nat /\ Rate \in Nat
      BY <1>0 DEF ProxyTypes
    <3>2. bucket'[d] \in Nat /\ bucket'[d] <= bucket[d] + Rate
      BY <1>3, <3>1 DEF Tick, Refill
    <3>3. Rate * (1 + clock') = Rate * (1 + clock) + Rate /\ Rate * (1 + clock) \in Nat
      BY <2>1, <3>1
    <3>4. admitted[d] + bucket[d] <= Rate * (1 + clock)
      BY DEF PolicyInv, TokensBounded
    <3> QED BY <2>1, <3>1, <3>2, <3>3, <3>4
  <2> QED BY <1>0, <2>2, <2>3, <2>4 DEF PolicyInv
<1>4. ASSUME NEW c \in Conns, ConnStep(c) PROVE PolicyInv'
  <2>0. conn[c] \in ConnState /\ conn'[c] \in ConnState
    BY <1>0 DEF ProxyTypes
  <2>1. CASE Admit(c)
    <3>1. UNCHANGED <<policy, sent, bucket, admitted, clock>>
      BY <2>1 DEF Admit
    <3>2. /\ conn'[c].pc \in {"hello", "done"} /\ conn[c].pc = "new"
          /\ conn'[c].pc = "hello" => policy \in inForce'[c]
          /\ \A d \in Conns \ {c} : conn'[d] = conn[d] /\ inForce'[d] = inForce[d]
      BY <1>0, <2>1 DEF Admit, Go, ProxyTypes, ConnState
    <3>3. PolicyKept'
      <4> SUFFICES ASSUME NEW d \in Conns
                   PROVE  /\ conn'[d].pc \notin Closed => policy' \in inForce'[d]
                          /\ conn'[d].pc \in Decided => conn'[d].policy \in inForce'[d]
                          /\ AllowedAt(conn'[d])
        BY DEF PolicyKept, AllowedAt
      <4>1. CASE d = c
        BY <3>1, <3>2, <4>1 DEF Closed, Decided, AllowedAt
      <4>2. CASE d # c
        BY <3>1, <3>2, <4>2 DEF PolicyInv, PolicyKept
      <4> QED BY <4>1, <4>2
    <3>4. SentAllowed'
      BY <3>1, <3>2 DEF PolicyInv, SentAllowed, Closed
    <3>5. TokensBounded'
      BY <3>1 DEF PolicyInv, TokensBounded
    <3> QED BY <1>0, <3>3, <3>4, <3>5 DEF PolicyInv
  <2>2. CASE HelloFails(c)
    <3>1. conn[c].pc = "hello" /\ conn'[c].pc = "error" /\ OthersKept(c)
      BY <1>0, <2>2, GoEffect DEF HelloFails, KnowsTheSame
    <3> QED BY <1>0, <2>2, <3>1, MovesOn DEF OthersKept, HelloFails, World, Surroundings, Closed, Decided, AllowedAt
  <2>3. ASSUME NEW d \in Names[c], NEW sni \in {"seen", "split", "none"}, Hello(c, d, sni)
        PROVE  PolicyInv'
    <3>1. d \in Domains
      BY NameIsDomain
    <3>2. /\ conn[c].pc = "hello" /\ conn'[c].pc = Mode(c, d, sni) /\ conn'[c].domain = d
          /\ conn'[c].policy = policy
          /\ \A e \in Conns \ {c} : conn'[e] = conn[e]
      BY <1>0, <2>3 DEF Hello, ProxyTypes, ConnState
    <3>3. /\ Mode(c, d, sni) \in {"error", "dial", "denied", "tls"}
          /\ Mode(c, d, sni) = "dial" => Allows(policy, d, "CONNECT")
      BY DEF Mode
    <3>4. UNCHANGED <<policy, inForce, sent, clock>>
      BY <2>3 DEF Hello
    <3>5. PolicyKept'
      <4> SUFFICES ASSUME NEW e \in Conns
                   PROVE  /\ conn'[e].pc \notin Closed => policy' \in inForce'[e]
                          /\ conn'[e].pc \in Decided => conn'[e].policy \in inForce'[e]
                          /\ AllowedAt(conn'[e])
        BY DEF PolicyKept, AllowedAt
      <4>1. CASE e = c
        <5>1. policy \in inForce[c]
          BY <3>2 DEF PolicyInv, PolicyKept, Closed
        <5> QED BY <3>2, <3>3, <3>4, <4>1, <5>1 DEF AllowedAt
      <4>2. CASE e # c
        BY <3>2, <3>4, <4>2 DEF PolicyInv, PolicyKept
      <4> QED BY <4>1, <4>2
    <3>6. SentAllowed'
      <4>1. conn'[c].pc \notin Closed
        BY <3>2, <3>3 DEF Closed
      <4> QED BY <3>2, <3>4, <4>1 DEF PolicyInv, SentAllowed
    <3>7. TokensBounded'
      <4> SUFFICES ASSUME NEW e \in Domains PROVE admitted'[e] + bucket'[e] = admitted[e] + bucket[e]
        BY <3>4 DEF PolicyInv, TokensBounded
      <4>1. admitted[e] \in Nat /\ bucket[e] \in Nat
        BY <1>0 DEF ProxyTypes
      <4> QED BY <1>0, <2>3, <3>1, <4>1 DEF Hello, ProxyTypes
    <3> QED BY <1>0, <3>5, <3>6, <3>7 DEF PolicyInv
  <2>4. CASE ReportDenied(c)
    <3>1. conn[c].pc = "denied" /\ conn'[c].pc = "error" /\ OthersKept(c)
      BY <1>0, <2>4, GoEffect DEF ReportDenied, KnowsTheSame
    <3> QED BY <1>0, <2>4, <3>1, MovesOn DEF OthersKept, ReportDenied, World, Surroundings, Closed, Decided, AllowedAt
  <2>5. CASE ReportError(c)
    BY <1>0, <2>5, ReleaseKeepsPolicy DEF ReportError
  <2>6. CASE Dial(c)
    <3>1. /\ conn[c].pc = "dial" /\ conn'[c].pc \in {"tunnel", "error"}
          /\ conn'[c].policy = conn[c].policy
          /\ OthersKept(c)
      BY <1>0, <2>6, GoEffect DEF Dial, KnowsTheSame
    <3>2. conn[c].policy \in inForce[c] /\ Allows(conn[c].policy, conn[c].domain, "CONNECT")
      BY <3>1 DEF PolicyInv, PolicyKept, Decided, AllowedAt
    <3>3. sent' = sent \/ (sent'.conn = c /\ \E p \in inForce[c] : Allows(p, sent'.domain, sent'.method))
      BY <2>6, <3>2 DEF Dial
    <3>4. AllowedAt(conn'[c]) /\ conn[c].pc \notin Closed /\ conn'[c].pc \notin Closed
      BY <3>1 DEF AllowedAt, Closed
    <3> QED BY <1>0, <2>6, <3>1, <3>2, <3>3, <3>4, MovesOn DEF OthersKept, Dial, World, Surroundings
  <2>7. CASE TunnelEnds(c)
    <3>1. /\ conn[c].pc = "tunnel" /\ conn'[c].pc = "report"
          /\ conn'[c].policy = conn[c].policy
          /\ OthersKept(c)
      BY <1>0, <2>7, GoEffect DEF TunnelEnds, KnowsTheSame
    <3>2. conn[c].policy \in inForce[c]
      BY <3>1 DEF PolicyInv, PolicyKept, Decided
    <3> QED BY <1>0, <2>7, <3>1, <3>2, MovesOn DEF OthersKept, TunnelEnds, World, Surroundings, Closed, AllowedAt
  <2>8. CASE ReportTunnel(c)
    BY <1>0, <2>8, ReleaseKeepsPolicy DEF ReportTunnel
  <2>9. CASE Handshake(c)
    <3>1. /\ conn[c].pc = "tls" /\ conn'[c].pc \in {"open", "error"}
          /\ conn'[c].policy = conn[c].policy
          /\ OthersKept(c)
      <4>1. CASE Go(c, "error")
        BY <1>0, <2>9, <4>1, GoEffect DEF Handshake, KnowsTheSame
      <4>2. CASE conn' = [conn EXCEPT ![c] = [@ EXCEPT !.pc = "open", !.sni = "seen"]]
        BY <1>0, <2>9, <4>2 DEF Handshake, ProxyTypes, ConnState, OthersKept
      <4> QED BY <2>9, <4>1, <4>2 DEF Handshake
    <3>2. conn[c].policy \in inForce[c]
      BY <3>1 DEF PolicyInv, PolicyKept, Decided
    <3> QED BY <1>0, <2>9, <3>1, <3>2, MovesOn DEF OthersKept, Handshake, World, Surroundings, Closed, AllowedAt
  <2>10. ASSUME NEW method \in {"GET", "POST"}, NEW upgrade \in BOOLEAN, Request(c, method, upgrade)
         PROVE  PolicyInv'
    <3>1. /\ conn[c].pc = "open" /\ conn'[c].pc \in {"body", "upstream"}
          /\ conn'[c].policy = conn[c].policy /\ conn'[c].domain = conn[c].domain
          /\ conn'[c].pc = "upstream" =>
                Allows(conn[c].policy, conn[c].domain, method) /\ conn'[c].method = method
          /\ OthersKept(c)
      <4> DEFINE refused == ~Allows(conn[c].policy, conn[c].domain, method) \/ upgrade
      <4>1. CASE refused
        <5>1. conn' = [conn EXCEPT ![c] = [@ EXCEPT !.pc = "body", !.n = conn[c].n + 1, !.method = None]]
          BY <2>10, <4>1 DEF Request
        <5> QED BY <1>0, <2>10, <5>1 DEF Request, ProxyTypes, ConnState, OthersKept
      <4>2. CASE ~refused
        <5>1. conn' = [conn EXCEPT ![c] = [@ EXCEPT !.pc = "upstream", !.n = conn[c].n + 1, !.method = method]]
          BY <2>10, <4>2 DEF Request
        <5> QED BY <1>0, <2>10, <4>2, <5>1 DEF Request, ProxyTypes, ConnState, OthersKept
      <4> QED BY <4>1, <4>2
    <3>2. conn[c].policy \in inForce[c]
      BY <3>1 DEF PolicyInv, PolicyKept, Decided
    <3> QED BY <1>0, <2>10, <3>1, <3>2, MovesOn DEF OthersKept, Request, World, Surroundings, Closed, AllowedAt
  <2>11. CASE Upstream(c)
    <3>1. /\ conn[c].pc = "upstream" /\ conn'[c].pc \in {"body", "send"}
          /\ conn'[c].policy = conn[c].policy /\ conn'[c].domain = conn[c].domain
          /\ conn'[c].pc = "send" => conn'[c].method = conn[c].method
          /\ OthersKept(c)
      BY <1>0, <2>11, GoEffect, AnswerEffect DEF Upstream, BadGateway, KnowsTheSame
    <3>2. conn[c].policy \in inForce[c] /\ Allows(conn[c].policy, conn[c].domain, conn[c].method)
      BY <3>1 DEF PolicyInv, PolicyKept, Decided, AllowedAt
    <3> QED BY <1>0, <2>11, <3>1, <3>2, MovesOn DEF OthersKept, Upstream, World, Surroundings, Closed, AllowedAt
  <2>12. CASE Send(c)
    <3>1. /\ conn[c].pc = "send" /\ conn'[c].pc = "body" /\ conn'[c].policy = conn[c].policy
          /\ OthersKept(c)
      BY <1>0, <2>12, AnswerEffect DEF Send, BadGateway, KnowsTheSame
    <3>2. conn[c].policy \in inForce[c] /\ Allows(conn[c].policy, conn[c].domain, conn[c].method)
      BY <3>1 DEF PolicyInv, PolicyKept, Decided, AllowedAt
    <3>3. sent'.conn = c /\ \E p \in inForce[c] : Allows(p, sent'.domain, sent'.method)
      BY <2>12, <3>2 DEF Send
    <3>4. AllowedAt(conn'[c]) /\ conn[c].pc \notin Closed /\ conn'[c].pc \notin Closed
      BY <3>1 DEF AllowedAt, Closed
    <3> QED BY <1>0, <2>12, <3>1, <3>2, <3>3, <3>4, MovesOn DEF OthersKept, Send, World, Surroundings
  <2>13. CASE BodyEnds(c)
    <3>1. /\ conn[c].pc = "body" /\ conn'[c].pc = "open" /\ conn'[c].policy = conn[c].policy
          /\ OthersKept(c)
      BY <1>0, <2>13, GoEffect DEF BodyEnds, KnowsTheSame
    <3>2. conn[c].policy \in inForce[c]
      BY <3>1 DEF PolicyInv, PolicyKept, Decided
    <3> QED BY <1>0, <2>13, <3>1, <3>2, MovesOn DEF OthersKept, BodyEnds, World, Surroundings, Closed, AllowedAt
  <2>14. CASE HangUp(c)
    BY <1>0, <2>14, ReleaseKeepsPolicy DEF HangUp
  <2>15. CASE Timeout(c)
    BY <1>0, <2>15, ReleaseKeepsPolicy DEF Timeout
  <2> QED BY <1>4, <2>1, <2>2, <2>3, <2>4, <2>5, <2>6, <2>7, <2>8, <2>9, <2>10, <2>11, <2>12,
             <2>13, <2>14, <2>15 DEF ConnStep
<1> QED BY <1>1, <1>2, <1>3, <1>4 DEF ProxyNext

\* The first state satisfies the policy invariant.
LEMMA PolicyInitially == ProxyInit => PolicyInv
<1> SUFFICES ASSUME ProxyInit PROVE PolicyInv
  OBVIOUS
<1> USE ProxyAssumption
<1>1. Fresh \in ConnState /\ Fresh.pc = "new" /\ Fresh.n = 0
  BY PointsAre DEF Fresh, ConnState
<1>2. ProxyTypes
  BY <1>1 DEF ProxyInit, ProxyTypes
<1>3. PolicyKept
  BY <1>1 DEF ProxyInit, PolicyKept, AllowedAt, Closed, Decided
<1>4. SentAllowed /\ TokensBounded
  BY DEF ProxyInit, SentAllowed, TokensBounded
<1> QED BY <1>2, <1>3, <1>4 DEF PolicyInv

\* Nothing of a connection reaches a server unless a policy in force during the
\* life of that connection allows it, and no domain gets more connections than
\* its tokens: whatever the number of connections, the swaps of the policy and
\* the pieces in which the ClientHello arrives.
THEOREM OnlyAllowedIsSent == ProxySpec => []OnlyAllowedSent
<1>1. PolicyInv => OnlyAllowedSent
  <2> SUFFICES ASSUME PolicyInv PROVE OnlyAllowedSent
    OBVIOUS
  <2>1. sent # None => \E p \in inForce[sent.conn] : Allows(p, sent.domain, sent.method)
    BY DEF PolicyInv, SentAllowed
  <2>2. ASSUME NEW d \in Domains PROVE admitted[d] <= Rate * (1 + clock)
    <3>1. admitted[d] \in Nat /\ bucket[d] \in Nat /\ Rate * (1 + clock) \in Nat
      BY ProxyAssumption DEF PolicyInv, ProxyTypes
    <3> QED BY <3>1 DEF PolicyInv, TokensBounded
  <2> QED BY <2>1, <2>2 DEF OnlyAllowedSent
<1> QED BY <1>1, PolicyInitially, PolicyStep, PTL DEF ProxySpec
------------------------------------------------------------------------------
(* Every answered exchange is reported once.                               *)

Asking == {"upstream", "send"}

\* The reports of the requests of one connection: a request that waits for its
\* answer has none, one whose body is under way will get its report, and an
\* answered one of the past has it.
AccountOf(c) ==
    /\ conn[c].pc \in Asking \cup {"body"} => conn[c].n >= 1
    /\ conn[c].pc \in Asking => Ex(c) \notin answered
    /\ conn[c].pc = "body" => Ex(c) \in answered
    /\ \A k \in 1..MaxRequests[c] :
        IF <<c, k>> \in answered
        THEN k <= conn[c].n /\ reports[<<c, k>>] = IF conn[c].pc = "body" /\ conn[c].n = k THEN 0 ELSE 1
        ELSE reports[<<c, k>>] = 0

\* Only requests are answered.
AnsweredRequests == \A ex \in answered : \E c \in Conns : \E k \in 1..MaxRequests[c] : ex = <<c, k>>

ReportInv == ProxyTypes /\ AnsweredRequests /\ \A c \in Conns : AccountOf(c)

\* A step of one connection touches no other account.
LEMMA OneAccount ==
    ASSUME ReportInv, ProxyTypes', NEW c \in Conns, OthersKept(c),
           \A d \in Conns \ {c} : \A k \in Nat :
               /\ <<d, k>> \in answered' <=> <<d, k>> \in answered
               /\ <<d, k>> \in Exchanges => reports'[<<d, k>>] = reports[<<d, k>>],
           AnsweredRequests', AccountOf(c)'
    PROVE  ReportInv'
<1> SUFFICES ASSUME NEW d \in Conns, d # c PROVE AccountOf(d)'
  BY DEF ReportInv
<1>1. conn'[d] = conn[d] /\ AccountOf(d)
  BY DEF OthersKept, ReportInv
<1>2. conn[d].n \in Nat /\ MaxRequests[d] \in Nat
  BY ProxyAssumption DEF ReportInv, ProxyTypes, ConnState
<1>3. \A k \in 1..MaxRequests[d] : <<d, k>> \in Exchanges
  BY <1>2, ExchangeIs
<1> QED BY <1>1, <1>2, <1>3 DEF AccountOf, Ex

\* A step that answers nothing and ends no body leaves the account as it is; a
\* report of the connection as a whole is no report of a request.
LEMMA QuietStep ==
    ASSUME ReportInv, ProxyTypes', NEW c \in Conns, OthersKept(c), answered' = answered,
           conn'[c].n = conn[c].n, conn[c].pc # "body", conn'[c].pc # "body",
           conn'[c].pc \in Asking => conn[c].pc \in Asking,
           reports' = reports \/ Report(<<c, 0>>)
    PROVE  ReportInv'
<1>1. \A d \in Conns : \A k \in Nat :
          <<d, k>> \in Exchanges /\ <<d, k>> # <<c, 0>> => reports'[<<d, k>>] = reports[<<d, k>>]
  BY DEF Report, ReportInv, ProxyTypes
<1>2. conn[c].n \in Nat /\ MaxRequests[c] \in Nat
  BY ProxyAssumption DEF ReportInv, ProxyTypes, ConnState
<1>3. \A k \in 1..MaxRequests[c] : reports'[<<c, k>>] = reports[<<c, k>>]
  BY <1>1, <1>2, ExchangeIs
<1>4. AccountOf(c)'
  BY <1>2, <1>3 DEF ReportInv, AccountOf, Ex
<1>5. AnsweredRequests'
  BY DEF ReportInv, AnsweredRequests
<1> QED BY <1>1, <1>4, <1>5, OneAccount

\* A body that ends, or is dropped, leaves the one report of its request.
LEMMA BodyReported ==
    ASSUME ReportInv, ProxyTypes', NEW c \in Conns, OthersKept(c), answered' = answered,
           conn'[c].n = conn[c].n, conn[c].pc = "body", conn'[c].pc \notin Asking \cup {"body"},
           Report(Ex(c))
    PROVE  ReportInv'
<1>1. \A d \in Conns : \A k \in Nat :
          <<d, k>> \in Exchanges /\ <<d, k>> # Ex(c) => reports'[<<d, k>>] = reports[<<d, k>>]
  BY DEF Report, ReportInv, ProxyTypes
<1>2. conn[c].n \in Nat /\ MaxRequests[c] \in Nat
  BY ProxyAssumption DEF ReportInv, ProxyTypes, ConnState
<1>3. AccountOf(c) /\ Ex(c) \in answered /\ conn[c].n \in 1..MaxRequests[c]
  BY <1>2 DEF ReportInv, AccountOf, ProxyTypes
<1>4. Ex(c) \in Exchanges /\ reports[Ex(c)] = 0
  BY <1>3, ExchangeOf DEF ReportInv, AccountOf, Ex
<1>5. reports'[Ex(c)] = 1
  BY <1>4 DEF Report, ReportInv, ProxyTypes
<1>6. \A k \in 1..MaxRequests[c] :
          reports'[<<c, k>>] = IF k = conn[c].n THEN 1 ELSE reports[<<c, k>>]
  BY <1>1, <1>2, <1>5, ExchangeIs DEF Ex
<1>7. AccountOf(c)'
  BY <1>2, <1>3, <1>6 DEF AccountOf, Ex
<1>8. AnsweredRequests'
  BY DEF ReportInv, AnsweredRequests
<1>9. \A d \in Conns \ {c} : \A k \in Nat :
          <<d, k>> \in Exchanges => reports'[<<d, k>>] = reports[<<d, k>>]
  BY <1>1 DEF Ex
<1> QED BY <1>7, <1>8, <1>9, OneAccount

\* The head of an answer opens the account of its request.
LEMMA AnswerCounted ==
    ASSUME ReportInv, ProxyTypes', NEW c \in Conns, OthersKept(c), reports' = reports,
           conn[c].pc \in Asking, conn'[c].pc = "body", conn'[c].n = conn[c].n,
           answered' = answered \cup {Ex(c)}
    PROVE  ReportInv'
<1>1. conn[c].n \in Nat /\ MaxRequests[c] \in Nat
  BY ProxyAssumption DEF ReportInv, ProxyTypes, ConnState
<1>2. AccountOf(c) /\ Ex(c) \notin answered /\ conn[c].n \in 1..MaxRequests[c]
  BY <1>1 DEF ReportInv, AccountOf, ProxyTypes
<1>3. \A k \in 1..MaxRequests[c] : <<c, k>> \in answered' <=> <<c, k>> \in answered \/ k = conn[c].n
  BY DEF Ex
<1>4. AccountOf(c)'
  BY <1>1, <1>2, <1>3 DEF AccountOf, Ex, Asking
<1>5. AnsweredRequests'
  BY <1>2 DEF ReportInv, AnsweredRequests, Ex
<1>6. \A d \in Conns \ {c} : \A k \in Nat : <<d, k>> \in answered' <=> <<d, k>> \in answered
  BY DEF Ex
<1> QED BY <1>4, <1>5, <1>6, OneAccount

\* A request takes the next number; one that is refused is answered at once.
LEMMA RequestCounted ==
    ASSUME ReportInv, ProxyTypes', NEW c \in Conns, NEW method, NEW upgrade, Request(c, method, upgrade)
    PROVE  ReportInv'
<1> DEFINE refused == ~Allows(conn[c].policy, conn[c].domain, method) \/ upgrade
           q == IF refused THEN "body" ELSE "upstream"
           n == conn[c].n + 1
<1>1. conn[c].n \in Nat /\ MaxRequests[c] \in Nat /\ conn[c].n < MaxRequests[c] /\ conn[c].pc = "open"
  BY ProxyAssumption DEF ReportInv, ProxyTypes, ConnState, Request
<1>2. conn' = [conn EXCEPT ![c] = [@ EXCEPT !.pc = q, !.n = n, !.method = IF refused THEN None ELSE method]]
  BY DEF Request
<1>3. answered' = IF refused THEN answered \cup {<<c, n>>} ELSE answered
  BY DEF Request
<1>4. reports' = reports
  BY DEF Request
<1>5. conn'[c].pc = q /\ conn'[c].n = n /\ OthersKept(c)
  <2> DEFINE m == IF refused THEN None ELSE method
  <2>1. conn' = [conn EXCEPT ![c] = [@ EXCEPT !.pc = q, !.n = n, !.method = m]]
    BY <1>2
  <2> HIDE DEF q, n, m
  <2> QED BY <2>1 DEF ReportInv, ProxyTypes, ConnState, OthersKept
<1>6. AccountOf(c) /\ <<c, n>> \notin answered /\ n \in 1..MaxRequests[c]
  BY <1>1 DEF ReportInv, AccountOf
<1>7. AccountOf(c)'
  <2>1. CASE refused
    <3>1. q = "body" /\ answered' = answered \cup {<<c, n>>}
      BY <1>3, <2>1
    <3> HIDE DEF refused, q
    <3> QED BY <1>1, <1>4, <1>5, <1>6, <3>1 DEF AccountOf, Ex, Asking
  <2>2. CASE ~refused
    <3>1. q = "upstream" /\ answered' = answered
      BY <1>3, <2>2
    <3> HIDE DEF refused, q
    <3> QED BY <1>1, <1>4, <1>5, <1>6, <3>1 DEF AccountOf, Ex, Asking
  <2> QED BY <2>1, <2>2
<1>8. AnsweredRequests'
  BY <1>3, <1>6 DEF ReportInv, AnsweredRequests
<1>9. \A d \in Conns \ {c} : \A k \in Nat : <<d, k>> \in answered' <=> <<d, k>> \in answered
  BY <1>3
<1> QED BY <1>4, <1>5, <1>7, <1>8, <1>9, OneAccount

\* What Release does to its connection.
LEMMA ReleaseEffect ==
    ASSUME ProxyTypes, NEW c \in Conns, Release(c)
    PROVE  conn'[c].pc = "done" /\ conn'[c].n = conn[c].n /\ OthersKept(c)
  BY DEF ProxyTypes, ConnState, Release, Fresh, OthersKept

\* Every step keeps the accounts.
LEMMA ReportStep == ReportInv /\ [ProxyNext]_proxyVars => ReportInv'
<1> SUFFICES ASSUME ReportInv, [ProxyNext]_proxyVars PROVE ReportInv'
  OBVIOUS
<1>0. ProxyTypes /\ ProxyTypes'
  BY TypesStep DEF ReportInv
<1>1. CASE UNCHANGED <<conn, answered, reports>>
  BY <1>0, <1>1 DEF ReportInv, AccountOf, AnsweredRequests, Ex
<1>2. ASSUME NEW c \in Conns, ConnStep(c) PROVE ReportInv'
  <2>1. CASE Admit(c)
    <3>1. conn[c].pc = "new" /\ conn'[c].pc \in {"hello", "done"} /\ conn'[c].n = conn[c].n /\ OthersKept(c)
      BY <1>0, <2>1, GoEffect DEF Admit, KnowsTheSame
    <3> QED BY <1>0, <2>1, <3>1, QuietStep DEF Admit, Asking
  <2>2. CASE HelloFails(c)
    <3>1. conn[c].pc = "hello" /\ conn'[c].pc = "error" /\ conn'[c].n = conn[c].n /\ OthersKept(c)
      BY <1>0, <2>2, GoEffect DEF HelloFails, KnowsTheSame
    <3> QED BY <1>0, <2>2, <3>1, QuietStep DEF HelloFails, Asking
  <2>3. ASSUME NEW d \in Names[c], NEW sni \in {"seen", "split", "none"}, Hello(c, d, sni)
        PROVE  ReportInv'
    <3>1. /\ conn[c].pc = "hello" /\ conn'[c].pc = Mode(c, d, sni) /\ conn'[c].n = conn[c].n
          /\ OthersKept(c)
      BY <1>0, <2>3 DEF Hello, ProxyTypes, ConnState, OthersKept
    <3>2. Mode(c, d, sni) \in {"error", "dial", "denied", "tls"}
      BY DEF Mode
    <3> QED BY <1>0, <2>3, <3>1, <3>2, QuietStep DEF Hello, Asking
  <2>4. CASE ReportDenied(c)
    <3>1. conn[c].pc = "denied" /\ conn'[c].pc = "error" /\ conn'[c].n = conn[c].n /\ OthersKept(c)
      BY <1>0, <2>4, GoEffect DEF ReportDenied, KnowsTheSame
    <3> QED BY <1>0, <2>4, <3>1, QuietStep DEF ReportDenied, Asking
  <2>5. CASE ReportError(c)
    BY <1>0, <2>5, ReleaseEffect, QuietStep DEF ReportError, Asking
  <2>6. CASE Dial(c)
    <3>1. /\ conn[c].pc = "dial" /\ conn'[c].pc \in {"tunnel", "error"} /\ conn'[c].n = conn[c].n
          /\ OthersKept(c)
      BY <1>0, <2>6, GoEffect DEF Dial, KnowsTheSame
    <3> QED BY <1>0, <2>6, <3>1, QuietStep DEF Dial, Asking
  <2>7. CASE TunnelEnds(c)
    <3>1. conn[c].pc = "tunnel" /\ conn'[c].pc = "report" /\ conn'[c].n = conn[c].n /\ OthersKept(c)
      BY <1>0, <2>7, GoEffect DEF TunnelEnds, KnowsTheSame
    <3> QED BY <1>0, <2>7, <3>1, QuietStep DEF TunnelEnds, Asking
  <2>8. CASE ReportTunnel(c)
    BY <1>0, <2>8, ReleaseEffect, QuietStep DEF ReportTunnel, Asking
  <2>9. CASE Handshake(c)
    <3>1. /\ conn[c].pc = "tls" /\ conn'[c].pc \in {"open", "error"} /\ conn'[c].n = conn[c].n
          /\ OthersKept(c)
      <4>1. CASE Go(c, "error")
        BY <1>0, <2>9, <4>1, GoEffect DEF Handshake, KnowsTheSame
      <4>2. CASE conn' = [conn EXCEPT ![c] = [@ EXCEPT !.pc = "open", !.sni = "seen"]]
        BY <1>0, <2>9, <4>2 DEF Handshake, ProxyTypes, ConnState, OthersKept
      <4> QED BY <2>9, <4>1, <4>2 DEF Handshake
    <3> QED BY <1>0, <2>9, <3>1, QuietStep DEF Handshake, Asking
  <2>10. ASSUME NEW method \in {"GET", "POST"}, NEW upgrade \in BOOLEAN, Request(c, method, upgrade)
         PROVE  ReportInv'
    BY <1>0, <2>10, RequestCounted
  <2>11. CASE Upstream(c)
    <3>1. conn[c].pc = "upstream" /\ reports' = reports
      BY <2>11 DEF Upstream
    <3>2. CASE Go(c, "send") /\ UNCHANGED answered
      <4>1. conn'[c].pc = "send" /\ conn'[c].n = conn[c].n /\ OthersKept(c)
        BY <1>0, <3>2, GoEffect DEF KnowsTheSame
      <4> QED BY <1>0, <3>1, <3>2, <4>1, QuietStep DEF Asking
    <3>3. CASE BadGateway(c)
      <4>1. conn'[c].pc = "body" /\ conn'[c].n = conn[c].n /\ OthersKept(c)
        BY <1>0, <3>3, AnswerEffect DEF BadGateway, KnowsTheSame
      <4> QED BY <1>0, <3>1, <3>3, <4>1, AnswerCounted DEF Asking, BadGateway
    <3> QED BY <2>11, <3>2, <3>3 DEF Upstream
  <2>12. CASE Send(c)
    <3>1. /\ conn[c].pc = "send" /\ reports' = reports /\ answered' = answered \cup {Ex(c)}
          /\ conn' = [conn EXCEPT ![c] = [@ EXCEPT !.pc = "body", !.method = None]]
      BY <2>12 DEF Send, BadGateway
    <3>2. conn'[c].pc = "body" /\ conn'[c].n = conn[c].n /\ OthersKept(c)
      BY <1>0, <3>1, AnswerEffect DEF KnowsTheSame
    <3> QED BY <1>0, <3>1, <3>2, AnswerCounted DEF Asking
  <2>13. CASE BodyEnds(c)
    <3>1. conn[c].pc = "body" /\ conn'[c].pc = "open" /\ conn'[c].n = conn[c].n /\ OthersKept(c)
      BY <1>0, <2>13, GoEffect DEF BodyEnds, KnowsTheSame
    <3> QED BY <1>0, <2>13, <3>1, BodyReported DEF BodyEnds, Spawn, Asking
  <2>14. ASSUME HangUp(c) \/ Timeout(c) PROVE ReportInv'
    <3>1. /\ conn'[c].pc = "done" /\ conn'[c].n = conn[c].n /\ OthersKept(c)
          /\ answered' = answered
          /\ IF conn[c].pc = "body" THEN Report(Ex(c)) ELSE reports' = reports
      BY <1>0, <2>14, ReleaseEffect DEF HangUp, Timeout, Spawn
    <3>2. CASE conn[c].pc = "body"
      BY <1>0, <3>1, <3>2, BodyReported DEF Asking
    <3>3. CASE conn[c].pc # "body"
      BY <1>0, <3>1, <3>3, QuietStep DEF Asking
    <3> QED BY <3>2, <3>3
  <2> QED BY <1>2, <2>1, <2>2, <2>3, <2>4, <2>5, <2>6, <2>7, <2>8, <2>9, <2>10, <2>11, <2>12,
             <2>13, <2>14 DEF ConnStep
<1>3. ASSUME SwapPolicy \/ Tick \/ UNCHANGED proxyVars PROVE UNCHANGED <<conn, answered, reports>>
  BY <1>3 DEF SwapPolicy, Tick, proxyVars
<1> QED BY <1>1, <1>2, <1>3 DEF ProxyNext

\* An exchange of which the guest saw an answer is reported exactly once, for
\* any number of connections and requests, whichever way its body ends.
THEOREM AnsweredReportedOnce == ProxySpec => []ReportedOnce
<1>1. ProxyInit => ReportInv
  <2> SUFFICES ASSUME ProxyInit PROVE ReportInv
    OBVIOUS
  <2>1. ProxyTypes
    BY PolicyInitially DEF PolicyInv
  <2>2. \A c \in Conns : conn[c].pc = "new" /\ MaxRequests[c] \in Nat
    BY ProxyAssumption DEF ProxyInit, Fresh
  <2>3. \A c \in Conns : \A k \in 1..MaxRequests[c] : reports[<<c, k>>] = 0
    <3> TAKE c \in Conns
    <3> TAKE k \in 1..MaxRequests[c]
    <3>1. <<c, k>> \in Exchanges
      BY <2>2, ExchangeIs
    <3>2. reports = [ex \in Exchanges |-> 0]
      BY DEF ProxyInit
    <3> QED BY <3>1, <3>2, Zenon
  <2>4. answered = {}
    BY DEF ProxyInit
  <2> QED BY <2>1, <2>2, <2>3, <2>4 DEF ReportInv, AnsweredRequests, AccountOf, Asking
<1>2. ReportInv => ReportedOnce
  <2> SUFFICES ASSUME ReportInv, NEW ex \in answered
               PROVE  reports[ex] + (IF conn[ex[1]].pc = "body" /\ conn[ex[1]].n = ex[2] THEN 1 ELSE 0) = 1
    BY DEF ReportedOnce
  <2>0. PICK c \in Conns : \E k \in 1..MaxRequests[c] : ex = <<c, k>>
    BY DEF ReportInv, AnsweredRequests
  <2>1. PICK k \in 1..MaxRequests[c] : ex = <<c, k>>
    BY <2>0
  <2>2. AccountOf(c)
    BY DEF ReportInv
  <2> QED BY <2>1, <2>2 DEF AccountOf
<1> QED BY <1>1, <1>2, ReportStep, PTL DEF ProxySpec
------------------------------------------------------------------------------
(* The permits of the semaphore.                                           *)

\* The permits that are taken are those of the live connections.
PermitsTaken == permits + Cardinality(LiveConns) = MaxConns

PermitInv == ProxyTypes /\ PermitsTaken

\* A connection that ends gives back the one permit it holds.
LEMMA ReleaseGivesBack ==
    ASSUME PermitInv, NEW c \in Conns, conn[c].pc \notin Closed, Release(c)
    PROVE  PermitsTaken'
<1>1. conn'[c].pc = "done" /\ OthersKept(c)
  BY ReleaseEffect DEF PermitInv
<1>2. LiveConns' = LiveConns \ {c} /\ c \in LiveConns
  BY <1>1 DEF LiveConns, OthersKept, Closed
<1>3. IsFiniteSet(LiveConns) /\ Cardinality(LiveConns) \in Nat
  BY FS_Subset, FS_CardinalityType, ProxyAssumption DEF LiveConns
<1>4. Cardinality(LiveConns') = Cardinality(LiveConns) - 1
  BY <1>2, <1>3, FS_RemoveElement
<1>5. permits' = permits + 1 /\ permits \in Nat /\ MaxConns \in Nat
  BY ProxyAssumption DEF Release, PermitInv, ProxyTypes
<1> QED BY <1>3, <1>4, <1>5 DEF PermitInv, PermitsTaken

\* A step of a live connection that stays live takes no permit.
LEMMA LiveStays ==
    ASSUME PermitInv, NEW c \in Conns, conn[c].pc \notin Closed, conn'[c].pc \notin Closed,
           OthersKept(c), permits' = permits
    PROVE  PermitsTaken'
<1>1. LiveConns' = LiveConns
  BY DEF LiveConns, OthersKept
<1> QED BY <1>1 DEF PermitInv, PermitsTaken

\* Every step keeps the permits in balance.
LEMMA PermitStep == PermitInv /\ [ProxyNext]_proxyVars => PermitInv'
<1> SUFFICES ASSUME PermitInv, [ProxyNext]_proxyVars PROVE PermitsTaken'
  BY TypesStep DEF PermitInv
<1>0. ProxyTypes
  BY DEF PermitInv
<1>1. CASE UNCHANGED <<conn, permits>>
  BY <1>1 DEF PermitInv, PermitsTaken, LiveConns
<1>2. ASSUME NEW c \in Conns, ConnStep(c) PROVE PermitsTaken'
  <2>1. CASE Admit(c)
    <3>1. CASE permits > 0
      <4>1. conn[c].pc = "new" /\ conn'[c].pc = "hello" /\ OthersKept(c) /\ permits' = permits - 1
        BY <1>0, <2>1, <3>1, GoEffect DEF Admit
      <4>2. LiveConns' = LiveConns \cup {c} /\ c \notin LiveConns
        BY <4>1 DEF LiveConns, OthersKept, Closed
      <4>3. IsFiniteSet(LiveConns) /\ Cardinality(LiveConns) \in Nat
        BY FS_Subset, FS_CardinalityType, ProxyAssumption DEF LiveConns
      <4>4. Cardinality(LiveConns') = Cardinality(LiveConns) + 1
        BY <4>2, <4>3, FS_AddElement
      <4>5. permits \in Nat /\ MaxConns \in Nat
        BY ProxyAssumption, <1>0 DEF ProxyTypes
      <4> QED BY <4>1, <4>3, <4>4, <4>5 DEF PermitInv, PermitsTaken
    <3>2. CASE ~(permits > 0)
      <4>1. conn[c].pc = "new" /\ conn'[c].pc = "done" /\ OthersKept(c) /\ permits' = permits
        BY <1>0, <2>1, <3>2, GoEffect DEF Admit
      <4>2. LiveConns' = LiveConns
        BY <4>1 DEF LiveConns, OthersKept, Closed
      <4> QED BY <4>1, <4>2 DEF PermitInv, PermitsTaken
    <3> QED BY <3>1, <3>2
  <2>2. ASSUME HelloFails(c) \/ ReportDenied(c) \/ Dial(c) \/ TunnelEnds(c) \/ BodyEnds(c)
        PROVE  PermitsTaken'
    <3>1. PICK q \in {"error", "tunnel", "report", "open"} : Go(c, q)
      BY <2>2 DEF HelloFails, ReportDenied, Dial, TunnelEnds, BodyEnds
    <3>2. conn[c].pc \in {"hello", "denied", "dial", "tunnel", "body"} /\ permits' = permits
      BY <2>2 DEF HelloFails, ReportDenied, Dial, TunnelEnds, BodyEnds
    <3>3. conn'[c].pc = q /\ OthersKept(c)
      BY <1>0, <3>1, GoEffect
    <3> QED BY <3>2, <3>3, LiveStays DEF Closed
  <2>3. ASSUME NEW d \in Names[c], NEW sni \in {"seen", "split", "none"}, Hello(c, d, sni)
        PROVE  PermitsTaken'
    <3>1. conn[c].pc = "hello" /\ conn'[c].pc = Mode(c, d, sni) /\ OthersKept(c) /\ permits' = permits
      BY <1>0, <2>3 DEF Hello, ProxyTypes, ConnState, OthersKept
    <3>2. Mode(c, d, sni) \in {"error", "dial", "denied", "tls"}
      BY DEF Mode
    <3> QED BY <3>1, <3>2, LiveStays DEF Closed
  <2>4. CASE Handshake(c)
    <3>1. conn[c].pc = "tls" /\ conn'[c].pc \in {"open", "error"} /\ OthersKept(c) /\ permits' = permits
      <4>1. CASE Go(c, "error")
        BY <1>0, <2>4, <4>1, GoEffect DEF Handshake
      <4>2. CASE conn' = [conn EXCEPT ![c] = [@ EXCEPT !.pc = "open", !.sni = "seen"]]
        BY <1>0, <2>4, <4>2 DEF Handshake, ProxyTypes, ConnState, OthersKept
      <4> QED BY <2>4, <4>1, <4>2 DEF Handshake
    <3> QED BY <3>1, LiveStays DEF Closed
  <2>5. ASSUME NEW method \in {"GET", "POST"}, NEW upgrade \in BOOLEAN, Request(c, method, upgrade)
        PROVE  PermitsTaken'
    <3>0. PICK q \in {"body", "upstream"} :
             \E k, m : conn' = [conn EXCEPT ![c] = [@ EXCEPT !.pc = q, !.n = k, !.method = m]]
      <4> DEFINE refused == ~Allows(conn[c].policy, conn[c].domain, method) \/ upgrade
                 m == IF refused THEN None ELSE method
                 k == conn[c].n + 1
      <4>1. conn' = [conn EXCEPT ![c] = [@ EXCEPT !.pc = IF refused THEN "body" ELSE "upstream",
                                                   !.n = k, !.method = m]]
        BY <2>5 DEF Request
      <4> HIDE DEF refused, m, k
      <4>2. CASE refused
        BY <4>1, <4>2
      <4>3. CASE ~refused
        BY <4>1, <4>3
      <4> QED BY <4>2, <4>3
    <3>1. PICK k, m : conn' = [conn EXCEPT ![c] = [@ EXCEPT !.pc = q, !.n = k, !.method = m]]
      BY <3>0
    <3>2. conn[c].pc = "open" /\ conn'[c].pc = q /\ OthersKept(c) /\ permits' = permits
      BY <1>0, <2>5, <3>1, ZenonT(60) DEF Request, ProxyTypes, ConnState, OthersKept
    <3> QED BY <3>2, LiveStays DEF Closed
  <2>6. CASE Upstream(c)
    <3>1. /\ conn[c].pc = "upstream" /\ conn'[c].pc \in {"send", "body"}
          /\ OthersKept(c) /\ permits' = permits
      BY <1>0, <2>6, GoEffect, AnswerEffect DEF Upstream, BadGateway
    <3> QED BY <3>1, LiveStays DEF Closed
  <2>7. CASE Send(c)
    <3>1. conn[c].pc = "send" /\ conn'[c].pc = "body" /\ OthersKept(c) /\ permits' = permits
      BY <1>0, <2>7, AnswerEffect DEF Send, BadGateway
    <3> QED BY <3>1, LiveStays DEF Closed
  <2>8. ASSUME ReportError(c) \/ ReportTunnel(c) \/ HangUp(c) \/ Timeout(c)
        PROVE  PermitsTaken'
    <3>1. Release(c) /\ conn[c].pc \notin Closed
      BY <2>8 DEF ReportError, ReportTunnel, HangUp, Timeout, Guarded, Closed
    <3> QED BY <3>1, ReleaseGivesBack
  <2> QED BY <1>2, <2>1, <2>2, <2>3, <2>4, <2>5, <2>6, <2>7, <2>8 DEF ConnStep
<1>3. ASSUME SwapPolicy \/ Tick \/ UNCHANGED proxyVars PROVE UNCHANGED <<conn, permits>>
  BY <1>3 DEF SwapPolicy, Tick, proxyVars
<1> QED BY <1>1, <1>2, <1>3 DEF ProxyNext

\* The permits of the semaphore that are taken are exactly those of the live
\* connections: however a connection ends, it gives its permit back, once.
THEOREM PermitsExact == ProxySpec => []ProxyTypeOK
<1>1. ProxyInit => PermitInv
  <2> SUFFICES ASSUME ProxyInit PROVE PermitInv
    OBVIOUS
  <2>1. ProxyTypes
    BY PolicyInitially DEF PolicyInv
  <2>2. LiveConns = {}
    BY DEF ProxyInit, LiveConns, Fresh, Closed
  <2> QED BY <2>1, <2>2, FS_EmptySet, ProxyAssumption DEF ProxyInit, PermitInv, PermitsTaken
<1>2. PermitInv => ProxyTypeOK
  <2> SUFFICES ASSUME PermitInv PROVE ProxyTypeOK
    OBVIOUS
  <2>1. permits + Cardinality({c \in Conns : conn[c].pc \notin {"new", "done"}}) = MaxConns
    BY DEF PermitInv, PermitsTaken, LiveConns, Closed
  <2>2. ASSUME NEW c \in Conns
        PROVE  conn[c].pc \in Guarded \cup {"new", "error", "done"} /\ conn[c].n \in 0..MaxRequests[c]
    BY ProxyAssumption DEF PermitInv, ProxyTypes, ConnState, Points
  <2> QED BY <2>1, <2>2 DEF ProxyTypeOK, PermitInv, ProxyTypes
<1> QED BY <1>1, <1>2, PermitStep, PTL DEF ProxySpec

------------------------------------------------------------------------------
(* The VPN: what the parser of its configuration accepts.                  *)

NothingParsed == [section |-> "none", keys |-> {}, failed |-> FALSE]

\* The parser is defined by its recursion: the function exists for no lines, and a
\* number of lines without one would have a predecessor without one.
LEMMA ParsedUnfolds ==
    ASSUME NEW lines \in Seq(Line)
    PROVE  Parsed(lines) = [i \in 0..Len(lines) |-> IF i = 0 THEN NothingParsed
                                                    ELSE ParseLine(Parsed(lines)[i - 1], lines[i])]
<1> DEFINE Body(f, i) == IF i = 0 THEN NothingParsed ELSE ParseLine(f[i - 1], lines[i])
           Unfolds(f, n) == f = [i \in 0..n |-> Body(f, i)]
           R == {ss \in Nat \X Nat : ss[1] < ss[2]}
           Bad == {n \in Nat : \A f : ~Unfolds(f, n)}
<1>1. Bad = {}
  <2> SUFFICES ASSUME Bad # {} PROVE FALSE
    OBVIOUS
  <2>1. IsWellFoundedOn(R, Nat)
    BY NatLessThanWellFounded, Zenon DEF OpToRel
  <2>2. PICK n \in Bad : \A m \in Bad : ~(<<m, n>> \in R)
    BY <2>1, WFMin
  <2>3. CASE n = 0
    <3> DEFINE f == [i \in 0..0 |-> NothingParsed]
    <3>1. Unfolds(f, 0)
      OBVIOUS
    <3> QED BY <2>2, <2>3, <3>1
  <2>4. CASE n # 0
    <3>0. n \in Nat /\ n - 1 \in Nat /\ <<n - 1, n>> \in R
      BY <2>4
    <3>1. n - 1 \notin Bad
      BY <2>2, <3>0, Zenon
    <3>2. PICK f : Unfolds(f, n - 1)
      BY <3>0, <3>1
    <3> DEFINE g == [i \in 0..n |-> IF i = n THEN Body(f, n) ELSE f[i]]
    <3>3. ASSUME NEW i \in 0..n PROVE g[i] = Body(g, i)
      <4>1. CASE i = 0
        BY <2>4, <3>2, <4>1
      <4>2. CASE i # 0
        <5>1. i - 1 \in 0..(n - 1) /\ g[i - 1] = f[i - 1]
          BY <2>2, <4>2
        <5> QED BY <2>2, <3>2, <4>2, <5>1
      <4> QED BY <4>1, <4>2
    <3>4. Unfolds(g, n)
      BY <3>3
    <3> QED BY <2>2, <3>4
  <2> QED BY <2>3, <2>4
<1>2. \E f : Unfolds(f, Len(lines))
  BY <1>1
<1>3. Parsed(lines) = CHOOSE f : Unfolds(f, Len(lines))
  BY Zenon DEF Parsed, NothingParsed
<1>4. Unfolds(CHOOSE f : Unfolds(f, Len(lines)), Len(lines))
  BY <1>2, Zenon
<1>5. Unfolds(Parsed(lines), Len(lines))
  BY <1>3, <1>4, Zenon
<1> QED BY <1>5, Zenon

ParseState == [section : {"none", "Interface", "Peer"}, keys : SUBSET STRING, failed : BOOLEAN]

\* The section the parser is in is the last header among the first i lines.
InSection(lines, i, section) ==
    \E head \in 1..i :
        /\ lines[head].kind = "section" /\ lines[head].name = section
        /\ \A j \in (head + 1)..i : lines[j].kind # "section"

\* What the parser knows is what the first i lines say.
SaidByLines(lines, i, s) ==
    /\ s \in ParseState
    /\ ~s.failed =>
          /\ s.section # "none" => InSection(lines, i, s.section)
          /\ \A name \in s.keys : Sets(lines, name)

\* One more line.
LEMMA LineParsed ==
    ASSUME NEW lines \in Seq(Line), NEW i \in 1..Len(lines), NEW s, SaidByLines(lines, i - 1, s)
    PROVE  SaidByLines(lines, i, ParseLine(s, lines[i]))
<1>1. /\ s \in ParseState /\ lines[i] \in Line /\ i \in Nat /\ Len(lines) \in Nat /\ DOMAIN lines = 1..Len(lines)
  BY DEF SaidByLines
<1>2. PICK line \in Line : line = lines[i]
  BY <1>1
<1>3. CASE s.failed
  <2>1. ParseLine(s, line) = s
    BY <1>3 DEF ParseLine
  <2> QED
    BY <1>1, <1>2, <1>3, <2>1 DEF SaidByLines
<1>4. CASE ~s.failed /\ line.kind = "section" /\ line.name \in {"Interface", "Peer"}
  <2>1. ParseLine(s, line) = [s EXCEPT !.section = line.name]
    BY <1>4 DEF ParseLine
  <2>2. /\ ParseLine(s, line) \in ParseState /\ ParseLine(s, line).section = line.name /\ ParseLine(s, line).keys = s.keys
    BY <1>1, <1>4, <2>1 DEF ParseState
  <2>3. InSection(lines, i, line.name)
    <3>1. i \in 1..i /\ (i + 1)..i = {}
      BY <1>1
    <3> QED
      BY <1>2, <1>4, <3>1 DEF InSection
  <2> QED
    BY <1>2, <1>4, <2>2, <2>3 DEF SaidByLines
<1>5. CASE ~s.failed /\ line.kind = "key" /\ s.section # "none"
  <2>1. PICK head \in 1..(i - 1) :
           /\ lines[head].kind = "section" /\ lines[head].name = s.section
           /\ \A j \in (head + 1)..(i - 1) : lines[j].kind # "section"
    BY <1>5 DEF SaidByLines, InSection
  <2>2. head \in 1..i /\ head < i /\ head \in DOMAIN lines /\ \A j \in (head + 1)..i : j = i \/ j \in (head + 1)..(i - 1)
    BY <1>1, <2>1
  <2>3. \A j \in (head + 1)..i : lines[j].kind # "section"
    BY <1>2, <1>5, <2>1, <2>2
  <2>4. InSection(lines, i, s.section)
    BY <2>1, <2>2, <2>3 DEF InSection
  <2>5. CASE line.name \notin Known(s.section) \/ (line.name \in Lists /\ line.value = "empty")
    <3>1. ParseLine(s, line) = s
      BY <1>5, <2>5 DEF ParseLine
    <3> QED
      BY <1>1, <1>2, <1>5, <2>4, <3>1 DEF SaidByLines
  <2>6. CASE /\ ~(line.name \notin Known(s.section) \/ (line.name \in Lists /\ line.value = "empty"))
             /\ line.value = "good"
    <3>1. ParseLine(s, line) = [s EXCEPT !.keys = @ \cup {line.name}]
      BY <1>5, <2>6 DEF ParseLine
    <3>2. /\ ParseLine(s, line) \in ParseState /\ ParseLine(s, line).section = s.section
          /\ ParseLine(s, line).keys = s.keys \cup {line.name}
      BY <1>1, <3>1 DEF ParseState, Line
    <3>3. lines[i] = Setting(line.name, "good")
      BY <1>2, <1>5, <2>6 DEF Setting, Line
    <3>4. Sets(lines, line.name)
      BY <1>1, <2>1, <2>2, <2>3, <2>6, <3>3 DEF Sets
    <3> QED
      BY <1>2, <1>5, <2>4, <3>2, <3>4 DEF SaidByLines
  <2>7. CASE /\ ~(line.name \notin Known(s.section) \/ (line.name \in Lists /\ line.value = "empty"))
             /\ line.value # "good"
    <3>1. ParseLine(s, line) = [s EXCEPT !.failed = TRUE]
      BY <1>5, <2>7 DEF ParseLine
    <3>2. ParseLine(s, line) \in ParseState /\ ParseLine(s, line).failed
      BY <1>1, <3>1 DEF ParseState
    <3> QED
      BY <1>2, <3>2 DEF SaidByLines
  <2> QED
    BY <2>5, <2>6, <2>7
<1>6. CASE /\ ~s.failed
           /\ ~(line.kind = "section" /\ line.name \in {"Interface", "Peer"})
           /\ ~(line.kind = "key" /\ s.section # "none")
  <2>1. ParseLine(s, line) = [s EXCEPT !.failed = TRUE]
    BY <1>6 DEF ParseLine
  <2>2. ParseLine(s, line) \in ParseState /\ ParseLine(s, line).failed
    BY <1>1, <2>1 DEF ParseState
  <2> QED
    BY <1>2, <2>2 DEF SaidByLines
<1> QED
  BY <1>3, <1>4, <1>5, <1>6

\* A configuration that is accepted sets everything a tunnel needs, each in the
\* section it belongs to (config::parse): the first line after which this were
\* false would have a predecessor after which it is true.
LEMMA ParsesSets ==
    ASSUME NEW lines \in Seq(Line), Parses(lines)
    PROVE  \A name \in Required : Sets(lines, name)
<1> DEFINE Good(i) == SaidByLines(lines, i, Parsed(lines)[i])
           R == {ss \in Nat \X Nat : ss[1] < ss[2]}
           Bad == {n \in Nat : n <= Len(lines) /\ ~Good(n)}
<1>1. Len(lines) \in Nat
  OBVIOUS
<1>2. Parsed(lines)[0] = NothingParsed /\ \A i \in 1..Len(lines) : Parsed(lines)[i] = ParseLine(Parsed(lines)[i - 1], lines[i])
  <2> DEFINE P == Parsed(lines)
  <2>1. P = [i \in 0..Len(lines) |-> IF i = 0 THEN NothingParsed ELSE ParseLine(P[i - 1], lines[i])]
    BY ParsedUnfolds
  <2> HIDE DEF P
  <2>2. P[0] = NothingParsed
    BY <1>1, <2>1
  <2>3. ASSUME NEW i \in 1..Len(lines) PROVE P[i] = ParseLine(P[i - 1], lines[i])
    BY <1>1, <2>1
  <2> QED
    BY <2>2, <2>3 DEF P
<1>3. Good(0)
  BY <1>2 DEF SaidByLines, NothingParsed, ParseState
<1>4. Bad = {}
  <2> SUFFICES ASSUME Bad # {} PROVE FALSE
    OBVIOUS
  <2>1. IsWellFoundedOn(R, Nat)
    BY NatLessThanWellFounded, Zenon DEF OpToRel
  <2>2. PICK n \in Bad : \A m \in Bad : ~(<<m, n>> \in R)
    BY <2>1, WFMin
  <2>3. n # 0
    BY <1>3, <2>2
  <2>4. n \in Nat /\ n - 1 \in Nat /\ n - 1 <= Len(lines) /\ n \in 1..Len(lines) /\ <<n - 1, n>> \in R
    BY <1>1, <2>2, <2>3
  <2>5. n - 1 \notin Bad
    BY <2>2, <2>4, Zenon
  <2>6. Good(n - 1)
    BY <2>4, <2>5
  <2>7. Good(n)
    BY <1>2, <2>4, <2>6, LineParsed
  <2> QED BY <2>2, <2>7
<1>5. Good(Len(lines))
  BY <1>1, <1>4
<1> QED BY <1>5 DEF Parses, Build, SaidByLines

------------------------------------------------------------------------------
(* The VPN: the manager and its tunnels.                                   *)

Sessions == {"none", "fresh", "expired"}
Tunnel == [session : Sessions, driven : BOOLEAN, open : Int]
DialState == [pc : {"idle", "syn", "stream", "direct", "plain", "failed", "over"}, tunnel : Nat]

\* The types; what names a tunnel names one that was created.
VpnTypes ==
    /\ vpn \in [status : {"disconnected", "connecting", "connected", "error"},
                tunnel : Nat, poll : Nat, config : Seq(Line)]
    /\ tunnels \in Seq(Tunnel)
    /\ call \in [Callers -> Nat] /\ dial \in [Dialers -> DialState]
    /\ overlap \in BOOLEAN
    /\ vpn.tunnel <= Len(tunnels) /\ vpn.tunnel = vpn.poll
    /\ \A k \in Callers : call[k] <= Len(tunnels)
    /\ \A d \in Dialers : /\ dial[d].tunnel <= Len(tunnels)
                          /\ dial[d].pc \in {"syn", "stream"} => dial[d].tunnel # 0
                          /\ dial[d].pc \in {"idle", "direct", "plain", "over"} => dial[d].tunnel = 0

\* A configuration was parsed.
ConfigRead == vpn.config # << >> => \A name \in Required : Sets(vpn.config, name)

\* Without overlapping calls one caller waits at most, and for the tunnel that the
\* manager holds.
WaitsForItsOwn ==
    ~overlap => \A k \in Callers : call[k] # 0 =>
                    /\ call[k] = vpn.tunnel /\ vpn.status = "connecting"
                    /\ \A l \in Callers : call[l] # 0 => l = k

StatusTrue == ~overlap /\ vpn.status = "connected" => vpn.tunnel # 0 /\ tunnels[vpn.tunnel].session # "none"

\* The task that drives a tunnel is the manager's, or it lost its handle.
TasksKnown ==
    /\ \A t \in DOMAIN tunnels : tunnels[t].driven => t \in detached \/ t = vpn.poll
    /\ vpn.tunnel # 0 => tunnels[vpn.tunnel].driven

\* The inductive invariant.
VpnInv == VpnTypes /\ ConfigRead /\ WaitsForItsOwn /\ StatusTrue /\ TasksKnown

\* The number of sockets of one tunnel changes.
LEMMA SocketsUpdate ==
    ASSUME tunnels \in Seq(Tunnel), NEW t \in DOMAIN tunnels, NEW n \in Int, tunnels' = [tunnels EXCEPT ![t].open = n]
    PROVE  /\ tunnels' \in Seq(Tunnel) /\ Len(tunnels') = Len(tunnels) /\ DOMAIN tunnels' = DOMAIN tunnels
           /\ \A u \in DOMAIN tunnels : /\ tunnels'[u].session = tunnels[u].session /\ tunnels'[u].driven = tunnels[u].driven
                                        /\ tunnels'[u].open = IF u = t THEN n ELSE tunnels[u].open
<1> DEFINE r == [tunnels[t] EXCEPT !.open = n]
<1>1. tunnels[t] \in Tunnel
  OBVIOUS
<1>2. r \in Tunnel /\ r.session = tunnels[t].session /\ r.driven = tunnels[t].driven /\ r.open = n
  BY <1>1 DEF Tunnel
<1>3. tunnels' = [tunnels EXCEPT ![t] = r]
  OBVIOUS
<1> HIDE DEF r
<1>4. tunnels' \in Seq(Tunnel) /\ Len(tunnels') = Len(tunnels) /\ DOMAIN tunnels' = DOMAIN tunnels
  BY <1>2, <1>3
<1>5. \A u \in DOMAIN tunnels : tunnels'[u] = IF u = t THEN r ELSE tunnels[u]
  BY <1>3
<1> QED
  BY <1>2, <1>4, <1>5

\* The session of one tunnel changes.
LEMMA SessionUpdate ==
    ASSUME tunnels \in Seq(Tunnel), NEW t \in DOMAIN tunnels, NEW s \in Sessions,
           tunnels' = [tunnels EXCEPT ![t].session = s]
    PROVE  /\ tunnels' \in Seq(Tunnel) /\ Len(tunnels') = Len(tunnels) /\ DOMAIN tunnels' = DOMAIN tunnels
           /\ \A u \in DOMAIN tunnels : /\ tunnels'[u].driven = tunnels[u].driven
                                        /\ tunnels'[u].session = IF u = t THEN s ELSE tunnels[u].session
<1> DEFINE r == [tunnels[t] EXCEPT !.session = s]
<1>1. tunnels[t] \in Tunnel
  OBVIOUS
<1>2. r \in Tunnel /\ r.driven = tunnels[t].driven /\ r.session = s
  BY <1>1 DEF Tunnel
<1>3. tunnels' = [tunnels EXCEPT ![t] = r]
  OBVIOUS
<1> HIDE DEF r
<1>4. tunnels' \in Seq(Tunnel) /\ Len(tunnels') = Len(tunnels) /\ DOMAIN tunnels' = DOMAIN tunnels
  BY <1>2, <1>3
<1>5. \A u \in DOMAIN tunnels : tunnels'[u] = IF u = t THEN r ELSE tunnels[u]
  BY <1>3
<1> QED
  BY <1>2, <1>4, <1>5

\* A tunnel in the place of another.
LEMMA TunnelReplaced ==
    tunnels \in Seq(Tunnel) => \A t \in DOMAIN tunnels, x \in Tunnel :
        /\ [tunnels EXCEPT ![t] = x] \in Seq(Tunnel) /\ Len([tunnels EXCEPT ![t] = x]) = Len(tunnels)
        /\ DOMAIN [tunnels EXCEPT ![t] = x] = DOMAIN tunnels
OBVIOUS

\* The task of one tunnel ends.
LEMMA TaskEnds ==
    ASSUME tunnels \in Seq(Tunnel), NEW t \in DOMAIN tunnels, tunnels' = [tunnels EXCEPT ![t].driven = FALSE]
    PROVE  /\ tunnels' \in Seq(Tunnel) /\ Len(tunnels') = Len(tunnels) /\ DOMAIN tunnels' = DOMAIN tunnels
           /\ ~tunnels'[t].driven
           /\ \A u \in DOMAIN tunnels : /\ u # t => tunnels'[u].driven = tunnels[u].driven
                                        /\ tunnels'[u].session = tunnels[u].session /\ tunnels'[u].open = tunnels[u].open
<1> DEFINE r == [tunnels[t] EXCEPT !.driven = FALSE]
<1>1. tunnels[t] \in Tunnel
  OBVIOUS
<1>2. r \in Tunnel /\ ~r.driven /\ r.session = tunnels[t].session /\ r.open = tunnels[t].open
  BY <1>1 DEF Tunnel
<1>3. tunnels' = [tunnels EXCEPT ![t] = r]
  OBVIOUS
<1> HIDE DEF r
<1>4. tunnels' \in Seq(Tunnel) /\ Len(tunnels') = Len(tunnels) /\ DOMAIN tunnels' = DOMAIN tunnels
  <2>1. r \in Tunnel
    BY <1>2, Zenon
  <2>2. /\ [tunnels EXCEPT ![t] = r] \in Seq(Tunnel) /\ Len([tunnels EXCEPT ![t] = r]) = Len(tunnels)
        /\ DOMAIN [tunnels EXCEPT ![t] = r] = DOMAIN tunnels
    BY <2>1, TunnelReplaced
  <2> QED
    BY <1>3, <2>2, Zenon
<1>5. \A u \in DOMAIN tunnels : tunnels'[u] = IF u = t THEN r ELSE tunnels[u]
  BY <1>3
<1> QED
  BY <1>2, <1>4, <1>5

\* Aborting the task the manager holds.
LEMMA AbortEffect ==
    ASSUME VpnInv, tunnels' = Abort(vpn.poll)
    PROVE  /\ tunnels' \in Seq(Tunnel) /\ Len(tunnels') = Len(tunnels) /\ DOMAIN tunnels' = DOMAIN tunnels
           /\ \A u \in DOMAIN tunnels : /\ tunnels'[u].session = tunnels[u].session /\ tunnels'[u].open = tunnels[u].open
                                        /\ tunnels'[u].driven => u \in detached /\ tunnels[u].driven
<1>1. /\ tunnels \in Seq(Tunnel) /\ vpn.poll \in Nat /\ vpn.poll <= Len(tunnels) /\ DOMAIN tunnels = 1..Len(tunnels)
      /\ \A t \in DOMAIN tunnels : tunnels[t].driven => t \in detached \/ t = vpn.poll
  BY DEF VpnInv, VpnTypes, TasksKnown
<1>2. CASE vpn.poll = 0
  BY <1>1, <1>2 DEF Abort
<1>3. CASE vpn.poll # 0
  <2>1. vpn.poll \in DOMAIN tunnels /\ tunnels' = [tunnels EXCEPT ![vpn.poll].driven = FALSE]
    BY <1>1, <1>3 DEF Abort
  <2>2. PICK t \in DOMAIN tunnels : t = vpn.poll
    BY <2>1
  <2>3. /\ tunnels' \in Seq(Tunnel) /\ Len(tunnels') = Len(tunnels) /\ DOMAIN tunnels' = DOMAIN tunnels
        /\ ~tunnels'[t].driven
        /\ \A u \in DOMAIN tunnels : /\ u # t => tunnels'[u].driven = tunnels[u].driven
                                     /\ tunnels'[u].session = tunnels[u].session /\ tunnels'[u].open = tunnels[u].open
    <3>1. tunnels' = [tunnels EXCEPT ![t].driven = FALSE] /\ tunnels \in Seq(Tunnel)
      BY <1>1, <2>1, <2>2
    <3> QED
      BY <3>1, TaskEnds
  <2>4. \A u \in DOMAIN tunnels : tunnels'[u].driven => u \in detached /\ tunnels[u].driven
    BY <1>1, <2>2, <2>3
  <2> QED
    BY <2>3, <2>4
<1> QED
  BY <1>2, <1>3

\* A step of the proxy's connections, an answer of the server and the end of a
\* session change nothing the manager is asked about.
LEMMA QuietVpnStep ==
    ASSUME VpnInv, UNCHANGED <<vpn, call, overlap, detached>>, dial' \in [Dialers -> DialState],
           tunnels' \in Seq(Tunnel), Len(tunnels') = Len(tunnels), DOMAIN tunnels' = DOMAIN tunnels,
           \A u \in DOMAIN tunnels : /\ tunnels'[u].driven = tunnels[u].driven
                                     /\ tunnels[u].session # "none" => tunnels'[u].session # "none",
           \A d \in Dialers : /\ dial'[d].tunnel <= Len(tunnels)
                              /\ dial'[d].pc \in {"syn", "stream"} => dial'[d].tunnel # 0
                              /\ dial'[d].pc \in {"idle", "direct", "plain", "over"} => dial'[d].tunnel = 0
    PROVE  VpnInv'
<1>1. VpnTypes /\ ConfigRead /\ WaitsForItsOwn /\ StatusTrue /\ TasksKnown
  BY DEF VpnInv
<1>2. vpn.tunnel # 0 => vpn.tunnel \in DOMAIN tunnels
  BY <1>1 DEF VpnTypes
<1>3. VpnTypes'
  BY <1>1 DEF VpnTypes
<1>4. ConfigRead' /\ WaitsForItsOwn'
  BY <1>1 DEF ConfigRead, WaitsForItsOwn
<1>5. StatusTrue'
  BY <1>1, <1>2 DEF StatusTrue
<1>6. TasksKnown'
  BY <1>1, <1>2 DEF TasksKnown
<1> QED
  BY <1>3, <1>4, <1>5, <1>6 DEF VpnInv

\* connect, in its two outcomes.
LEMMA ConnectStep ==
    ASSUME VpnInv, NEW k \in Callers, NEW lines \in Configs, Connect(k, lines)
    PROVE  VpnInv'
<1>1. VpnTypes /\ ConfigRead /\ WaitsForItsOwn /\ StatusTrue /\ TasksKnown
  BY DEF VpnInv
<1>2. lines \in Seq(Line) /\ \A name \in Required : Sets(lines, name)
  BY VpnAssumption, ParsesSets DEF Connect
<1>3. /\ call[k] = 0 /\ dial' = dial /\ overlap' = (overlap \/ Waiting # {})
  BY DEF Connect
<1>4. ~overlap' => ~overlap /\ \A l \in Callers : call[l] = 0
  BY <1>3 DEF Waiting
<1>5. /\ tunnels \in Seq(Tunnel) /\ Len(tunnels) \in Nat /\ DOMAIN tunnels = 1..Len(tunnels)
      /\ call \in [Callers -> Nat] /\ dial \in [Dialers -> DialState] /\ overlap' \in BOOLEAN
  BY <1>1, <1>3 DEF VpnTypes
<1>6. CASE vpn' = [vpn EXCEPT !.status = "error", !.config = lines] /\ UNCHANGED <<tunnels, call, detached>>
  <2>1. /\ vpn' \in [status : {"disconnected", "connecting", "connected", "error"},
                     tunnel : Nat, poll : Nat, config : Seq(Line)]
        /\ vpn'.status = "error" /\ vpn'.config = lines /\ vpn'.tunnel = vpn.tunnel /\ vpn'.poll = vpn.poll
    <3>1. vpn \in [status : {"disconnected", "connecting", "connected", "error"},
                   tunnel : Nat, poll : Nat, config : Seq(Line)]
      BY <1>1 DEF VpnTypes
    <3> QED
      BY <1>2, <1>6, <3>1
  <2>2. VpnTypes'
    BY <1>1, <1>3, <1>5, <1>6, <2>1 DEF VpnTypes
  <2>3. ConfigRead'
    BY <1>2, <2>1 DEF ConfigRead
  <2>4. WaitsForItsOwn' /\ StatusTrue' /\ TasksKnown'
    BY <1>1, <1>4, <1>6, <2>1 DEF WaitsForItsOwn, StatusTrue, TasksKnown
  <2> QED
    BY <2>2, <2>3, <2>4 DEF VpnInv
<1>7. CASE LET t == Len(tunnels) + 1
           IN /\ tunnels' = Append(tunnels, [session |-> "none", driven |-> TRUE, open |-> 0])
              /\ vpn' = [status |-> "connecting", tunnel |-> t, poll |-> t, config |-> lines]
              /\ call' = [call EXCEPT ![k] = t]
              /\ detached' = IF vpn.poll = 0 THEN detached ELSE detached \cup {vpn.poll}
  <2> DEFINE new == [session |-> "none", driven |-> TRUE, open |-> 0]
             t == Len(tunnels) + 1
  <2>1. new \in Tunnel /\ new.driven
    BY DEF Tunnel, Sessions
  <2>2. tunnels' = Append(tunnels, new)
    BY <1>7
  <2> HIDE DEF new
  <2>3. /\ tunnels' \in Seq(Tunnel) /\ Len(tunnels') = t /\ DOMAIN tunnels' = 1..t
        /\ \A u \in DOMAIN tunnels : tunnels'[u] = tunnels[u]
        /\ tunnels'[t] = new
    BY <1>5, <2>1, <2>2
  <2>4. /\ vpn'.status = "connecting" /\ vpn'.config = lines /\ vpn'.tunnel = t /\ vpn'.poll = t /\ t \in Nat /\ t # 0
        /\ vpn' \in [status : {"disconnected", "connecting", "connected", "error"},
                     tunnel : Nat, poll : Nat, config : Seq(Line)]
    BY <1>2, <1>5, <1>7
  <2>5. call' \in [Callers -> Nat] /\ call'[k] = t /\ \A l \in Callers \ {k} : call'[l] = call[l]
    BY <1>5, <1>7, <2>4
  <2>6. VpnTypes'
    <3>1. (\A l \in Callers : call'[l] <= Len(tunnels')) /\ \A d \in Dialers : dial[d].tunnel <= Len(tunnels')
      <4>1. (\A l \in Callers : call[l] \in Nat /\ call[l] <= Len(tunnels))
            /\ \A d \in Dialers : dial[d].tunnel \in Nat /\ dial[d].tunnel <= Len(tunnels)
        BY <1>1 DEF VpnTypes, DialState
      <4>2. Len(tunnels') = Len(tunnels) + 1 /\ Len(tunnels) \in Nat /\ t = Len(tunnels) + 1
        BY <1>5, <2>3
      <4>3. \A l \in Callers : call'[l] = t \/ call'[l] = call[l]
        BY <2>5
      <4>4. ASSUME NEW L \in Nat, NEW x \in Nat, x <= L PROVE x <= L + 1
        BY <4>4
      <4> HIDE DEF t
      <4>5. \A l \in Callers : call'[l] <= Len(tunnels')
        <5> SUFFICES ASSUME NEW l \in Callers PROVE call'[l] <= Len(tunnels')
          OBVIOUS
        <5> QED
          BY <4>1, <4>2, <4>3
      <4>6. \A d \in Dialers : dial[d].tunnel <= Len(tunnels')
        BY <4>1, <4>2, <4>4
      <4> QED
        BY <4>5, <4>6
    <3>2. \A d \in Dialers : /\ dial[d].pc \in {"syn", "stream"} => dial[d].tunnel # 0
                             /\ dial[d].pc \in {"idle", "direct", "plain", "over"} => dial[d].tunnel = 0
      BY <1>1 DEF VpnTypes
    <3>3. vpn'.tunnel <= Len(tunnels')
      BY <2>3, <2>4
    <3> QED
      BY <1>3, <1>5, <2>3, <2>4, <2>5, <3>1, <3>2, <3>3 DEF VpnTypes
  <2>7. ConfigRead' /\ StatusTrue'
    BY <1>2, <2>4 DEF ConfigRead, StatusTrue
  <2>8. WaitsForItsOwn'
    BY <1>4, <2>4, <2>5 DEF WaitsForItsOwn
  <2>9. TasksKnown'
    <3>1. ASSUME NEW u \in DOMAIN tunnels', tunnels'[u].driven PROVE u \in detached' \/ u = vpn'.poll
      <4>1. CASE u = t
        BY <2>4, <4>1
      <4>2. CASE u \in DOMAIN tunnels
        <5>1. u \in detached \/ u = vpn.poll
          BY <1>1, <2>3, <3>1, <4>2 DEF TasksKnown
        <5>2. u # 0
          BY <1>5, <4>2
        <5> QED
          BY <1>7, <5>1, <5>2
      <4> QED
        BY <1>5, <2>3, <4>1, <4>2
    <3>2. tunnels'[vpn'.tunnel].driven
      BY <2>1, <2>3, <2>4
    <3> QED
      BY <3>1, <3>2 DEF TasksKnown
  <2> QED
    BY <2>6, <2>7, <2>8, <2>9 DEF VpnInv
<1> QED
  BY <1>6, <1>7 DEF Connect

\* The end of connect, and disconnect.
LEMMA ManagerStep ==
    ASSUME VpnInv, Disconnect \/ \E k \in Callers : ConnectDone(k) \/ ConnectTimesOut(k)
    PROVE  VpnInv'
<1>1. VpnTypes /\ ConfigRead /\ WaitsForItsOwn /\ StatusTrue /\ TasksKnown
  BY DEF VpnInv
<1>2. /\ tunnels \in Seq(Tunnel) /\ Len(tunnels) \in Nat /\ DOMAIN tunnels = 1..Len(tunnels)
      /\ call \in [Callers -> Nat] /\ overlap \in BOOLEAN
      /\ vpn \in [status : {"disconnected", "connecting", "connected", "error"},
                   tunnel : Nat, poll : Nat, config : Seq(Line)]
  BY <1>1 DEF VpnTypes
<1>3. ASSUME NEW k \in Callers, ConnectDone(k) PROVE VpnInv'
  <2>1. /\ call[k] # 0 /\ tunnels[call[k]].session = "fresh" /\ UNCHANGED <<tunnels, dial, overlap, detached>>
        /\ vpn' = [vpn EXCEPT !.status = "connected"] /\ call' = [call EXCEPT ![k] = 0]
    BY <1>3 DEF ConnectDone, Up
  <2>2. /\ vpn' \in [status : {"disconnected", "connecting", "connected", "error"},
                     tunnel : Nat, poll : Nat, config : Seq(Line)]
        /\ vpn'.tunnel = vpn.tunnel /\ vpn'.poll = vpn.poll /\ vpn'.config = vpn.config
    BY <1>2, <2>1
  <2>3. call' \in [Callers -> Nat] /\ call'[k] = 0 /\ \A l \in Callers \ {k} : call'[l] = call[l]
    BY <1>2, <2>1
  <2>4. ~overlap => call[k] = vpn.tunnel /\ \A l \in Callers \ {k} : call[l] = 0
    BY <1>1, <2>1 DEF WaitsForItsOwn
  <2>5. VpnTypes'
    BY <1>1, <2>1, <2>2, <2>3 DEF VpnTypes
  <2>6. ConfigRead' /\ TasksKnown'
    BY <1>1, <2>1, <2>2 DEF ConfigRead, TasksKnown
  <2>7. WaitsForItsOwn' /\ StatusTrue'
    BY <2>1, <2>2, <2>3, <2>4 DEF WaitsForItsOwn, StatusTrue
  <2> QED
    BY <2>5, <2>6, <2>7 DEF VpnInv
<1>4. ASSUME tunnels' = Abort(vpn.poll), UNCHANGED <<dial, detached>>, overlap' \in BOOLEAN,
             vpn' \in [status : {"disconnected", "connecting", "connected", "error"},
                       tunnel : Nat, poll : Nat, config : Seq(Line)],
             vpn'.tunnel = 0, vpn'.poll = 0, vpn'.status # "connected", vpn'.config \in {vpn.config, << >>},
             call' \in [Callers -> Nat], \A l \in Callers : call'[l] \in {call[l], 0},
             ~overlap' => \A l \in Callers : call'[l] = 0
      PROVE  VpnInv'
  <2>1. /\ tunnels' \in Seq(Tunnel) /\ Len(tunnels') = Len(tunnels) /\ DOMAIN tunnels' = DOMAIN tunnels
        /\ \A u \in DOMAIN tunnels : tunnels'[u].driven => u \in detached
    BY <1>4, AbortEffect
  <2>2. VpnTypes'
    <3>1. (\A l \in Callers : call[l] <= Len(tunnels)) /\ dial \in [Dialers -> DialState]
          /\ \A d \in Dialers : /\ dial[d].tunnel <= Len(tunnels)
                                /\ dial[d].pc \in {"syn", "stream"} => dial[d].tunnel # 0
                                /\ dial[d].pc \in {"idle", "direct", "plain", "over"} => dial[d].tunnel = 0
      BY <1>1 DEF VpnTypes
    <3>2. 0 <= Len(tunnels)
      BY <1>2
    <3>3. \A l \in Callers : call'[l] <= Len(tunnels')
      BY <1>4, <2>1, <3>1, <3>2
    <3> QED
      BY <1>4, <2>1, <3>1, <3>2, <3>3 DEF VpnTypes
  <2>3. ConfigRead' /\ WaitsForItsOwn' /\ StatusTrue' /\ TasksKnown'
    BY <1>1, <1>4, <2>1 DEF ConfigRead, WaitsForItsOwn, StatusTrue, TasksKnown
  <2> QED
    BY <2>2, <2>3 DEF VpnInv
<1>5. ASSUME NEW k \in Callers, ConnectTimesOut(k) PROVE VpnInv'
  <2>1. /\ call[k] # 0 /\ tunnels' = Abort(vpn.poll) /\ vpn' = Fail /\ call' = [call EXCEPT ![k] = 0]
        /\ UNCHANGED <<dial, overlap, detached>>
    BY <1>5 DEF ConnectTimesOut, TimesOut
  <2>2. /\ vpn' \in [status : {"disconnected", "connecting", "connected", "error"},
                     tunnel : Nat, poll : Nat, config : Seq(Line)]
        /\ vpn'.tunnel = 0 /\ vpn'.poll = 0 /\ vpn'.config = vpn.config /\ vpn'.status # "connected"
    BY <1>2, <2>1 DEF Fail
  <2>3. call' \in [Callers -> Nat] /\ call'[k] = 0 /\ \A l \in Callers \ {k} : call'[l] = call[l]
    BY <1>2, <2>1
  <2>4. ~overlap => \A l \in Callers \ {k} : call[l] = 0
    BY <1>1, <2>1 DEF WaitsForItsOwn
  <2> QED
    BY <1>2, <1>4, <2>1, <2>2, <2>3, <2>4
<1>6. CASE Disconnect
  <2>1. /\ tunnels' = Abort(vpn.poll) /\ vpn' = Off /\ overlap' = (overlap \/ Waiting # {})
        /\ UNCHANGED <<call, dial, detached>>
    BY <1>6 DEF Disconnect
  <2>2. /\ vpn' \in [status : {"disconnected", "connecting", "connected", "error"},
                     tunnel : Nat, poll : Nat, config : Seq(Line)]
        /\ vpn'.tunnel = 0 /\ vpn'.poll = 0 /\ vpn'.config = << >> /\ vpn'.status # "connected"
    BY <2>1 DEF Off
  <2>3. overlap' \in BOOLEAN /\ (~overlap' => \A l \in Callers : call[l] = 0)
    BY <1>2, <2>1 DEF Waiting
  <2> QED
    BY <1>2, <1>4, <2>1, <2>2, <2>3
<1> QED
  BY <1>3, <1>5, <1>6

\* The proxy's connections and the server.
LEMMA DialerStep ==
    ASSUME VpnInv,
           \/ \E t \in DOMAIN tunnels : WgHandshake(t) \/ WgExpires(t)
           \/ \E d \in Dialers : TcpDial(d) \/ Established(d) \/ Refused(d) \/ DialTimesOut(d) \/ Direct(d) \/ StreamEnds(d)
    PROVE  VpnInv'
<1>1. /\ VpnTypes /\ tunnels \in Seq(Tunnel) /\ dial \in [Dialers -> DialState]
      /\ DOMAIN tunnels = 1..Len(tunnels) /\ Len(tunnels) \in Nat
      /\ \A d \in Dialers : /\ dial[d] \in DialState /\ dial[d].tunnel \in Nat /\ dial[d].tunnel <= Len(tunnels)
                            /\ dial[d].pc \in {"syn", "stream"} => dial[d].tunnel # 0
                            /\ dial[d].pc \in {"idle", "direct", "plain", "over"} => dial[d].tunnel = 0
  BY DEF VpnInv, VpnTypes, DialState
<1>2. ASSUME NEW t \in DOMAIN tunnels, WgHandshake(t) \/ WgExpires(t) PROVE VpnInv'
  <2>1. PICK s \in {"fresh", "expired"} : /\ tunnels' = [tunnels EXCEPT ![t].session = s]
                                          /\ UNCHANGED <<vpn, call, dial, overlap, detached>>
    BY <1>2 DEF WgHandshake, WgExpires, Session
  <2>4. s \in Sessions /\ s # "none"
    BY DEF Sessions
  <2>2. /\ tunnels' \in Seq(Tunnel) /\ Len(tunnels') = Len(tunnels) /\ DOMAIN tunnels' = DOMAIN tunnels
        /\ \A u \in DOMAIN tunnels : /\ tunnels'[u].driven = tunnels[u].driven
                                     /\ tunnels'[u].session = IF u = t THEN s ELSE tunnels[u].session
    BY <1>1, <2>1, <2>4, SessionUpdate
  <2>3. \A u \in DOMAIN tunnels : tunnels[u].session # "none" => tunnels'[u].session # "none"
    BY <2>2, <2>4
  <2> QED
    BY <1>1, <2>1, <2>2, <2>3, QuietVpnStep
<1>3. ASSUME NEW d \in Dialers, NEW s \in DialState, dial' = [dial EXCEPT ![d] = s],
             UNCHANGED <<vpn, call, overlap, detached>>,
             s.tunnel <= Len(tunnels), s.pc \in {"syn", "stream"} => s.tunnel # 0,
             s.pc \in {"idle", "direct", "plain", "over"} => s.tunnel = 0,
             tunnels' = tunnels \/ \E t \in DOMAIN tunnels, n \in Int : tunnels' = [tunnels EXCEPT ![t].open = n]
      PROVE  VpnInv'
  <2>1. /\ tunnels' \in Seq(Tunnel) /\ Len(tunnels') = Len(tunnels) /\ DOMAIN tunnels' = DOMAIN tunnels
        /\ \A u \in DOMAIN tunnels : tunnels'[u].driven = tunnels[u].driven /\ tunnels'[u].session = tunnels[u].session
    <3>1. CASE tunnels' = tunnels
      BY <1>1, <3>1
    <3>2. ASSUME NEW t \in DOMAIN tunnels, NEW n \in Int, tunnels' = [tunnels EXCEPT ![t].open = n]
          PROVE  /\ tunnels' \in Seq(Tunnel) /\ Len(tunnels') = Len(tunnels) /\ DOMAIN tunnels' = DOMAIN tunnels
                 /\ \A u \in DOMAIN tunnels : tunnels'[u].driven = tunnels[u].driven /\ tunnels'[u].session = tunnels[u].session
      BY <1>1, <3>2, SocketsUpdate
    <3> QED
      BY <1>3, <3>1, <3>2
  <2>2. dial' \in [Dialers -> DialState] /\ dial'[d] = s /\ \A e \in Dialers \ {d} : dial'[e] = dial[e]
    BY <1>1, <1>3
  <2>3. \A e \in Dialers : /\ dial'[e].tunnel <= Len(tunnels)
                           /\ dial'[e].pc \in {"syn", "stream"} => dial'[e].tunnel # 0
                           /\ dial'[e].pc \in {"idle", "direct", "plain", "over"} => dial'[e].tunnel = 0
    BY <1>1, <1>3, <2>2
  <2> QED
    BY <1>3, <2>1, <2>2, <2>3, QuietVpnStep
<1>4. ASSUME NEW d \in Dialers, TcpDial(d) \/ Established(d) \/ Refused(d) \/ DialTimesOut(d) \/ Direct(d) \/ StreamEnds(d)
      PROVE  VpnInv'
  <2>1. /\ \A t \in DOMAIN tunnels : tunnels[t].open + 1 \in Int /\ tunnels[t].open - 1 \in Int
        /\ vpn.tunnel \in Nat /\ vpn.tunnel <= Len(tunnels)
    <3>1. \A t \in DOMAIN tunnels : tunnels[t] \in Tunnel
      BY <1>1
    <3> QED
      BY <1>1, <3>1 DEF VpnTypes, Tunnel
  <2>2. ASSUME NEW pc \in {"idle", "syn", "stream", "direct", "plain", "failed", "over"}, NEW t \in Nat
        PROVE  [pc |-> pc, tunnel |-> t] \in DialState
    BY <2>2 DEF DialState
  <2>3. CASE TcpDial(d)
    <3>1. CASE /\ vpn.tunnel # 0 /\ Set(d, "syn", vpn.tunnel)
               /\ Sockets(vpn.tunnel, tunnels[vpn.tunnel].open + 1)
      <4>1. PICK t \in DOMAIN tunnels : t = vpn.tunnel
        BY <1>1, <2>1, <3>1
      <4>2. [pc |-> "syn", tunnel |-> t] \in DialState /\ t # 0 /\ t <= Len(tunnels)
        BY <1>1, <2>1, <2>2, <3>1, <4>1
      <4>3. /\ dial' = [dial EXCEPT ![d] = [pc |-> "syn", tunnel |-> t]] /\ UNCHANGED <<vpn, call, overlap, detached>>
            /\ \E u \in DOMAIN tunnels, n \in Int : tunnels' = [tunnels EXCEPT ![u].open = n]
        BY <2>1, <2>3, <3>1, <4>1 DEF TcpDial, Set, Sockets
      <4> QED
        BY <1>3, <4>2, <4>3
    <3>2. CASE Set(d, "direct", 0) /\ UNCHANGED tunnels
      BY <1>1, <1>3, <2>1, <2>2, <2>3, <3>2 DEF TcpDial, Set
    <3> QED
      BY <2>3, <3>1, <3>2 DEF TcpDial
  <2>4. CASE Established(d)
    BY <1>1, <1>3, <2>2, <2>4 DEF Established, Set
  <2>5. CASE Refused(d) \/ StreamEnds(d)
    <3>1. PICK t \in DOMAIN tunnels : t = dial[d].tunnel
      BY <1>1, <2>5 DEF Refused, StreamEnds
    <3>2. PICK pc \in {"direct", "over"} :
             /\ dial' = [dial EXCEPT ![d] = [pc |-> pc, tunnel |-> 0]] /\ UNCHANGED <<vpn, call, overlap, detached>>
             /\ tunnels' = [tunnels EXCEPT ![t].open = tunnels[t].open - 1]
      BY <2>5, <3>1 DEF Refused, StreamEnds, Set, Sockets
    <3>3. \E u \in DOMAIN tunnels, n \in Int : tunnels' = [tunnels EXCEPT ![u].open = n]
      BY <2>1, <3>2
    <3>4. [pc |-> pc, tunnel |-> 0] \in DialState /\ 0 <= Len(tunnels)
      BY <1>1, <2>2
    <3> QED
      BY <1>3, <3>2, <3>3, <3>4
  <2>6. CASE DialTimesOut(d)
    BY <1>1, <1>3, <2>2, <2>6 DEF DialTimesOut, Set
  <2>7. CASE Direct(d)
    BY <1>1, <1>3, <2>2, <2>7 DEF Direct, Set
  <2> QED
    BY <1>4, <2>3, <2>4, <2>5, <2>6, <2>7
<1> QED
  BY <1>2, <1>4

LEMMA VpnInitially == VpnInit => VpnInv
<1> SUFFICES ASSUME VpnInit PROVE VpnInv
  OBVIOUS
<1>1. [pc |-> "idle", tunnel |-> 0] \in DialState /\ << >> \in Seq(Line) /\ << >> \in Seq(Tunnel) /\ Len(<< >>) = 0
  BY DEF DialState
<1>4. [status |-> "disconnected", tunnel |-> 0, poll |-> 0, config |-> << >>]
        \in [status : {"disconnected", "connecting", "connected", "error"}, tunnel : Nat, poll : Nat, config : Seq(Line)]
  BY <1>1
<1>2. VpnTypes
  <2>1. /\ dial \in [Dialers -> DialState] /\ call \in [Callers -> Nat] /\ overlap \in BOOLEAN
        /\ tunnels \in Seq(Tunnel) /\ Len(tunnels) = 0
    BY <1>1 DEF VpnInit
  <2>2. /\ \A k \in Callers : call[k] = 0
        /\ \A d \in Dialers : dial[d].tunnel = 0 /\ dial[d].pc = "idle"
        /\ vpn.tunnel = 0 /\ vpn.poll = 0
    BY DEF VpnInit
  <2> QED
    BY <1>4, <2>1, <2>2 DEF VpnInit, VpnTypes
<1>3. ConfigRead /\ WaitsForItsOwn /\ StatusTrue /\ TasksKnown
  BY DEF VpnInit, ConfigRead, WaitsForItsOwn, StatusTrue, TasksKnown
<1> QED
  BY <1>2, <1>3 DEF VpnInv

LEMMA VpnStep == VpnInv /\ [VpnNext]_vpnVars => VpnInv'
<1> SUFFICES ASSUME VpnInv, [VpnNext]_vpnVars PROVE VpnInv'
  OBVIOUS
<1>1. CASE UNCHANGED vpnVars
  BY <1>1 DEF vpnVars, VpnInv, VpnTypes, ConfigRead, WaitsForItsOwn, StatusTrue, TasksKnown
<1> QED
  BY <1>1, ConnectStep, ManagerStep, DialerStep DEF VpnNext

\* The state of the VPN manager is true of its tunnels, for any callers, dialers
\* and configurations: only a whole configuration makes a tunnel; as long as no two
\* calls overlap, "connected" means that the manager holds a tunnel whose server
\* answered a handshake, although the session may have expired since; and every task
\* that drives a tunnel is the manager's to abort, or was replaced by a later connect.
THEOREM TunnelsAreKnown == VpnSpec => []TunnelsKnown
<1>1. VpnInv => TunnelsKnown
  <2> SUFFICES ASSUME VpnInv PROVE TunnelsKnown
    OBVIOUS
  <2>1. {t \in DOMAIN tunnels : tunnels[t].driven} \subseteq detached \cup {vpn.poll}
    BY DEF VpnInv, TasksKnown
  <2> QED
    BY <2>1 DEF VpnInv, ConfigRead, StatusTrue, TunnelsKnown
<1> QED
  BY <1>1, VpnInitially, VpnStep, PTL DEF VpnSpec

------------------------------------------------------------------------------
(* The telemetry of a session.                                             *)

NetEvents == {NetEvent(ex) : ex \in Turns}
ModelCalls == {ModelCall(ex, trace) : ex \in Turns, trace \in Turns}
Ops == NetEvents \cup ModelCalls
EmitTask == [ex : Turns, stage : {"net", "trace", "model"}]

\* Every variable has its type; a task that writes a model call has its trace.
TelTypes ==
    /\ finished \subseteq Turns
    /\ tasks \subseteq EmitTask
    /\ \A k \in DOMAIN pending : pending[k] \in Turns
    /\ traced \in Seq(ModelCalls)
    /\ queue \in Seq(Ops) /\ batch \in Seq(Ops) /\ db \in Seq(Ops)
    /\ lost \subseteq Ops
    /\ \A t \in tasks : t.stage = "model" => \E m \in Range(traced) : m.ex = t.ex

\* The report of an exchange is in one place: its task, a place of its own among
\* the operations written, or a transaction that failed.
Asked(ex) == [ex |-> ex, stage |-> "net"] \in tasks
InPlace(ex) == \E p \in DOMAIN Written : Written[p] = NetEvent(ex)
NetOnce ==
    /\ \A ex \in Turns : ex \in finished <=> Asked(ex) \/ InPlace(ex) \/ NetEvent(ex) \in lost
    /\ \A ex \in Turns : Asked(ex) => ~InPlace(ex) /\ NetEvent(ex) \notin lost
    /\ \A ex \in Turns : InPlace(ex) => NetEvent(ex) \notin lost
    /\ \A p, q \in DOMAIN Written : Written[p] \in NetEvents /\ Written[p] = Written[q] => p = q

\* The report comes before the model call of its exchange.
NetFirst ==
    /\ \A p \in DOMAIN Written : Written[p] \in ModelCalls =>
          \/ NetEvent(Written[p].ex) \in lost
          \/ \E q \in 1..(p - 1) : Written[q] = NetEvent(Written[p].ex)
    /\ \A t \in tasks : t.stage # "net" => InPlace(t.ex) \/ NetEvent(t.ex) \in lost

\* No task is left when the writer closes, and nothing of them when it has ended.
WriterHeld ==
    /\ writer \in {"open", "closing", "ended"}
    /\ writer # "open" => tasks = {}
    /\ writer = "ended" => queue = << >> /\ batch = << >>

ReportsInv == TelTypes /\ NetOnce /\ NetFirst /\ WriterHeld

\* A model call is in the database with its tool calls, and the reader holds
\* calls of the database.
RowsWhole == \A op \in Range(db) : op.kind = "model" => {op} \X Calls[op.ex] \subseteq tools
ReadWhole ==
    /\ reading \in [stage : {"idle", "calls", "done"}, n : Nat, tools : SUBSET tools,
                    calls : SUBSET {op \in Range(db) : op.kind = "model"}]
    /\ DetailWhole

\* An operation is the report of an exchange or a model call, as its kind says.
LEMMA OpKinds ==
    ASSUME NEW op \in Ops
    PROVE  /\ op \in NetEvents <=> op.kind = "net"
           /\ op \in ModelCalls <=> op.kind = "model"
           /\ op.ex \in Turns
           /\ op \in NetEvents <=> op = NetEvent(op.ex)
<1>1. CASE op \in NetEvents
  <2>1. PICK ex \in Turns : op = NetEvent(ex)
    BY <1>1 DEF NetEvents
  <2>2. op.kind = "net" /\ op.ex = ex
    BY <2>1 DEF NetEvent
  <2>3. op \notin ModelCalls
    BY <2>2 DEF ModelCalls, ModelCall
  <2> QED
    BY <1>1, <2>1, <2>2, <2>3
<1>2. CASE op \in ModelCalls
  <2>1. PICK ex \in Turns, trace \in Turns : op = ModelCall(ex, trace)
    BY <1>2 DEF ModelCalls
  <2>2. op.kind = "model" /\ op.ex = ex
    BY <2>1 DEF ModelCall
  <2>3. op \notin NetEvents /\ op # NetEvent(op.ex)
    BY <2>2 DEF NetEvents, NetEvent
  <2> QED
    BY <1>2, <2>2, <2>3
<1> QED
  BY <1>1, <1>2 DEF Ops

LEMMA NetEventIs ==
    ASSUME NEW ex \in Turns
    PROVE  NetEvent(ex) \in NetEvents /\ NetEvent(ex) \in Ops /\ NetEvent(ex).ex = ex
BY DEF NetEvents, Ops, NetEvent

\* Three sequences one after the other.
LEMMA ThreeInOne ==
    ASSUME NEW S, NEW x \in Seq(S), NEW y \in Seq(S), NEW z \in Seq(S), NEW s, s = x \o y \o z
    PROVE  /\ s \in Seq(S)
           /\ Len(s) = Len(x) + Len(y) + Len(z)
           /\ Len(x) \in Nat /\ Len(y) \in Nat /\ Len(z) \in Nat
           /\ DOMAIN x = 1..Len(x) /\ DOMAIN s = 1..Len(s)
           /\ \A p \in 1..Len(x) : s[p] = x[p]
           /\ \A p \in 1..Len(y) : s[Len(x) + p] = y[p]
           /\ \A p \in 1..Len(z) : s[Len(x) + Len(y) + p] = z[p]
<1>1. /\ x \o y \in Seq(S)
      /\ Len(x \o y) = Len(x) + Len(y)
      /\ \A p \in 1..(Len(x) + Len(y)) : (x \o y)[p] = IF p <= Len(x) THEN x[p] ELSE y[p - Len(x)]
  BY ConcatProperties
<1>2. /\ s \in Seq(S)
      /\ Len(s) = Len(x) + Len(y) + Len(z)
      /\ \A p \in 1..(Len(x) + Len(y) + Len(z)) : s[p] =
            IF p <= Len(x) + Len(y) THEN (x \o y)[p] ELSE z[p - (Len(x) + Len(y))]
  BY <1>1, ConcatProperties
<1>3. Len(x) \in Nat /\ Len(y) \in Nat /\ Len(z) \in Nat /\ DOMAIN x = 1..Len(x)
  BY LenProperties
<1>4. DOMAIN s = 1..Len(s)
  BY <1>2, LenProperties
<1>5. \A p \in 1..Len(x) : s[p] = x[p]
  BY <1>1, <1>2, <1>3
<1>6. \A p \in 1..Len(y) : s[Len(x) + p] = y[p]
  BY <1>1, <1>2, <1>3
<1>7. \A p \in 1..Len(z) : s[Len(x) + Len(y) + p] = z[p]
  <2> SUFFICES ASSUME NEW p \in 1..Len(z) PROVE s[Len(x) + Len(y) + p] = z[p]
    OBVIOUS
  <2>1. /\ Len(x) + Len(y) + p \in 1..(Len(x) + Len(y) + Len(z))
        /\ ~(Len(x) + Len(y) + p <= Len(x) + Len(y))
        /\ Len(x) + Len(y) + p - (Len(x) + Len(y)) = p
    BY <1>3
  <2> QED
    BY <1>2, <2>1
<1> QED
  BY <1>2, <1>3, <1>4, <1>5, <1>6, <1>7

\* The operations written are the rows, the batch and the channel.
LEMMA WrittenIs ==
    ASSUME TelTypes
    PROVE  /\ Written \in Seq(Ops)
           /\ Len(Written) = Len(db) + Len(batch) + Len(queue)
           /\ Len(db) \in Nat /\ Len(batch) \in Nat /\ Len(queue) \in Nat
           /\ DOMAIN db = 1..Len(db) /\ DOMAIN Written = 1..Len(Written)
           /\ \A p \in 1..Len(db) : Written[p] = db[p]
           /\ \A p \in 1..Len(batch) : Written[Len(db) + p] = batch[p]
           /\ \A p \in 1..Len(queue) : Written[Len(db) + Len(batch) + p] = queue[p]
BY ThreeInOne DEF TelTypes, Written

\* The writer moves operations on without changing what is written.
LEMMA DrainKeeps ==
    ASSUME TelTypes, Drain
    PROVE  Written' = Written /\ batch' \in Seq(Ops) /\ queue' \in Seq(Ops)
<1> DEFINE n == IF Len(queue) < BatchMax THEN Len(queue) ELSE BatchMax
<1>1. db \in Seq(Ops) /\ batch = << >> /\ queue \in Seq(Ops) /\ db' = db
  BY DEF TelTypes, Drain
<1>2. n \in 0..Len(queue) /\ Len(queue) \in Nat
  BY <1>1, TelemetryAssumption, LenProperties
<1>3. batch' = SubSeq(queue, 1, n) /\ queue' = SubSeq(queue, n + 1, Len(queue))
  BY DEF Drain
<1> HIDE DEF n
<1>4. batch' \in Seq(Ops)
  <2>1. \A i \in 1..n : queue[i] \in Ops
    BY <1>1, <1>2, ElementOfSeq
  <2> QED
    BY <1>2, <1>3, <2>1, SubSeqProperties
<1>5. queue' \in Seq(Ops)
  <2>1. \A i \in (n + 1)..Len(queue) : queue[i] \in Ops
    BY <1>1, <1>2, ElementOfSeq
  <2> QED
    BY <1>2, <1>3, <2>1, SubSeqProperties
<1>6. batch' \o queue' = queue
  <2>1. SubSeq(queue, 1, n) \o SubSeq(queue, n + 1, Len(queue)) = SubSeq(queue, 1, Len(queue))
    <3>1. queue \in Seq(Ops) /\ 1 \in 1..(Len(queue) + 1) /\ n \in (1 - 1)..Len(queue) /\ Len(queue) \in n..Len(queue)
      BY <1>1, <1>2
    <3> QED
      BY ONLY <3>1, ConcatAdjacentSubSeq, ZenonT(30)
  <2>2. SubSeq(queue, 1, Len(queue)) = queue
    BY <1>1, SubSeqFull
  <2> QED
    BY <1>3, <2>1, <2>2
<1>7. (db \o batch') \o queue' = db \o (batch' \o queue')
  <2>1. db \in Seq(Ops) /\ batch' \in Seq(Ops) /\ queue' \in Seq(Ops)
    BY <1>1, <1>4, <1>5
  <2> QED
    BY ONLY <2>1, ConcatAssociative
<1>8. db \o << >> = db
  BY <1>1, ConcatEmptySeq
<1> QED
  BY <1>1, <1>4, <1>5, <1>6, <1>7, <1>8 DEF Written

LEMMA CommitKeeps ==
    ASSUME TelTypes, db' = db \o batch, batch' = << >>, queue' = queue
    PROVE  Written' = Written /\ db' \in Seq(Ops)
<1>1. db \in Seq(Ops) /\ batch \in Seq(Ops)
  BY DEF TelTypes
<1>2. db \o batch \in Seq(Ops)
  BY <1>1, ConcatProperties
<1>3. (db \o batch) \o << >> = db \o batch
  BY <1>2, ConcatEmptySeq
<1> QED
  BY <1>2, <1>3 DEF Written

\* An operation that is sent comes after those that are written.
LEMMA SendAppends ==
    ASSUME TelTypes, NEW op \in Ops, queue' = Append(queue, op), UNCHANGED <<db, batch>>
    PROVE  /\ queue' \in Seq(Ops)
           /\ Written' = Append(Written, op)
<1>1. db \in Seq(Ops) /\ batch \in Seq(Ops) /\ queue \in Seq(Ops)
  BY DEF TelTypes
<1>2. queue' \in Seq(Ops)
  BY <1>1, AppendProperties
<1>3. queue' = queue \o <<op>> /\ <<op>> \in Seq(Ops)
  BY <1>1, AppendIsConcat
<1>4. db \o batch \in Seq(Ops)
  BY <1>1, ConcatProperties
<1>5. ((db \o batch) \o queue) \o <<op>> = (db \o batch) \o (queue \o <<op>>)
  BY <1>1, <1>3, <1>4, ConcatAssociative
<1>6. Written \o <<op>> = Append(Written, op)
  <2>1. Written \in Seq(Ops)
    BY WrittenIs
  <2> QED
    BY <2>1, AppendIsConcat
<1> QED
  BY <1>2, <1>3, <1>5, <1>6 DEF Written

\* A failed transaction takes the batch out of what is written, and leaves the
\* rest in its order.
After(p) == IF p <= Len(db) THEN p ELSE p + Len(batch)
LEMMA FailureDrops ==
    ASSUME TelTypes, batch' = << >>, UNCHANGED <<db, queue>>
    PROVE  /\ Len(Written') \in Nat /\ DOMAIN Written' = 1..Len(Written')
           /\ \A p \in DOMAIN Written' : After(p) \in DOMAIN Written /\ Written'[p] = Written[After(p)]
           /\ \A q \in DOMAIN Written : Written[q] \in Range(batch) \/ \E p \in DOMAIN Written' : q = After(p)
           /\ \A op \in Range(batch) : \E q \in DOMAIN Written :
                 Written[q] = op /\ \A p \in DOMAIN Written' : q # After(p)
<1>1. db' \in Seq(Ops) /\ batch' \in Seq(Ops) /\ queue' \in Seq(Ops)
  BY DEF TelTypes
<1> DEFINE d == Len(db)
           b == Len(batch)
           w == Len(queue)
           after == Written'
<1>2. /\ d \in Nat /\ b \in Nat /\ w \in Nat
      /\ DOMAIN Written = 1..(d + b + w)
      /\ \A p \in 1..d : Written[p] = db[p]
      /\ \A p \in 1..b : Written[d + p] = batch[p]
      /\ \A p \in 1..w : Written[d + b + p] = queue[p]
  BY WrittenIs
<1>3. Len(batch') = 0
  OBVIOUS
<1>4. /\ Len(after) = d + w
      /\ DOMAIN after = 1..(d + w)
      /\ \A p \in 1..d : after[p] = db[p]
      /\ \A p \in 1..w : after[d + p] = queue[p]
  <2>1. /\ Len(after) = Len(db') + Len(batch') + Len(queue')
        /\ DOMAIN after = 1..Len(after)
        /\ \A p \in 1..Len(db') : after[p] = db'[p]
        /\ \A p \in 1..Len(queue') : after[Len(db') + Len(batch') + p] = queue'[p]
    BY <1>1, ThreeInOne DEF Written
  <2>2. Len(db') = d /\ Len(queue') = w /\ db' = db /\ queue' = queue
    OBVIOUS
  <2>3. d + 0 + w = d + w /\ \A p \in 1..w : d + 0 + p = d + p
    BY <1>2
  <2> QED
    BY <1>3, <2>1, <2>2, <2>3
<1>5. Range(batch) = {batch[p] : p \in 1..b} /\ DOMAIN batch = 1..b
  <2>1. batch \in Seq(Ops)
    BY DEF TelTypes
  <2> QED
    BY <2>1, LenProperties DEF Range
<1> HIDE DEF d, b, w, after
<1>6. \A p \in 1..(d + w) : After(p) = IF p <= d THEN p ELSE p + b
  BY DEF After, d, b
<1>7. ASSUME NEW p \in 1..(d + w)
      PROVE  After(p) \in 1..(d + b + w) /\ after[p] = Written[After(p)]
  <2>1. CASE p <= d
    BY <1>2, <1>4, <1>6, <2>1
  <2>2. CASE ~(p <= d)
    <3>1. p - d \in 1..w /\ d + (p - d) = p /\ d + b + (p - d) = p + b /\ p + b \in 1..(d + b + w)
      BY <1>2, <2>2
    <3>2. after[p] = queue[p - d] /\ Written[p + b] = queue[p - d]
      BY <1>2, <1>4, <3>1
    <3> QED
      BY <1>6, <2>2, <3>1, <3>2
  <2> QED
    BY <2>1, <2>2
<1>8. ASSUME NEW q \in 1..(d + b + w)
      PROVE  Written[q] \in Range(batch) \/ \E p \in 1..(d + w) : q = After(p)
  <2>1. CASE q <= d
    <3>1. q \in 1..(d + w)
      BY <1>2, <2>1
    <3> QED
      BY <1>6, <2>1, <3>1
  <2>2. CASE q > d + b
    <3>1. q - b \in 1..(d + w) /\ ~(q - b <= d) /\ q - b + b = q
      BY <1>2, <2>2
    <3> QED
      BY <1>6, <3>1
  <2>3. CASE q > d /\ q <= d + b
    <3>1. q - d \in 1..b /\ d + (q - d) = q
      BY <1>2, <2>3
    <3>2. Written[q] = batch[q - d]
      BY <1>2, <3>1
    <3> QED
      BY <1>5, <3>1, <3>2
  <2> QED
    BY <1>2, <2>1, <2>2, <2>3
<1>9. ASSUME NEW op \in Range(batch)
      PROVE  \E q \in 1..(d + b + w) : Written[q] = op /\ \A p \in 1..(d + w) : q # After(p)
  <2>1. PICK p \in 1..b : op = batch[p]
    BY <1>5
  <2>2. d + p \in 1..(d + b + w) /\ Written[d + p] = op
    BY <1>2, <2>1
  <2>3. \A r \in 1..(d + w) : d + p # After(r)
    BY <1>2, <1>6
  <2> QED
    BY <2>2, <2>3
<1>10. Len(Written') \in Nat /\ DOMAIN Written' = 1..Len(Written') /\ DOMAIN Written' = 1..(d + w)
  BY <1>2, <1>4 DEF after
<1>11. \A p \in 1..(d + w) : After(p) \in 1..(d + b + w) /\ Written'[p] = Written[After(p)]
  BY <1>7 DEF after
<1> QED
  <2>1. \A q \in DOMAIN Written : Written[q] \in Range(batch) \/ \E p \in DOMAIN Written' : q = After(p)
    BY <1>2, <1>8, <1>10
  <2>2. \A op \in Range(batch) : \E q \in DOMAIN Written :
           Written[q] = op /\ \A p \in DOMAIN Written' : q # After(p)
    BY <1>2, <1>9, <1>10
  <2>3. \A p \in DOMAIN Written' : After(p) \in DOMAIN Written /\ Written'[p] = Written[After(p)]
    BY <1>2, <1>10, <1>11
  <2> QED
    BY <1>10, <2>1, <2>2, <2>3

\* Steps that write nothing and lose nothing.
LEMMA NothingWritten ==
    ASSUME NetOnce, NetFirst, Written' = Written, UNCHANGED <<finished, tasks, lost>>
    PROVE  NetOnce' /\ NetFirst'
<1>1. \A ex : InPlace(ex)' <=> InPlace(ex)
  BY DEF InPlace, NetEvent
<1>2. \A ex : Asked(ex)' <=> Asked(ex)
  BY DEF Asked
<1>3. NetOnce'
  BY <1>1, <1>2 DEF NetOnce, NetEvent, NetEvents
<1>4. NetFirst'
  BY <1>1 DEF NetFirst, NetEvent, ModelCalls, ModelCall
<1> QED
  BY <1>3, <1>4

LEMMA FinishStep ==
    ASSUME TelTypes, NetOnce, NetFirst, NEW ex \in Turns, Finish(ex)
    PROVE  NetOnce' /\ NetFirst'
<1>1. Written' = Written /\ lost' = lost
  BY DEF Finish, Written
<1>2. \A e : InPlace(e)' <=> InPlace(e)
  BY <1>1 DEF InPlace, NetEvent
<1>3. \A e \in Turns : Asked(e)' <=> Asked(e) \/ e = ex
  BY DEF Asked, Finish
<1>4. ex \notin finished /\ finished' = finished \cup {ex}
  BY DEF Finish
<1>5. NetOnce'
  <2>1. ASSUME NEW e \in Turns
        PROVE  /\ e \in finished' <=> Asked(e)' \/ InPlace(e)' \/ NetEvent(e) \in lost'
               /\ Asked(e)' => ~InPlace(e)' /\ NetEvent(e) \notin lost'
               /\ InPlace(e)' => NetEvent(e) \notin lost'
    BY <1>1, <1>2, <1>3, <1>4 DEF NetOnce
  <2>2. \A p, q \in DOMAIN Written' : Written'[p] \in NetEvents /\ Written'[p] = Written'[q] => p = q
    BY <1>1 DEF NetOnce
  <2> QED
    BY <2>1, <2>2 DEF NetOnce, NetEvent, NetEvents
<1>6. NetFirst'
  <2>1. \A t \in tasks' : t \in tasks \/ t.stage = "net"
    BY DEF Finish
  <2> QED
    BY <1>1, <1>2, <2>1 DEF NetFirst, NetEvent, ModelCalls, ModelCall
<1> QED
  BY <1>5, <1>6

LEMMA TraceStep ==
    ASSUME TelTypes, NetOnce, NetFirst, NEW t \in tasks, EmitTrace(t)
    PROVE  NetOnce' /\ NetFirst'
<1>1. Written' = Written /\ lost' = lost /\ finished' = finished
  BY DEF EmitTrace, Written
<1>2. \A e : InPlace(e)' <=> InPlace(e)
  BY <1>1 DEF InPlace, NetEvent
<1>3. t \in EmitTask /\ t.stage = "trace"
  BY DEF EmitTrace, TelTypes
<1>4. tasks' = (tasks \ {t}) \cup {[ex |-> t.ex, stage |-> "model"]}
  BY <1>3 DEF EmitTrace, EmitTask
<1>5. \A e \in Turns : Asked(e)' <=> Asked(e)
  BY <1>3, <1>4 DEF Asked
<1>6. NetOnce'
  <2>1. ASSUME NEW e \in Turns
        PROVE  /\ e \in finished' <=> Asked(e)' \/ InPlace(e)' \/ NetEvent(e) \in lost'
               /\ Asked(e)' => ~InPlace(e)' /\ NetEvent(e) \notin lost'
               /\ InPlace(e)' => NetEvent(e) \notin lost'
    BY <1>1, <1>2, <1>5 DEF NetOnce
  <2>2. \A p, q \in DOMAIN Written' : Written'[p] \in NetEvents /\ Written'[p] = Written'[q] => p = q
    BY <1>1 DEF NetOnce
  <2> QED
    BY <2>1, <2>2 DEF NetOnce, NetEvent, NetEvents
<1>7. NetFirst'
  <2>1. \A u \in tasks' : u \in tasks \/ u.ex = t.ex
    BY <1>4
  <2>2. InPlace(t.ex) \/ NetEvent(t.ex) \in lost
    BY <1>3 DEF NetFirst
  <2>3. \A u \in tasks' : u.stage # "net" => InPlace(u.ex)' \/ NetEvent(u.ex) \in lost'
    BY <1>1, <1>2, <2>1, <2>2 DEF NetFirst
  <2>4. \A p \in DOMAIN Written' : Written'[p] \in ModelCalls =>
          \/ NetEvent(Written'[p].ex) \in lost'
          \/ \E q \in 1..(p - 1) : Written'[q] = NetEvent(Written'[p].ex)
    BY <1>1 DEF NetFirst
  <2> QED
    BY <2>3, <2>4 DEF NetFirst, NetEvent, ModelCalls, ModelCall
<1> QED
  BY <1>6, <1>7

LEMMA SendEffect ==
    ASSUME TelTypes, NEW op \in Ops, queue' = Append(queue, op), UNCHANGED <<db, batch>>
    PROVE  \E n \in Nat :
             /\ DOMAIN Written = 1..n /\ DOMAIN Written' = 1..(n + 1)
             /\ Written'[n + 1] = op /\ \A p \in 1..n : Written'[p] = Written[p]
<1>1. Written \in Seq(Ops) /\ Len(Written) \in Nat /\ DOMAIN Written = 1..Len(Written)
  BY WrittenIs
<1>2. Written' = Append(Written, op)
  BY SendAppends
<1>3. /\ Written' \in Seq(Ops)
      /\ Len(Written') = Len(Written) + 1
      /\ \A p \in 1..Len(Written) : Written'[p] = Written[p]
      /\ Written'[Len(Written) + 1] = op
  BY <1>1, <1>2, AppendProperties
<1>4. DOMAIN Written' = 1..(Len(Written) + 1)
  BY <1>3, LenProperties
<1> QED
  BY <1>1, <1>3, <1>4

\* A report is sent after the ones that are written, and what is in the same place
\* stays there.
LEMMA SendKeepsOrder ==
    ASSUME TelTypes, NetOnce, NetFirst, NEW op \in Ops, queue' = Append(queue, op), UNCHANGED <<db, batch, lost>>,
           op \in NetEvents => ~InPlace(op.ex),
           op \in ModelCalls => InPlace(op.ex) \/ NetEvent(op.ex) \in lost
    PROVE  /\ \A e \in Turns : InPlace(e)' <=> InPlace(e) \/ op = NetEvent(e)
           /\ \A p, q \in DOMAIN Written' : Written'[p] \in NetEvents /\ Written'[p] = Written'[q] => p = q
           /\ \A p \in DOMAIN Written' : Written'[p] \in ModelCalls =>
                 \/ NetEvent(Written'[p].ex) \in lost'
                 \/ \E q \in 1..(p - 1) : Written'[q] = NetEvent(Written'[p].ex)
<1> DEFINE w == Written
           v == Written'
<1>1. PICK n \in Nat : /\ DOMAIN w = 1..n /\ DOMAIN v = 1..(n + 1)
                       /\ v[n + 1] = op /\ \A p \in 1..n : v[p] = w[p]
  BY SendEffect
<1>2. /\ \A e : InPlace(e) <=> \E p \in DOMAIN w : w[p] = NetEvent(e)
      /\ \A e : InPlace(e)' <=> \E p \in DOMAIN v : v[p] = NetEvent(e)
  BY DEF InPlace, NetEvent
<1>3. /\ \A p, q \in DOMAIN w : w[p] \in NetEvents /\ w[p] = w[q] => p = q
      /\ \A p \in DOMAIN w : w[p] \in ModelCalls =>
            \/ NetEvent(w[p].ex) \in lost
            \/ \E q \in 1..(p - 1) : w[q] = NetEvent(w[p].ex)
  BY DEF NetOnce, NetFirst
<1> HIDE DEF w, v
<1>4. ASSUME NEW e \in Turns PROVE InPlace(e)' <=> InPlace(e) \/ op = NetEvent(e)
  <2>1. ASSUME InPlace(e)' PROVE InPlace(e) \/ op = NetEvent(e)
    <3>1. PICK p \in 1..(n + 1) : v[p] = NetEvent(e)
      BY <1>1, <1>2, <2>1
    <3> QED
      BY <1>1, <1>2, <3>1
  <2>2. ASSUME InPlace(e) PROVE InPlace(e)'
    <3>1. PICK p \in 1..n : w[p] = NetEvent(e)
      BY <1>1, <1>2, <2>2
    <3>2. p \in 1..(n + 1) /\ v[p] = NetEvent(e)
      BY <1>1, <3>1
    <3> QED
      BY <1>1, <1>2, <3>2
  <2>3. ASSUME op = NetEvent(e) PROVE InPlace(e)'
    BY <1>1, <1>2, <2>3
  <2> QED
    BY <2>1, <2>2, <2>3
<1>5. ASSUME NEW p \in 1..(n + 1), NEW q \in 1..(n + 1), v[p] \in NetEvents, v[p] = v[q] PROVE p = q
  <2>1. CASE p \in 1..n /\ q \in 1..n
    BY <1>1, <1>3, <1>5, <2>1
  <2>2. ASSUME NEW r \in 1..n, op \in NetEvents, w[r] = op PROVE FALSE
    <3>1. op = NetEvent(op.ex)
      BY <2>2, OpKinds
    <3> QED
      BY <1>1, <1>2, <2>2, <3>1
  <2> QED
    BY <1>1, <1>5, <2>1, <2>2
<1>6. ASSUME NEW p \in 1..(n + 1), v[p] \in ModelCalls
      PROVE  \/ NetEvent(v[p].ex) \in lost
             \/ \E q \in 1..(p - 1) : v[q] = NetEvent(v[p].ex)
  <2>1. CASE p \in 1..n
    <3>1. v[p] = w[p] /\ \A q \in 1..(p - 1) : v[q] = w[q]
      BY <1>1, <2>1
    <3> QED
      BY <1>1, <1>3, <1>6, <2>1, <3>1
  <2>2. CASE p = n + 1
    <3>1. v[p] = op /\ \A q \in 1..n : q \in 1..(p - 1) /\ v[q] = w[q]
      BY <1>1, <2>2
    <3>2. CASE InPlace(op.ex)
      BY <1>1, <1>2, <3>1, <3>2
    <3> QED
      BY <1>6, <3>1, <3>2
  <2> QED
    BY <2>1, <2>2
<1>7. lost' = lost
  OBVIOUS
<1> QED
  BY <1>1, <1>4, <1>5, <1>6, <1>7 DEF v

LEMMA NetStep ==
    ASSUME TelTypes, NetOnce, NetFirst, NEW t \in tasks, EmitNet(t)
    PROVE  NetOnce' /\ NetFirst' /\ queue' \in Seq(Ops)
<1> DEFINE op == NetEvent(t.ex)
<1>1. t \in EmitTask /\ t.stage = "net" /\ t.ex \in Turns /\ t = [ex |-> t.ex, stage |-> "net"]
  BY DEF EmitNet, TelTypes, EmitTask
<1>2. op \in NetEvents /\ op \in Ops /\ op.ex = t.ex /\ op \notin ModelCalls
  BY <1>1, NetEventIs, OpKinds
<1>3. queue' = Append(queue, op) /\ UNCHANGED <<db, batch, lost, finished>>
  BY DEF EmitNet, Write
<1>4. Asked(t.ex)
  BY <1>1 DEF Asked
<1>5. ~InPlace(t.ex) /\ op \notin lost
  BY <1>1, <1>4 DEF NetOnce
<1>6. \A e \in Turns : op = NetEvent(e) <=> e = t.ex
  BY <1>1 DEF NetEvent
<1>7. tasks' = (tasks \ {t}) \cup (IF t.ex \in DOMAIN Calls THEN {[ex |-> t.ex, stage |-> "trace"]} ELSE {})
  <2>1. [t EXCEPT !.stage = "trace"] = [ex |-> t.ex, stage |-> "trace"]
    BY <1>1 DEF EmitTask
  <2> QED
    BY <2>1 DEF EmitNet
<1>8. \A e \in Turns : Asked(e)' <=> Asked(e) /\ e # t.ex
  BY <1>1, <1>7 DEF Asked
<1> HIDE DEF op
<1>9. /\ \A e \in Turns : InPlace(e)' <=> InPlace(e) \/ e = t.ex
      /\ \A p, q \in DOMAIN Written' : Written'[p] \in NetEvents /\ Written'[p] = Written'[q] => p = q
      /\ \A p \in DOMAIN Written' : Written'[p] \in ModelCalls =>
            \/ NetEvent(Written'[p].ex) \in lost'
            \/ \E q \in 1..(p - 1) : Written'[q] = NetEvent(Written'[p].ex)
  BY <1>2, <1>3, <1>5, <1>6, SendKeepsOrder
<1>10. NetOnce'
  <2>1. ASSUME NEW e \in Turns
        PROVE  /\ e \in finished' <=> Asked(e)' \/ InPlace(e)' \/ NetEvent(e) \in lost'
               /\ Asked(e)' => ~InPlace(e)' /\ NetEvent(e) \notin lost'
               /\ InPlace(e)' => NetEvent(e) \notin lost'
    BY <1>3, <1>4, <1>5, <1>8, <1>9 DEF NetOnce, op
  <2> QED
    BY <1>9, <2>1 DEF NetOnce, NetEvent, NetEvents
<1>11. NetFirst'
  <2>1. ASSUME NEW u \in tasks', u.stage # "net" PROVE InPlace(u.ex)' \/ NetEvent(u.ex) \in lost'
    <3>1. u.ex \in Turns /\ (u \in tasks \/ u.ex = t.ex)
      BY <1>1, <1>7 DEF TelTypes, EmitTask
    <3> QED
      BY <1>3, <1>9, <2>1, <3>1 DEF NetFirst
  <2> QED
    BY <1>9, <2>1 DEF NetFirst, NetEvent, ModelCalls, ModelCall
<1>12. queue' \in Seq(Ops)
  BY <1>2, <1>3, SendAppends
<1> QED
  BY <1>10, <1>11, <1>12

\* The trace a model call is written with is the one it looked up.
LEMMA TraceKnown ==
    ASSUME TelTypes, NEW t \in tasks, t.stage = "model"
    PROVE  TraceOf(t.ex) \in Turns
<1>1. \A m \in Range(traced) : m \in ModelCalls
  BY LenProperties DEF TelTypes, Range
<1>2. PICK m \in Range(traced) : m = CHOOSE c \in Range(traced) : c.ex = t.ex
  BY DEF TelTypes
<1>3. m.trace \in Turns
  BY <1>1 DEF ModelCalls, ModelCall
<1> QED
  BY <1>2, <1>3 DEF TraceOf

LEMMA ModelStep ==
    ASSUME TelTypes, NetOnce, NetFirst, NEW t \in tasks, EmitModel(t)
    PROVE  NetOnce' /\ NetFirst' /\ queue' \in Seq(Ops)
<1> DEFINE op == ModelCall(t.ex, TraceOf(t.ex))
<1>1. t \in EmitTask /\ t.stage = "model" /\ t.ex \in Turns
  BY DEF EmitModel, TelTypes, EmitTask
<1>2. op \in ModelCalls /\ op \in Ops /\ op.ex = t.ex /\ op \notin NetEvents
  <2>1. op \in ModelCalls /\ op.ex = t.ex
    BY <1>1, TraceKnown DEF ModelCalls, ModelCall
  <2>2. op \in Ops /\ op.kind = "model"
    BY <2>1 DEF Ops, ModelCall
  <2> QED
    BY <2>1, <2>2, OpKinds
<1>3. queue' = Append(queue, op) /\ UNCHANGED <<db, batch, lost, finished>> /\ tasks' = tasks \ {t}
  BY DEF EmitModel, Write
<1>4. \A e \in Turns : op # NetEvent(e)
  BY <1>2, NetEventIs
<1>5. \A e \in Turns : Asked(e)' <=> Asked(e)
  BY <1>1, <1>3 DEF Asked
<1> HIDE DEF op
<1>6. InPlace(op.ex) \/ NetEvent(op.ex) \in lost
  BY <1>1, <1>2 DEF NetFirst
<1>7. /\ \A e \in Turns : InPlace(e)' <=> InPlace(e)
      /\ \A p, q \in DOMAIN Written' : Written'[p] \in NetEvents /\ Written'[p] = Written'[q] => p = q
      /\ \A p \in DOMAIN Written' : Written'[p] \in ModelCalls =>
            \/ NetEvent(Written'[p].ex) \in lost'
            \/ \E q \in 1..(p - 1) : Written'[q] = NetEvent(Written'[p].ex)
  BY <1>2, <1>3, <1>4, <1>6, SendKeepsOrder
<1>8. NetOnce'
  <2>1. ASSUME NEW e \in Turns
        PROVE  /\ e \in finished' <=> Asked(e)' \/ InPlace(e)' \/ NetEvent(e) \in lost'
               /\ Asked(e)' => ~InPlace(e)' /\ NetEvent(e) \notin lost'
               /\ InPlace(e)' => NetEvent(e) \notin lost'
    BY <1>3, <1>5, <1>7 DEF NetOnce
  <2> QED
    BY <1>7, <2>1 DEF NetOnce, NetEvent, NetEvents
<1>9. NetFirst'
  <2>1. ASSUME NEW u \in tasks', u.stage # "net" PROVE InPlace(u.ex)' \/ NetEvent(u.ex) \in lost'
    <3>1. u.ex \in Turns /\ u \in tasks
      BY <1>3 DEF TelTypes, EmitTask
    <3> QED
      BY <1>3, <1>7, <2>1, <3>1 DEF NetFirst
  <2> QED
    BY <1>7, <2>1 DEF NetFirst, NetEvent, ModelCalls, ModelCall
<1>10. queue' \in Seq(Ops)
  BY <1>2, <1>3, SendAppends
<1> QED
  BY <1>8, <1>9, <1>10

\* A transaction that fails loses the reports of its batch, and those only.
LEMMA FailureStep ==
    ASSUME TelTypes, NetOnce, NetFirst, batch' = << >>, lost' = lost \cup Range(batch),
           UNCHANGED <<db, queue, tasks, finished>>
    PROVE  NetOnce' /\ NetFirst'
<1> DEFINE w == Written
           v == Written'
<1>1. /\ \A p \in DOMAIN v : After(p) \in DOMAIN w /\ v[p] = w[After(p)]
      /\ \A q \in DOMAIN w : w[q] \in Range(batch) \/ \E p \in DOMAIN v : q = After(p)
      /\ \A op \in Range(batch) : \E q \in DOMAIN w : w[q] = op /\ \A p \in DOMAIN v : q # After(p)
  BY FailureDrops
<1>2. /\ Len(db) \in Nat /\ Len(batch) \in Nat /\ DOMAIN w = 1..Len(w)
      /\ Len(v) \in Nat /\ DOMAIN v = 1..Len(v)
  BY WrittenIs, FailureDrops
<1>3. /\ \A e : InPlace(e) <=> \E p \in DOMAIN w : w[p] = NetEvent(e)
      /\ \A e : InPlace(e)' <=> \E p \in DOMAIN v : v[p] = NetEvent(e)
  BY DEF InPlace, NetEvent
<1>4. /\ \A p, q \in DOMAIN w : w[p] \in NetEvents /\ w[p] = w[q] => p = q
      /\ \A p \in DOMAIN w : w[p] \in ModelCalls =>
            \/ NetEvent(w[p].ex) \in lost
            \/ \E q \in 1..(p - 1) : w[q] = NetEvent(w[p].ex)
  BY DEF NetOnce, NetFirst
<1> HIDE DEF w, v
<1>5. \A p, q \in DOMAIN v : (After(p) = After(q) => p = q) /\ (After(p) < After(q) => p < q)
  BY <1>2 DEF After
<1>6. ASSUME NEW e \in Turns
      PROVE  /\ InPlace(e)' => InPlace(e) /\ NetEvent(e) \notin Range(batch)
             /\ InPlace(e) => InPlace(e)' \/ NetEvent(e) \in Range(batch)
             /\ NetEvent(e) \in Range(batch) => InPlace(e)
  <2>1. ASSUME InPlace(e)' PROVE InPlace(e) /\ NetEvent(e) \notin Range(batch)
    <3>1. PICK p \in DOMAIN v : v[p] = NetEvent(e)
      BY <1>3, <2>1
    <3>2. After(p) \in DOMAIN w /\ w[After(p)] = NetEvent(e) /\ NetEvent(e) \in NetEvents
      BY <1>1, <3>1 DEF NetEvents
    <3>3. ASSUME NetEvent(e) \in Range(batch) PROVE FALSE
      <4>1. PICK q \in DOMAIN w : w[q] = NetEvent(e) /\ \A r \in DOMAIN v : q # After(r)
        BY <1>1, <3>3
      <4> QED
        BY <1>4, <3>2, <4>1
    <3> QED
      BY <1>3, <3>2, <3>3
  <2>2. ASSUME InPlace(e) PROVE InPlace(e)' \/ NetEvent(e) \in Range(batch)
    <3>1. PICK q \in DOMAIN w : w[q] = NetEvent(e)
      BY <1>3, <2>2
    <3>2. CASE w[q] \in Range(batch)
      BY <3>1, <3>2
    <3>3. ASSUME NEW p \in DOMAIN v, q = After(p) PROVE InPlace(e)'
      BY <1>1, <1>3, <3>1, <3>3
    <3> QED
      BY <1>1, <3>2, <3>3
  <2>3. ASSUME NetEvent(e) \in Range(batch) PROVE InPlace(e)
    BY <1>1, <1>3, <2>3
  <2> QED
    BY <2>1, <2>2, <2>3
<1>7. \A e : Asked(e)' <=> Asked(e)
  BY DEF Asked
<1>8. NetOnce'
  <2>1. ASSUME NEW e \in Turns
        PROVE  /\ e \in finished' <=> Asked(e)' \/ InPlace(e)' \/ NetEvent(e) \in lost'
               /\ Asked(e)' => ~InPlace(e)' /\ NetEvent(e) \notin lost'
               /\ InPlace(e)' => NetEvent(e) \notin lost'
    BY <1>6, <1>7 DEF NetOnce
  <2>2. ASSUME NEW p \in DOMAIN v, NEW q \in DOMAIN v, v[p] \in NetEvents, v[p] = v[q] PROVE p = q
    BY <1>1, <1>4, <1>5, <2>2
  <2> QED
    BY <2>1, <2>2 DEF NetOnce, NetEvent, NetEvents, v
<1>9. NetFirst'
  <2>1. ASSUME NEW p \in DOMAIN v, v[p] \in ModelCalls
        PROVE  \/ NetEvent(v[p].ex) \in lost'
               \/ \E q \in 1..(p - 1) : v[q] = NetEvent(v[p].ex)
    <3>1. After(p) \in DOMAIN w /\ v[p] = w[After(p)]
      BY <1>1
    <3>2. ASSUME NEW q \in 1..(After(p) - 1), w[q] = NetEvent(v[p].ex), w[q] \notin Range(batch)
          PROVE  \E r \in 1..(p - 1) : v[r] = NetEvent(v[p].ex)
      <4>1. q \in DOMAIN w /\ q < After(p)
        BY <1>2, <3>1, <3>2
      <4>2. PICK r \in DOMAIN v : q = After(r)
        BY <1>1, <3>2, <4>1
      <4>3. r < p /\ v[r] = w[q]
        BY <1>1, <1>5, <4>1, <4>2
      <4>4. r \in 1..(p - 1)
        BY <1>2, <4>2, <4>3
      <4> QED
        BY <3>2, <4>3, <4>4
    <3> QED
      BY <1>4, <2>1, <3>1, <3>2
  <2>2. ASSUME NEW u \in tasks', u.stage # "net" PROVE InPlace(u.ex)' \/ NetEvent(u.ex) \in lost'
    <3>1. u.ex \in Turns
      BY <2>2 DEF TelTypes, EmitTask
    <3> QED
      BY <1>6, <2>2, <3>1 DEF NetFirst
  <2> QED
    BY <2>1, <2>2 DEF NetFirst, NetEvent, ModelCalls, ModelCall, v
<1> QED
  BY <1>8, <1>9

\* Only the tasks of an exchange look up a trace and send.
LEMMA TypesKept ==
    ASSUME TelTypes, finished' \subseteq Turns, UNCHANGED <<pending, traced>>,
           queue' \in Seq(Ops), batch' \in Seq(Ops), db' \in Seq(Ops), lost' \subseteq Ops,
           tasks' \subseteq EmitTask, \A t \in tasks' : t.stage = "model" => t \in tasks
    PROVE  TelTypes'
BY DEF TelTypes

LEMMA TraceTypes ==
    ASSUME TelTypes, NEW t \in tasks, EmitTrace(t)
    PROVE  TelTypes'
<1>1. t \in EmitTask /\ t.stage = "trace" /\ t.ex \in Turns
  BY DEF EmitTrace, TelTypes, EmitTask
<1>2. tasks' = (tasks \ {t}) \cup {[ex |-> t.ex, stage |-> "model"]}
  <2>1. [t EXCEPT !.stage = "model"] = [ex |-> t.ex, stage |-> "model"]
    BY <1>1 DEF EmitTask
  <2> QED
    BY <2>1 DEF EmitTrace
<1>3. PICK trace \in Lookup(t.ex) :
        /\ pending' \in IF Calls[t.ex] # {} THEN {Register(Calls[t.ex], trace)} ELSE {CompleteTrace(trace), pending}
        /\ traced' = Append(traced, ModelCall(t.ex, trace))
  BY DEF EmitTrace
<1>4. trace \in Turns
  <2>1. trace = t.ex \/ \E k \in DOMAIN pending : trace = pending[k]
    BY DEF Lookup
  <2> QED
    BY <1>1, <2>1 DEF TelTypes
<1>5. \A k \in DOMAIN pending' : pending'[k] \in Turns
  <2>1. \A k \in DOMAIN pending : pending[k] \in Turns
    BY DEF TelTypes
  <2>2. CASE Calls[t.ex] # {}
    BY <1>3, <1>4, <2>1, <2>2 DEF Register
  <2>3. CASE Calls[t.ex] = {}
    BY <1>3, <2>1, <2>3 DEF CompleteTrace
  <2> QED
    BY <2>2, <2>3
<1>6. ModelCall(t.ex, trace) \in ModelCalls
  BY <1>1, <1>4 DEF ModelCalls
<1>7. /\ traced' \in Seq(ModelCalls)
      /\ \A m \in Range(traced) : m \in Range(traced')
      /\ ModelCall(t.ex, trace) \in Range(traced')
  <2>1. traced \in Seq(ModelCalls)
    BY DEF TelTypes
  <2>2. /\ traced' \in Seq(ModelCalls)
        /\ Len(traced') = Len(traced) + 1
        /\ \A i \in 1..Len(traced) : traced'[i] = traced[i]
        /\ traced'[Len(traced) + 1] = ModelCall(t.ex, trace)
    BY <1>3, <1>6, <2>1, AppendProperties
  <2>3. DOMAIN traced = 1..Len(traced) /\ DOMAIN traced' = 1..(Len(traced) + 1) /\ Len(traced) \in Nat
    BY <2>1, <2>2, LenProperties
  <2>4. \A i \in 1..Len(traced) : i \in 1..(Len(traced) + 1)
    BY <2>3
  <2>5. Len(traced) + 1 \in 1..(Len(traced) + 1)
    BY <2>3
  <2> QED
    BY <2>2, <2>3, <2>4, <2>5 DEF Range
<1>8. \A u \in tasks' : u.stage = "model" => \E m \in Range(traced') : m.ex = u.ex
  <2>1. ModelCall(t.ex, trace).ex = t.ex
    BY DEF ModelCall
  <2>2. \A u \in tasks : u.stage = "model" => \E m \in Range(traced) : m.ex = u.ex
    BY DEF TelTypes
  <2> QED
    BY <1>2, <1>7, <2>1, <2>2
<1>9. tasks' \subseteq EmitTask
  BY <1>1, <1>2 DEF TelTypes, EmitTask
<1> QED
  BY <1>5, <1>7, <1>8, <1>9 DEF TelTypes, EmitTrace

LEMMA ReportsKeptStep == ReportsInv /\ [TelemetryNext]_telemetryVars => ReportsInv'
<1> SUFFICES ASSUME ReportsInv, [TelemetryNext]_telemetryVars PROVE ReportsInv'
  OBVIOUS
<1> USE DEF ReportsInv
<1>1. queue \in Seq(Ops) /\ batch \in Seq(Ops) /\ db \in Seq(Ops) /\ << >> \in Seq(Ops)
  BY DEF TelTypes
<1>2. ASSUME UNCHANGED <<finished, tasks, pending, traced, queue, batch, db, lost>>
      PROVE  TelTypes' /\ NetOnce' /\ NetFirst'
  <2>1. TelTypes'
    BY <1>2 DEF TelTypes
  <2>2. Written' = Written
    BY <1>2 DEF Written
  <2> QED
    BY <1>2, <2>1, <2>2, NothingWritten
<1>3. ASSUME NEW ex \in Turns, Finish(ex) PROVE ReportsInv'
  <2>1. TelTypes'
    BY <1>3 DEF Finish, TelTypes, EmitTask
  <2>2. WriterHeld'
    BY <1>3 DEF Finish, WriterHeld
  <2> QED
    BY <1>3, <2>1, <2>2, FinishStep
<1>4. ASSUME NEW t \in tasks, EmitNet(t) PROVE ReportsInv'
  <2>1. NetOnce' /\ NetFirst' /\ queue' \in Seq(Ops)
    BY <1>4, NetStep
  <2>2. tasks' \subseteq EmitTask /\ \A u \in tasks' : u.stage = "model" => u \in tasks
    BY <1>4 DEF EmitNet, TelTypes, EmitTask
  <2>3. TelTypes'
    BY <1>1, <1>4, <2>1, <2>2, TypesKept DEF EmitNet, TelTypes
  <2>4. WriterHeld'
    BY <1>4 DEF EmitNet, WriterHeld
  <2> QED
    BY <2>1, <2>3, <2>4
<1>5. ASSUME NEW t \in tasks, EmitTrace(t) PROVE ReportsInv'
  <2>1. WriterHeld'
    BY <1>5 DEF EmitTrace, WriterHeld
  <2> QED
    BY <1>5, <2>1, TraceTypes, TraceStep
<1>6. ASSUME NEW t \in tasks, EmitModel(t) PROVE ReportsInv'
  <2>1. NetOnce' /\ NetFirst' /\ queue' \in Seq(Ops)
    BY <1>6, ModelStep
  <2>2. tasks' \subseteq EmitTask /\ \A u \in tasks' : u \in tasks
    BY <1>6 DEF EmitModel, TelTypes
  <2>3. TelTypes'
    BY <1>1, <1>6, <2>1, <2>2, TypesKept DEF EmitModel, TelTypes
  <2>4. WriterHeld'
    BY <1>6 DEF EmitModel, WriterHeld
  <2> QED
    BY <2>1, <2>3, <2>4
<1>7. CASE Drain
  <2>1. Written' = Written /\ batch' \in Seq(Ops) /\ queue' \in Seq(Ops)
    BY <1>7, DrainKeeps
  <2>2. NetOnce' /\ NetFirst'
    BY <1>7, <2>1, NothingWritten DEF Drain
  <2>3. TelTypes'
    BY <1>1, <1>7, <2>1, TypesKept DEF Drain, TelTypes
  <2>4. WriterHeld'
    BY <1>7 DEF Drain, WriterHeld
  <2> QED
    BY <2>2, <2>3, <2>4
<1>8. CASE ExecuteBatch
  <2>1. WriterHeld'
    BY <1>8 DEF ExecuteBatch, WriterHeld
  <2>2. CASE db' = db \o batch /\ UNCHANGED lost
    <3>1. Written' = Written /\ db' \in Seq(Ops)
      BY <1>8, <2>2, CommitKeeps DEF ExecuteBatch
    <3>2. NetOnce' /\ NetFirst'
      BY <1>8, <2>2, <3>1, NothingWritten DEF ExecuteBatch
    <3>3. TelTypes'
      BY <1>1, <1>8, <2>2, <3>1, TypesKept DEF ExecuteBatch, TelTypes
    <3> QED
      BY <2>1, <3>2, <3>3
  <2>3. CASE lost' = lost \cup Range(batch) /\ UNCHANGED db
    <3>1. NetOnce' /\ NetFirst'
      BY <1>8, <2>3, FailureStep DEF ExecuteBatch
    <3>2. Range(batch) \subseteq Ops
      BY <1>1, LenProperties DEF Range
    <3>3. TelTypes'
      BY <1>1, <1>8, <2>3, <3>2, TypesKept DEF ExecuteBatch, TelTypes
    <3> QED
      BY <2>1, <3>1, <3>3
  <2> QED
    BY <1>8, <2>2, <2>3 DEF ExecuteBatch, Insert
<1>9. CASE Join
  BY <1>2, <1>9 DEF Join, ThreadEnds, WriterHeld
<1>10. CASE Close
  BY <1>2, <1>10 DEF Close, WriterHeld
<1>11. CASE (\E trace \in Turns : ReadCalls(trace)) \/ ReadTools \/ Answer
  BY <1>2, <1>11 DEF ReadCalls, ReadTools, Answer, WriterHeld
<1>12. CASE UNCHANGED telemetryVars
  BY <1>2, <1>12 DEF telemetryVars, WriterHeld
<1> QED
  BY <1>3, <1>4, <1>5, <1>6, <1>7, <1>8, <1>9, <1>10, <1>11, <1>12 DEF TelemetryNext, EmitStep, WriterStep

LEMMA ReportsInitially == TelemetryInit => ReportsInv
<1> SUFFICES ASSUME TelemetryInit PROVE ReportsInv
  OBVIOUS
<1>1. /\ finished = {} /\ tasks = {} /\ lost = {} /\ writer = "open"
      /\ queue = << >> /\ batch = << >> /\ db = << >> /\ traced = << >> /\ DOMAIN pending = {}
  BY DEF TelemetryInit
<1>2. << >> \in Seq(Ops) /\ << >> \in Seq(ModelCalls)
  BY EmptySeq
<1>3. TelTypes
  BY <1>1, <1>2 DEF TelTypes
<1>4. DOMAIN Written = {}
  <2>1. Len(Written) = 0 /\ DOMAIN Written = 1..Len(Written)
    BY <1>1, <1>3, WrittenIs, EmptySeq
  <2> QED
    BY <2>1
<1>5. NetOnce /\ NetFirst
  BY <1>1, <1>4 DEF NetOnce, NetFirst, Asked, InPlace
<1> QED
  BY <1>1, <1>3, <1>5 DEF ReportsInv, WriterHeld

\* An exchange that was reported has one report.
LEMMA OneReport ==
    ASSUME TelTypes, NetOnce, NEW ex \in finished
    PROVE  Reports(ex) = 1
<1> DEFINE T == {t \in tasks : t.ex = ex /\ t.stage = "net"}
           P == {j \in DOMAIN Written : Is(Written[j], "net", ex)}
           L == {op \in lost : Is(op, "net", ex)}
           task == [ex |-> ex, stage |-> "net"]
<1>1. ex \in Turns
  BY DEF TelTypes
<1>2. T = IF Asked(ex) THEN {task} ELSE {}
  <2>1. \A t \in tasks : t.ex = ex /\ t.stage = "net" => t = task
    BY DEF TelTypes, EmitTask
  <2> QED
    BY <2>1 DEF Asked
<1>3. \A op \in Ops : Is(op, "net", ex) <=> op = NetEvent(ex)
  BY <1>1, OpKinds, NetEventIs DEF Is
<1>4. \A j \in DOMAIN Written : Written[j] \in Ops
  BY WrittenIs
<1>5. P = {j \in DOMAIN Written : Written[j] = NetEvent(ex)}
  BY <1>3, <1>4
<1>6. InPlace(ex) => \E j : P = {j}
  <2> SUFFICES ASSUME InPlace(ex) PROVE \E j : P = {j}
    OBVIOUS
  <2>1. PICK j \in DOMAIN Written : Written[j] = NetEvent(ex)
    BY DEF InPlace
  <2>2. \A i \in P : i = j
    BY <1>1, <1>5, <2>1, NetEventIs DEF NetOnce
  <2> QED
    BY <1>5, <2>1, <2>2
<1>7. ~InPlace(ex) => P = {}
  BY <1>5 DEF InPlace
<1>8. L = IF NetEvent(ex) \in lost THEN {NetEvent(ex)} ELSE {}
  BY <1>3 DEF TelTypes
<1>9. /\ Asked(ex) \/ InPlace(ex) \/ NetEvent(ex) \in lost
      /\ Asked(ex) => ~InPlace(ex) /\ NetEvent(ex) \notin lost
      /\ InPlace(ex) => NetEvent(ex) \notin lost
  BY <1>1 DEF NetOnce
<1> HIDE DEF T, P, L
<1>10. Cardinality(T) = IF Asked(ex) THEN 1 ELSE 0
  BY <1>2, FS_EmptySet, FS_Singleton
<1>11. Cardinality(P) = IF InPlace(ex) THEN 1 ELSE 0
  BY <1>6, <1>7, FS_EmptySet, FS_Singleton
<1>12. Cardinality(L) = IF NetEvent(ex) \in lost THEN 1 ELSE 0
  BY <1>8, FS_EmptySet, FS_Singleton
<1>13. Cardinality(T) + Cardinality(P) + Cardinality(L) = 1
  BY <1>9, <1>10, <1>11, <1>12
<1> QED
  BY <1>13 DEF Reports, T, P, L

\* For any exchanges, capacity and size of a batch, the report of an exchange is
\* in exactly one place: its task, the channel, the batch, the database or a
\* transaction that failed; the writer thread leaves none behind when it ends, and
\* the row of a request comes before the row of its model call.
THEOREM ReportsKept == TelemetrySpec => []EveryReportKept
<1>1. ReportsInv => EveryReportKept
  <2> SUFFICES ASSUME ReportsInv PROVE EveryReportKept
    OBVIOUS
  <2>1. \A ex \in finished : Reports(ex) = 1
    BY OneReport DEF ReportsInv
  <2>2. writer = "ended" => queue = << >> /\ batch = << >>
    BY DEF ReportsInv, WriterHeld
  <2>3. ASSUME NEW i \in DOMAIN db, db[i].kind = "model"
        PROVE  NetEvent(db[i].ex) \in lost \/ \E j \in 1..(i - 1) : db[j] = NetEvent(db[i].ex)
    <3>1. /\ Len(db) \in Nat /\ DOMAIN db = 1..Len(db) /\ DOMAIN Written = 1..Len(Written)
          /\ Len(Written) >= Len(db) /\ \A p \in 1..Len(db) : Written[p] = db[p]
      BY WrittenIs DEF ReportsInv
    <3>2. i \in DOMAIN Written /\ Written[i] = db[i] /\ \A j \in 1..(i - 1) : Written[j] = db[j]
      BY <3>1
    <3>3. db[i] \in ModelCalls
      <4>1. db[i] \in Ops
        BY <3>1 DEF ReportsInv, TelTypes
      <4> QED
        BY <2>3, <4>1, OpKinds
    <3> QED
      BY <3>2, <3>3 DEF ReportsInv, NetFirst
  <2> QED
    BY <2>1, <2>2, <2>3 DEF EveryReportKept
<1> QED
  BY <1>1, ReportsInitially, ReportsKeptStep, PTL DEF TelemetrySpec

DetailInv == ReportsInv /\ RowsWhole /\ ReadWhole

\* Rows are only added, those of a model call and of its tool calls at once.
LEMMA RowsGrow ==
    ASSUME RowsWhole, ReadWhole, reading' = reading, Range(db) \subseteq Range(db'), tools \subseteq tools',
           \A op \in Range(db') \ Range(db) : op.kind = "model" => {op} \X Calls[op.ex] \subseteq tools'
    PROVE  RowsWhole' /\ ReadWhole'
<1>1. RowsWhole'
  BY DEF RowsWhole
<1>2. reading \in [stage : {"idle", "calls", "done"}, n : Nat, tools : SUBSET tools',
                   calls : SUBSET {op \in Range(db') : op.kind = "model"}]
  BY DEF ReadWhole
<1>3. DetailWhole'
  BY DEF ReadWhole, DetailWhole
<1> QED
  BY <1>1, <1>2, <1>3 DEF ReadWhole

LEMMA CommitRows ==
    ASSUME ReportsInv, RowsWhole, ReadWhole, db' = db \o batch, Insert(batch), reading' = reading
    PROVE  RowsWhole' /\ ReadWhole'
<1>1. db \in Seq(Ops) /\ batch \in Seq(Ops)
  BY DEF ReportsInv, TelTypes
<1>2. Range(db') = Range(db) \cup Range(batch)
  BY <1>1, RangeConcatenation
<1>3. tools' = tools \cup ToolRows(batch)
  BY DEF Insert
<1>4. \A op \in Range(batch) : op.kind = "model" => {op} \X Calls[op.ex] \subseteq ToolRows(batch)
  BY DEF ToolRows
<1> QED
  BY <1>2, <1>3, <1>4, RowsGrow

LEMMA DetailStep == DetailInv /\ [TelemetryNext]_telemetryVars => DetailInv'
<1> SUFFICES ASSUME DetailInv, [TelemetryNext]_telemetryVars PROVE DetailInv'
  OBVIOUS
<1>1. ReportsInv'
  BY ReportsKeptStep DEF DetailInv
<1>2. RowsWhole /\ ReadWhole
  BY DEF DetailInv
<1>3. ASSUME UNCHANGED <<db, tools>> PROVE RowsWhole'
  BY <1>2, <1>3 DEF RowsWhole
<1>4. ASSUME UNCHANGED <<db, tools, reading>> PROVE ReadWhole'
  BY <1>2, <1>4 DEF ReadWhole, DetailWhole
<1>5. CASE ExecuteBatch
  <2>1. CASE db' = db \o batch /\ Insert(batch)
    BY <1>1, <1>2, <1>5, <2>1, CommitRows DEF DetailInv, ExecuteBatch
  <2>2. CASE UNCHANGED <<db, tools>>
    BY <1>1, <1>3, <1>4, <1>5, <2>2 DEF DetailInv, ExecuteBatch
  <2> QED
    BY <1>1, <1>5, <2>1, <2>2 DEF DetailInv, ExecuteBatch
<1>6. ASSUME NEW trace \in Turns, ReadCalls(trace) PROVE RowsWhole' /\ ReadWhole'
  <2>1. UNCHANGED <<db, tools>>
    BY <1>6 DEF ReadCalls
  <2>2. reading' = [stage |-> "calls", tools |-> {}, n |-> reading.n + 1,
                    calls |-> {r \in Range(db) : r.kind = "model" /\ r.trace = trace}]
    BY <1>6 DEF ReadCalls
  <2>3. reading.n \in Nat
    BY <1>2 DEF ReadWhole
  <2>4. {r \in Range(db) : r.kind = "model" /\ r.trace = trace} \subseteq {op \in Range(db) : op.kind = "model"}
    OBVIOUS
  <2>5. reading' \in [stage : {"idle", "calls", "done"}, n : Nat, tools : SUBSET tools,
                      calls : SUBSET {op \in Range(db) : op.kind = "model"}]
    BY <2>2, <2>3, <2>4
  <2>6. DetailWhole'
    BY <2>2 DEF DetailWhole
  <2> QED
    BY <1>3, <2>1, <2>5, <2>6 DEF ReadWhole
<1>7. CASE ReadTools
  <2>1. UNCHANGED <<db, tools>>
    BY <1>7 DEF ReadTools
  <2>2. reading.stage = "calls" /\ reading' = [reading EXCEPT !.stage = "done",
                     !.tools = {row \in tools : row[1] \in reading.calls}]
    BY <1>7 DEF ReadTools
  <2>3. reading \in [stage : {"idle", "calls", "done"}, n : Nat, tools : SUBSET tools,
                     calls : SUBSET {op \in Range(db) : op.kind = "model"}]
    BY <1>2 DEF ReadWhole
  <2>4. reading'.calls = reading.calls /\ reading'.tools = {row \in tools : row[1] \in reading.calls}
    BY <2>2, <2>3
  <2>5. reading' \in [stage : {"idle", "calls", "done"}, n : Nat, tools : SUBSET tools,
                      calls : SUBSET {op \in Range(db) : op.kind = "model"}]
    BY <2>2, <2>3
  <2>6. ASSUME NEW m \in reading.calls PROVE {m} \X Calls[m.ex] \subseteq reading'.tools
    <3>1. {m} \X Calls[m.ex] \subseteq tools
      BY <1>2, <2>3 DEF RowsWhole
    <3> QED
      BY <2>4, <3>1
  <2>7. DetailWhole'
    BY <2>4, <2>6 DEF DetailWhole
  <2> QED
    BY <1>1, <1>3, <2>1, <2>5, <2>7 DEF ReadWhole, DetailInv
<1>8. CASE Answer
  <2>1. UNCHANGED <<db, tools>> /\ reading' = [NoQuery EXCEPT !.n = reading.n]
    BY <1>8 DEF Answer
  <2>2. reading.n \in Nat
    BY <1>2 DEF ReadWhole
  <2>3. reading' \in [stage : {"idle", "calls", "done"}, n : Nat, tools : SUBSET tools,
                      calls : SUBSET {op \in Range(db) : op.kind = "model"}]
    BY <2>1, <2>2 DEF NoQuery
  <2>4. reading'.stage = "idle"
    BY <2>1 DEF NoQuery
  <2> QED
    BY <1>1, <1>3, <2>1, <2>3, <2>4 DEF ReadWhole, DetailWhole, DetailInv
<1>9. ASSUME UNCHANGED <<db, tools, reading>> PROVE DetailInv'
  BY <1>1, <1>3, <1>4, <1>9 DEF DetailInv
<1>10. CASE EmitStep
  BY <1>9, <1>10 DEF EmitStep, EmitNet, EmitTrace, EmitModel
<1>11. CASE Drain \/ Join \/ Close \/ \E ex \in Turns : Finish(ex)
  BY <1>9, <1>11 DEF Drain, Join, Close, Finish
<1>12. CASE UNCHANGED telemetryVars
  BY <1>9, <1>12 DEF telemetryVars
<1> QED
  BY <1>1, <1>5, <1>6, <1>7, <1>8, <1>10, <1>11, <1>12 DEF TelemetryNext, WriterStep, DetailInv

\* For any exchanges and tool calls, a call that the reader returns has all its
\* tool calls, although the two queries see different states of the database.
THEOREM DetailsWhole == TelemetrySpec => []DetailWhole
<1>1. TelemetryInit => DetailInv
  <2> SUFFICES ASSUME TelemetryInit PROVE DetailInv
    OBVIOUS
  <2>1. db = << >> /\ reading = NoQuery
    BY DEF TelemetryInit
  <2>2. Range(db) = {}
    BY <2>1 DEF Range
  <2>3. RowsWhole /\ ReadWhole
    BY <2>1, <2>2 DEF RowsWhole, ReadWhole, DetailWhole, NoQuery
  <2> QED
    BY <2>3, ReportsInitially DEF DetailInv
<1>2. DetailInv => DetailWhole
  BY DEF DetailInv, ReadWhole
<1> QED
  BY <1>1, <1>2, DetailStep, PTL DEF TelemetrySpec

------------------------------------------------------------------------------
(* The traces.                                                             *)

\* A tool call leads to the trace of a model call that asked for it, and to that of
\* the last that did until this trace may have been completed.
PendingLeads ==
    /\ \A k \in DOMAIN pending : \E i \in DOMAIN traced : k \in Calls[traced[i].ex] /\ pending[k] = traced[i].trace
    /\ \A k : \A i \in DOMAIN traced :
          LastAsked(k, i, Len(traced)) => (k \in DOMAIN pending /\ pending[k] = traced[i].trace) \/ Ended(i, Len(traced))

TraceInv == TelTypes /\ PendingLeads /\ TracesFollow

\* The j-th model call has the trace of an earlier one whose calls it answers.
Linked(j) ==
    \E i \in 1..(j - 1) : Results[traced[j].ex] \cap Calls[traced[i].ex] # {} /\ traced[j].trace = traced[i].trace

Asks(j) ==
    \E k \in Results[traced[j].ex] : \E i \in 1..(j - 1) : LastAsked(k, i, j - 1) /\ ~Ended(i, j - 1)

LEMMA FollowsIs ==
    TracesFollow <=> \A j \in DOMAIN traced : (traced[j].trace = traced[j].ex \/ Linked(j)) /\ (Asks(j) => Linked(j))
  BY Zenon DEF TracesFollow, Linked, Asks

\* What EmitTrace does to the list of those that have looked up their trace.
LEMMA TracedGrows ==
    ASSUME TelTypes, NEW ex, NEW trace, traced' = Append(traced, ModelCall(ex, trace))
    PROVE  /\ Len(traced) \in Nat /\ DOMAIN traced = 1..Len(traced)
           /\ Len(traced') = Len(traced) + 1 /\ DOMAIN traced' = 1..(Len(traced) + 1)
           /\ \A i \in 1..Len(traced) : traced'[i] = traced[i]
           /\ traced'[Len(traced) + 1].ex = ex /\ traced'[Len(traced) + 1].trace = trace
<1>1. PICK s, op : s = traced /\ op = ModelCall(ex, trace) /\ s \in Seq(ModelCalls)
  BY DEF TelTypes
<1>2. op.ex = ex /\ op.trace = trace
  BY <1>1 DEF ModelCall
<1>3. /\ Len(s) \in Nat /\ DOMAIN s = 1..Len(s)
      /\ Len(Append(s, op)) = Len(s) + 1 /\ DOMAIN Append(s, op) = 1..(Len(s) + 1)
      /\ \A i \in 1..Len(s) : Append(s, op)[i] = s[i]
      /\ Append(s, op)[Len(s) + 1] = op
  BY <1>1
<1> QED BY <1>1, <1>2, <1>3

\* An exchange that looks up its trace gets one of an earlier model call whose calls
\* it answers, or its own if no call that it answers leads to any.
LEMMA LookupLeads ==
    ASSUME TelTypes, PendingLeads, NEW ex, NEW trace \in Lookup(ex)
    PROVE  LET linked == \E i \in DOMAIN traced : Results[ex] \cap Calls[traced[i].ex] # {} /\ trace = traced[i].trace
           IN /\ trace = ex \/ linked
              /\ (\E k \in Results[ex] : \E i \in DOMAIN traced : LastAsked(k, i, Len(traced)) /\ ~Ended(i, Len(traced)))
                 => linked
<1> DEFINE known == {pending[k] : k \in Results[ex] \cap DOMAIN pending}
<1>1. trace \in IF known = {} THEN {ex} ELSE known
  BY DEF Lookup
<1>2. CASE known = {}
  <2>1. trace = ex
    BY <1>1, <1>2
  <2>2. ASSUME NEW k \in Results[ex], NEW i \in DOMAIN traced, LastAsked(k, i, Len(traced)), ~Ended(i, Len(traced)) PROVE FALSE
    <3>1. k \in DOMAIN pending
      BY <2>2 DEF PendingLeads
    <3> QED BY <1>2, <3>1
  <2> QED BY <2>1, <2>2
<1>3. CASE known # {}
  <2>1. PICK k \in Results[ex] \cap DOMAIN pending : trace = pending[k]
    BY <1>1, <1>3
  <2>2. PICK i \in DOMAIN traced : k \in Calls[traced[i].ex] /\ trace = traced[i].trace
    BY <2>1 DEF PendingLeads
  <2> QED BY <2>1, <2>2
<1> QED BY <1>2, <1>3

\* EmitTrace.
LEMMA TraceLinks ==
    ASSUME TraceInv, NEW ex, NEW trace \in Lookup(ex),
           pending' \in IF Calls[ex] # {} THEN {Register(Calls[ex], trace)} ELSE {CompleteTrace(trace), pending},
           traced' = Append(traced, ModelCall(ex, trace))
    PROVE  PendingLeads' /\ TracesFollow'
<1>1. PICK n \in Nat : /\ n = Len(traced) /\ DOMAIN traced = 1..n /\ Len(traced') = n + 1 /\ DOMAIN traced' = 1..(n + 1)
                       /\ \A i \in 1..n : traced'[i] = traced[i]
                       /\ traced'[n + 1].ex = ex /\ traced'[n + 1].trace = trace
  BY TracedGrows DEF TraceInv
<1>2. \A i \in 1..(n + 1) : i = n + 1 \/ i \in 1..n
  OBVIOUS
<1> DEFINE linked == \E i \in 1..n : Results[ex] \cap Calls[traced[i].ex] # {} /\ trace = traced[i].trace
<1>3. /\ trace = ex \/ linked
      /\ (\E k \in Results[ex] : \E i \in 1..n : LastAsked(k, i, n) /\ ~Ended(i, n)) => linked
  BY <1>1, LookupLeads DEF TraceInv
<1>4. ASSUME NEW i \in 1..n, NEW m \in i..n
      PROVE  (Ended(i, m)' <=> Ended(i, m)) /\ \A k : LastAsked(k, i, m)' <=> LastAsked(k, i, m)
  <2>1. (\A c \in i..m : c \in 1..n) /\ (\A c \in (i + 1)..m : c \in 1..n)
    OBVIOUS
  <2> QED BY <1>1, <2>1 DEF Ended, LastAsked
<1>5. ASSUME NEW i \in 1..n, Ended(i, n) PROVE Ended(i, n + 1)'
  <2>1. PICK c \in i..n : traced[c].trace = traced[i].trace /\ Calls[traced[c].ex] = {}
    BY <1>5 DEF Ended
  <2>2. c \in 1..n /\ c \in i..(n + 1)
    OBVIOUS
  <2> QED BY <1>1, <2>1, <2>2 DEF Ended
<1>6. ASSUME NEW i \in 1..n, NEW k, LastAsked(k, i, n + 1)' PROVE LastAsked(k, i, n) /\ k \notin Calls[ex]
  <2>1. n + 1 \in (i + 1)..(n + 1) /\ (\A c \in (i + 1)..n : c \in 1..n /\ c \in (i + 1)..(n + 1))
    OBVIOUS
  <2> QED BY <1>1, <1>6, <2>1 DEF LastAsked
<1>7. ASSUME NEW k \in DOMAIN pending'
      PROVE  \E i \in 1..(n + 1) : k \in Calls[traced'[i].ex] /\ pending'[k] = traced'[i].trace
  <2>1. CASE Calls[ex] # {} /\ k \in Calls[ex]
    BY <1>1, <2>1 DEF Register
  <2>2. CASE ~(Calls[ex] # {} /\ k \in Calls[ex])
    <3>1. k \in DOMAIN pending /\ pending'[k] = pending[k]
      BY <1>7, <2>2 DEF Register, CompleteTrace
    <3>2. PICK i \in 1..n : k \in Calls[traced[i].ex] /\ pending[k] = traced[i].trace
      BY <1>1, <3>1 DEF TraceInv, PendingLeads
    <3> QED BY <1>1, <3>1, <3>2
  <2> QED BY <2>1, <2>2
<1>8. ASSUME NEW k, NEW i \in 1..(n + 1), LastAsked(k, i, n + 1)'
      PROVE  (k \in DOMAIN pending' /\ pending'[k] = traced'[i].trace) \/ Ended(i, n + 1)'
  <2>1. CASE i = n + 1
    <3>1. k \in Calls[ex] /\ Calls[ex] # {}
      BY <1>1, <1>8, <2>1 DEF LastAsked
    <3> QED BY <1>1, <2>1, <3>1 DEF Register
  <2>2. CASE i \in 1..n /\ Ended(i, n)
    BY <1>5, <2>2
  <2>3. CASE i \in 1..n /\ ~Ended(i, n)
    <3>1. k \in DOMAIN pending /\ pending[k] = traced[i].trace /\ k \notin Calls[ex]
      BY <1>1, <1>6, <1>8, <2>3 DEF TraceInv, PendingLeads
    <3>2. CASE Calls[ex] # {} \/ trace # traced[i].trace
      BY <1>1, <2>3, <3>1, <3>2 DEF Register, CompleteTrace
    <3>3. CASE Calls[ex] = {} /\ trace = traced[i].trace
      <4>1. n + 1 \in i..(n + 1)
        OBVIOUS
      <4> QED BY <1>1, <2>3, <3>3, <4>1 DEF Ended
    <3> QED BY <3>2, <3>3
  <2> QED BY <1>2, <2>1, <2>2, <2>3
<1>9. PendingLeads'
  BY <1>1, <1>7, <1>8 DEF PendingLeads
<1>10. ASSUME NEW j \in 1..n, NEW i \in 1..(j - 1)
       PROVE  /\ traced'[i] = traced[i]
              /\ (Ended(i, j - 1)' <=> Ended(i, j - 1)) /\ \A k : LastAsked(k, i, j - 1)' <=> LastAsked(k, i, j - 1)
  <2>1. i \in 1..n /\ j - 1 \in i..n
    OBVIOUS
  <2> QED BY <1>1, <1>4, <2>1
<1>11. ASSUME NEW j \in 1..n
       PROVE  (traced'[j].trace = traced'[j].ex \/ Linked(j)') /\ (Asks(j)' => Linked(j)')
  <2>1. (traced[j].trace = traced[j].ex \/ Linked(j)) /\ (Asks(j) => Linked(j))
    BY <1>1, FollowsIs DEF TraceInv
  <2>2. traced'[j] = traced[j]
    BY <1>1
  <2>3. Linked(j) => Linked(j)'
    BY <1>10, <2>2 DEF Linked
  <2>4. Asks(j)' => Asks(j)
    BY <1>10, <2>2 DEF Asks
  <2> QED BY <2>1, <2>2, <2>3, <2>4
<1>12. (traced'[n + 1].trace = traced'[n + 1].ex \/ Linked(n + 1)') /\ (Asks(n + 1)' => Linked(n + 1)')
  <2>1. n + 1 - 1 = n
    OBVIOUS
  <2>2. linked => Linked(n + 1)'
    BY <1>1, <2>1 DEF Linked
  <2>3. \A i \in 1..n : n \in i..n
    OBVIOUS
  <2>4. Asks(n + 1)' => \E k \in Results[ex] : \E i \in 1..n : LastAsked(k, i, n) /\ ~Ended(i, n)
    BY <1>1, <1>4, <2>1, <2>3 DEF Asks
  <2> QED BY <1>1, <1>3, <2>2, <2>4
<1>13. TracesFollow'
  <2>1. \A j \in DOMAIN traced' : (traced'[j].trace = traced'[j].ex \/ Linked(j)') /\ (Asks(j)' => Linked(j)')
    BY <1>1, <1>2, <1>11, <1>12
  <2> QED BY Zenon, <2>1 DEF TracesFollow, Linked, Asks
<1> QED BY <1>9, <1>13

LEMMA TraceInvStep ==
    ASSUME ReportsInv, TraceInv, [TelemetryNext]_telemetryVars
    PROVE  TraceInv'
<1>1. TelTypes'
  BY ReportsKeptStep DEF ReportsInv
<1>2. ASSUME NEW t \in tasks, EmitTrace(t) PROVE PendingLeads' /\ TracesFollow'
  <2>1. PICK trace \in Lookup(t.ex) :
          /\ pending' \in IF Calls[t.ex] # {} THEN {Register(Calls[t.ex], trace)} ELSE {CompleteTrace(trace), pending}
          /\ traced' = Append(traced, ModelCall(t.ex, trace))
    BY <1>2 DEF EmitTrace
  <2> QED BY <2>1, TraceLinks
<1>3. ASSUME UNCHANGED <<pending, traced>> PROVE PendingLeads' /\ TracesFollow'
  <2>1. PendingLeads'
    BY Zenon, <1>3 DEF TraceInv, PendingLeads, LastAsked, Ended
  <2>2. TracesFollow'
    BY Zenon, <1>3 DEF TraceInv, TracesFollow, LastAsked, Ended
  <2> QED BY <2>1, <2>2
<1>4. ASSUME ~(\E t \in tasks : EmitTrace(t)) PROVE UNCHANGED <<pending, traced>>
  BY <1>4 DEF TelemetryNext, Finish, EmitStep, EmitNet, EmitModel, WriterStep, Drain, ExecuteBatch, Join, Close,
              ReadCalls, ReadTools, Answer, telemetryVars
<1> QED BY <1>1, <1>2, <1>3, <1>4 DEF TraceInv

\* A model call has the trace of an earlier one whose calls it answers, or one of
\* its own, and the former if a call that it answers was asked for in a trace that
\* still goes on, however the reports of connections interleave: for any exchanges,
\* results and calls, any capacity and size of a batch.
THEOREM TracesAreFollowed == TelemetrySpec => []TracesFollow
<1>1. TelemetryInit => TraceInv
  <2> SUFFICES ASSUME TelemetryInit PROVE TraceInv
    OBVIOUS
  <2>1. DOMAIN traced = {} /\ DOMAIN pending = {}
    BY DEF TelemetryInit
  <2>2. TelTypes
    BY ReportsInitially DEF ReportsInv
  <2> QED BY <2>1, <2>2 DEF TraceInv, PendingLeads, TracesFollow
<1>2. TraceInv => TracesFollow
  BY DEF TraceInv
<1>3. ReportsInv /\ TraceInv /\ [TelemetryNext]_telemetryVars => TraceInv'
  BY TraceInvStep
<1> QED BY <1>1, <1>2, <1>3, ReportsInitially, ReportsKeptStep, PTL DEF TelemetrySpec

------------------------------------------------------------------------------
(* The answers of language models.                                         *)

\* Feed, word by word.
FedUp(p, words, f, n) ==
    f = [i \in 0..n |->
            IF i = 0 THEN Emits(p, << >>)
            ELSE LET acc == f[i - 1]
                     r == FeedByte(acc.p, words[i])
                 IN Emits(r.p, acc.events \o r.events)]

LEMMA FeedExists ==
    ASSUME NEW p, NEW words, NEW m \in Nat
    PROVE  \E f : FedUp(p, words, f, m)
<1> DEFINE R == {s \in Nat \X Nat : s[1] < s[2]}
           Bad == {n \in Nat : \A f : ~FedUp(p, words, f, n)}
           Value(acc, i) == LET r == FeedByte(acc.p, words[i]) IN Emits(r.p, acc.events \o r.events)
           Body(f, i) == IF i = 0 THEN Emits(p, << >>) ELSE Value(f[i - 1], i)
<1>0. ASSUME NEW f, NEW n \in Nat PROVE FedUp(p, words, f, n) <=> f = [i \in 0..n |-> Body(f, i)]
  BY Zenon DEF FedUp
<1> HIDE DEF Value
<1>1. Bad = {}
  <2> SUFFICES ASSUME Bad # {} PROVE FALSE
    OBVIOUS
  <2>1. IsWellFoundedOn(R, Nat)
    BY NatLessThanWellFounded, Zenon DEF OpToRel
  <2>2. PICK n \in Bad : \A m2 \in Bad : ~(<<m2, n>> \in R)
    BY <2>1, WFMin
  <2>3. CASE n = 0
    <3> DEFINE g == [i \in 0..0 |-> Emits(p, << >>)]
    <3>1. g = [i \in 0..0 |-> Body(g, i)]
      OBVIOUS
    <3> QED BY <1>0, <2>2, <2>3, <3>1
  <2>4. CASE n # 0
    <3>0. n \in Nat /\ n - 1 \in Nat /\ <<n - 1, n>> \in R
      BY <2>4
    <3>1. n - 1 \notin Bad
      BY <2>2, <3>0, Zenon
    <3>2. PICK f : f = [i \in 0..(n - 1) |-> Body(f, i)]
      BY <1>0, <3>0, <3>1
    <3> DEFINE g == [i \in 0..n |-> IF i = n THEN Body(f, n) ELSE f[i]]
    <3>3. ASSUME NEW i \in 0..n PROVE g[i] = Body(g, i)
      <4>1. CASE i = 0
        BY <3>0, <3>2, <4>1
      <4>2. CASE i # 0
        <5>1. i - 1 \in 0..(n - 1) /\ g[i - 1] = f[i - 1]
          BY <3>0, <4>2
        <5> QED BY <3>0, <3>2, <4>2, <5>1
      <4> QED BY <4>1, <4>2
    <3>4. g = [i \in 0..n |-> Body(g, i)]
      BY <3>3
    <3> QED BY <1>0, <2>2, <3>4
  <2> QED BY <2>3, <2>4
<1> QED BY <1>1

LEMMA FeedIs ==
    ASSUME NEW p, NEW words, Len(words) \in Nat
    PROVE  \E f : FedUp(p, words, f, Len(words)) /\ Feed(p, words) = f[Len(words)]
<1> DEFINE g == CHOOSE f : FedUp(p, words, f, Len(words))
<1>1. FedUp(p, words, g, Len(words))
  BY FeedExists, Zenon
<1>2. Feed(p, words) = g[Len(words)]
  BY Zenon DEF Feed, FedUp
<1> QED BY <1>1, <1>2

\* Parse, event by event.
ParsedUp(api, before, events, f, n) ==
    f = [i \in 0..n |->
            IF i = 0 THEN before
            ELSE LET acc == f[i - 1]
                     r == ParseEvent(api, acc.p, events[i])
                 IN Gives(r.p, acc.events \o r.events)]

LEMMA ParseExists ==
    ASSUME NEW api, NEW before, NEW events, NEW m \in Nat
    PROVE  \E f : ParsedUp(api, before, events, f, m)
<1> DEFINE R == {s \in Nat \X Nat : s[1] < s[2]}
           Bad == {n \in Nat : \A f : ~ParsedUp(api, before, events, f, n)}
           Value(acc, i) == LET r == ParseEvent(api, acc.p, events[i]) IN Gives(r.p, acc.events \o r.events)
           Body(f, i) == IF i = 0 THEN before ELSE Value(f[i - 1], i)
<1>0. ASSUME NEW f, NEW n \in Nat PROVE ParsedUp(api, before, events, f, n) <=> f = [i \in 0..n |-> Body(f, i)]
  BY Zenon DEF ParsedUp
<1> HIDE DEF Value
<1>1. Bad = {}
  <2> SUFFICES ASSUME Bad # {} PROVE FALSE
    OBVIOUS
  <2>1. IsWellFoundedOn(R, Nat)
    BY NatLessThanWellFounded, Zenon DEF OpToRel
  <2>2. PICK n \in Bad : \A m2 \in Bad : ~(<<m2, n>> \in R)
    BY <2>1, WFMin
  <2>3. CASE n = 0
    <3> DEFINE g == [i \in 0..0 |-> before]
    <3>1. g = [i \in 0..0 |-> Body(g, i)]
      OBVIOUS
    <3> QED BY <1>0, <2>2, <2>3, <3>1
  <2>4. CASE n # 0
    <3>0. n \in Nat /\ n - 1 \in Nat /\ <<n - 1, n>> \in R
      BY <2>4
    <3>1. n - 1 \notin Bad
      BY <2>2, <3>0, Zenon
    <3>2. PICK f : f = [i \in 0..(n - 1) |-> Body(f, i)]
      BY <1>0, <3>0, <3>1
    <3> DEFINE g == [i \in 0..n |-> IF i = n THEN Body(f, n) ELSE f[i]]
    <3>3. ASSUME NEW i \in 0..n PROVE g[i] = Body(g, i)
      <4>1. CASE i = 0
        BY <3>0, <3>2, <4>1
      <4>2. CASE i # 0
        <5>1. i - 1 \in 0..(n - 1) /\ g[i - 1] = f[i - 1]
          BY <3>0, <4>2
        <5> QED BY <3>0, <3>2, <4>2, <5>1
      <4> QED BY <4>1, <4>2
    <3>4. g = [i \in 0..n |-> Body(g, i)]
      BY <3>3
    <3> QED BY <1>0, <2>2, <3>4
  <2> QED BY <2>3, <2>4
<1> QED BY <1>1

LEMMA ParseIs ==
    ASSUME NEW api, NEW before, NEW events, Len(events) \in Nat
    PROVE  \E f : ParsedUp(api, before, events, f, Len(events)) /\ Parse(api, before, events) = f[Len(events)]
<1> DEFINE g == CHOOSE f : ParsedUp(api, before, events, f, Len(events))
<1>1. ParsedUp(api, before, events, g, Len(events))
  BY ParseExists, Zenon
<1>2. Parse(api, before, events) = g[Len(events)]
  BY Zenon DEF Parse, ParsedUp
<1> QED BY <1>1, <1>2

\* One event more.
ParseOn(api, acc, e) == LET r == ParseEvent(api, acc.p, e) IN Gives(r.p, acc.events \o r.events)

LEMMA ParseNone ==
    ASSUME NEW api, NEW before
    PROVE  Parse(api, before, << >>) = before
<1>1. Len(<< >>) = 0
  OBVIOUS
<1>2. PICK f : ParsedUp(api, before, << >>, f, 0) /\ Parse(api, before, << >>) = f[0]
  BY <1>1, ParseIs
<1> QED BY <1>2 DEF ParsedUp

LEMMA ParseMore ==
    ASSUME NEW api, NEW before, NEW S, NEW events \in Seq(S), NEW e \in S
    PROVE  Parse(api, before, Append(events, e)) = ParseOn(api, Parse(api, before, events), e)
<1>1. PICK n \in Nat : n = Len(events)
  OBVIOUS
<1>2. PICK more : more = Append(events, e)
  OBVIOUS
<1>3. Len(more) = n + 1 /\ more[n + 1] = e /\ \A i \in 1..n : more[i] = events[i]
  BY <1>1, <1>2
<1>4. PICK f : ParsedUp(api, before, events, f, n) /\ Parse(api, before, events) = f[n]
  BY <1>1, ParseIs
<1>5. PICK g : ParsedUp(api, before, more, g, n + 1) /\ Parse(api, before, more) = g[n + 1]
  BY <1>3, ParseIs
<1>6. ASSUME NEW h, NEW s, NEW m \in Nat, ParsedUp(api, before, s, h, m)
      PROVE  h[0] = before /\ \A i \in 1..m : h[i] = ParseOn(api, h[i - 1], s[i])
  <2>1. \A i \in 0..m : h[i] = IF i = 0 THEN before ELSE ParseOn(api, h[i - 1], s[i])
    BY <1>6, Zenon DEF ParsedUp, ParseOn
  <2>2. 0 \in 0..m /\ \A i \in 1..m : i \in 0..m /\ i # 0
    OBVIOUS
  <2> QED BY <2>1, <2>2, Zenon
<1>7. /\ f[0] = before /\ \A i \in 1..n : f[i] = ParseOn(api, f[i - 1], events[i])
      /\ g[0] = before /\ \A i \in 1..(n + 1) : g[i] = ParseOn(api, g[i - 1], more[i])
  BY <1>4, <1>5, <1>6
<1> DEFINE Differ == {i \in 0..n : f[i] # g[i]}
           R == {s \in Nat \X Nat : s[1] < s[2]}
<1>8. Differ = {}
  <2> SUFFICES ASSUME Differ # {} PROVE FALSE
    OBVIOUS
  <2>1. IsWellFoundedOn(R, Nat)
    BY NatLessThanWellFounded, Zenon DEF OpToRel
  <2>2. PICK m \in Differ : \A l \in Differ : ~(<<l, m>> \in R)
    <3>1. Differ \subseteq Nat
      OBVIOUS
    <3> HIDE DEF Differ, R
    <3> QED BY <2>1, <3>1, WFMin
  <2>3. m # 0
    BY <1>7
  <2>4. m \in 1..n /\ m \in 1..(n + 1) /\ m - 1 \in 0..n /\ <<m - 1, m>> \in R
    BY <2>3
  <2>5. f[m - 1] = g[m - 1]
    BY <2>2, <2>4
  <2>6. f[m] = g[m]
    BY <1>3, <1>7, <2>4, <2>5
  <2> QED BY <2>6
<1>9. f[n] = g[n] /\ g[n + 1] = ParseOn(api, g[n + 1 - 1], more[n + 1]) /\ n + 1 - 1 = n
  <2>1. n \in 0..n /\ n + 1 \in 1..(n + 1) /\ n + 1 - 1 = n
    OBVIOUS
  <2>2. f[n] = g[n]
    BY <1>8, <2>1
  <2>3. g[n + 1] = ParseOn(api, g[n + 1 - 1], more[n + 1])
    BY <1>7, <2>1
  <2> QED BY <2>1, <2>2, <2>3
<1> QED BY <1>2, <1>3, <1>4, <1>5, <1>9

\* What the proxy knows of a body when its words come one at a time.
AtFirst ==
    [sse |-> [line |-> << >>, type |-> {}, data |-> << >>, cr |-> FALSE],
     parser |-> [blocks |-> {}, started |-> FALSE, index |-> 0, stop |-> {}], llm |-> << >>]

AfterWord(api, s, w) ==
    LET fed == FeedByte(s.sse, w)
        parsed == Parse(api, Gives(s.parser, s.llm), fed.events)
    IN [sse |-> fed.p, parser |-> parsed.p, llm |-> parsed.events]

WordByWord(b, run, n) == run = [i \in 0..n |-> IF i = 0 THEN AtFirst ELSE AfterWord(b.api, run[i - 1], b.words[i])]

LEMMA WordByWordExists ==
    ASSUME NEW b, NEW m \in Nat
    PROVE  \E run : WordByWord(b, run, m)
<1> DEFINE R == {s \in Nat \X Nat : s[1] < s[2]}
           Bad == {n \in Nat : \A f : ~WordByWord(b, f, n)}
           Body(f, i) == IF i = 0 THEN AtFirst ELSE AfterWord(b.api, f[i - 1], b.words[i])
<1>0. ASSUME NEW f, NEW n \in Nat PROVE WordByWord(b, f, n) <=> f = [i \in 0..n |-> Body(f, i)]
  BY Zenon DEF WordByWord
<1>1. Bad = {}
  <2> SUFFICES ASSUME Bad # {} PROVE FALSE
    OBVIOUS
  <2>1. IsWellFoundedOn(R, Nat)
    BY NatLessThanWellFounded, Zenon DEF OpToRel
  <2>2. PICK n \in Bad : \A m2 \in Bad : ~(<<m2, n>> \in R)
    BY <2>1, WFMin
  <2>3. CASE n = 0
    <3> DEFINE g == [i \in 0..0 |-> AtFirst]
    <3>1. g = [i \in 0..0 |-> Body(g, i)]
      OBVIOUS
    <3> QED BY <1>0, <2>2, <2>3, <3>1
  <2>4. CASE n # 0
    <3>0. n \in Nat /\ n - 1 \in Nat /\ <<n - 1, n>> \in R
      BY <2>4
    <3>1. n - 1 \notin Bad
      BY <2>2, <3>0, Zenon
    <3>2. PICK f : f = [i \in 0..(n - 1) |-> Body(f, i)]
      BY <1>0, <3>0, <3>1
    <3> DEFINE g == [i \in 0..n |-> IF i = n THEN Body(f, n) ELSE f[i]]
    <3>3. ASSUME NEW i \in 0..n PROVE g[i] = Body(g, i)
      <4>1. CASE i = 0
        BY <3>0, <3>2, <4>1
      <4>2. CASE i # 0
        <5>1. i - 1 \in 0..(n - 1) /\ g[i - 1] = f[i - 1]
          BY <3>0, <4>2
        <5> QED BY <3>0, <3>2, <4>2, <5>1
      <4> QED BY <4>1, <4>2
    <3>4. g = [i \in 0..n |-> Body(g, i)]
      BY <3>3
    <3> QED BY <1>0, <2>2, <3>4
  <2> QED BY <2>3, <2>4
<1> QED BY <1>1

\* A word ends at most one event.
LEMMA FeedEmits ==
    ASSUME NEW p, NEW w
    PROVE  FeedByte(p, w).events = << >> \/ \E e : FeedByte(p, w).events = <<e>>
<1>1. ASSUME NEW q PROVE DispatchEvent(q).events = << >> \/ \E e : DispatchEvent(q).events = <<e>>
  BY Zenon DEF DispatchEvent, Emits
<1>2. ASSUME NEW q PROVE ProcessLine(q).events = << >> \/ \E e : ProcessLine(q).events = <<e>>
  <2>1. \E rest : ProcessLine(q) = DispatchEvent(rest) \/ ProcessLine(q).events = << >>
    BY Zenon DEF ProcessLine, Emits
  <2> QED BY <1>1, <2>1, Zenon
<1>3. \E q : FeedByte(p, w) = ProcessLine(q) \/ FeedByte(p, w).events = << >>
  BY Zenon DEF FeedByte, Emits
<1> QED BY <1>2, <1>3, Zenon

LEMMA ParseOne ==
    ASSUME NEW api, NEW acc, NEW e
    PROVE  Parse(api, acc, <<e>>) = ParseOn(api, acc, e)
<1>1. ASSUME NEW S, NEW none \in Seq(S), e \in S
      PROVE  Parse(api, acc, Append(none, e)) = ParseOn(api, Parse(api, acc, none), e)
  BY <1>1, ParseMore
<1>2. << >> \in Seq({e}) /\ e \in {e} /\ <<e>> = Append(<< >>, e)
  OBVIOUS
<1>3. Parse(api, acc, Append(<< >>, e)) = ParseOn(api, Parse(api, acc, << >>), e)
  BY <1>1, <1>2, Zenon
<1> QED BY <1>2, <1>3, ParseNone

\* A word after others: its event, if it ends one, is parsed after theirs.
LEMMA FeedOne ==
    ASSUME NEW api, NEW before, NEW S, NEW events \in Seq(S), NEW p, NEW w
    PROVE  LET r == FeedByte(p, w)
           IN /\ \E T : events \o r.events \in Seq(T)
              /\ Parse(api, before, events \o r.events) = Parse(api, Parse(api, before, events), r.events)
<1> DEFINE r == FeedByte(p, w)
<1>1. CASE r.events = << >>
  <2>1. events \o << >> = events
    OBVIOUS
  <2> QED BY <1>1, <2>1, ParseNone
<1>2. ASSUME NEW e, r.events = <<e>> PROVE (\E T : events \o r.events \in Seq(T)) /\ Parse(api, before, events \o r.events) = Parse(api, Parse(api, before, events), r.events)
  <2> DEFINE T == S \cup {e}
  <2>1. events \in Seq(T) /\ << >> \in Seq(T) /\ e \in T
    OBVIOUS
  <2>2. events \o <<e>> = Append(events, e) /\ <<e>> = Append(<< >>, e) /\ Append(events, e) \in Seq(T)
    BY <2>1
  <2>3. Parse(api, before, Append(events, e)) = ParseOn(api, Parse(api, before, events), e)
    BY <2>1, ParseMore
  <2>4. Parse(api, Parse(api, before, events), <<e>>) = ParseOn(api, Parse(api, before, events), e)
    BY ParseOne
  <2> QED BY <1>2, <2>2, <2>3, <2>4
<1> QED BY <1>1, <1>2, FeedEmits

\* A parser of the provider with the events so far.
Pair(acc) == acc = Gives(acc.p, acc.events)

LEMMA GivesIs ==
    ASSUME NEW q, NEW out
    PROVE  /\ Pair(Gives(q, out)) /\ Gives(q, out).p = q /\ Gives(q, out).events = out
  BY DEF Pair, Gives

LEMMA EmitsIs ==
    ASSUME NEW x, NEW q, NEW out, x = Emits(q, out)
    PROVE  x.p = q /\ x.events = out
  BY DEF Emits

LEMMA ParseGives ==
    ASSUME NEW api, NEW acc, Pair(acc), NEW p, NEW w
    PROVE  Pair(Parse(api, acc, FeedByte(p, w).events))
<1>1. CASE FeedByte(p, w).events = << >>
  BY <1>1, ParseNone
<1>2. ASSUME NEW e, FeedByte(p, w).events = <<e>> PROVE Pair(Parse(api, acc, FeedByte(p, w).events))
  <2>1. PICK q, out : ParseOn(api, acc, e) = Gives(q, out)
    BY Zenon DEF ParseOn
  <2>2. Pair(Gives(q, out))
    BY DEF Pair, Gives
  <2> QED BY <1>2, <2>1, <2>2, ParseOne
<1> QED BY <1>1, <1>2, FeedEmits

\* The n words of a chunk that is cut from a body of l words after the first d.
Cut(b, run, l, d, n, words) ==
    /\ l \in Nat /\ d \in Nat /\ n \in Nat /\ d + n <= l /\ WordByWord(b, run, l)
    /\ Len(words) = n /\ \A i \in 1..n : words[i] = b.words[d + i]

\* A chunk leads where its words lead.
LEMMA ChunkIsWords ==
    ASSUME NEW b, NEW run, NEW l, NEW d, NEW n, NEW words, Cut(b, run, l, d, n, words)
    PROVE  LET fed == Feed(run[d].sse, words)
               parsed == Parse(b.api, Gives(run[d].parser, run[d].llm), fed.events)
           IN run[d + n].sse = fed.p /\ parsed = Gives(run[d + n].parser, run[d + n].llm)
<1>0. /\ l \in Nat /\ d \in Nat /\ n \in Nat /\ d + n <= l /\ WordByWord(b, run, l)
      /\ Len(words) = n /\ \A i \in 1..n : words[i] = b.words[d + i]
  BY DEF Cut
<1> USE <1>0
<1> DEFINE before == Gives(run[d].parser, run[d].llm)
<1>1. PICK f : FedUp(run[d].sse, words, f, n) /\ Feed(run[d].sse, words) = f[n]
  BY FeedIs
<1>2. /\ f[0] = Emits(run[d].sse, << >>)
      /\ \A i \in 1..n : f[i] = LET r == FeedByte(f[i - 1].p, words[i]) IN Emits(r.p, f[i - 1].events \o r.events)
  <2>1. \A i \in 0..n : f[i] = IF i = 0 THEN Emits(run[d].sse, << >>)
                               ELSE LET acc == f[i - 1]
                                        r == FeedByte(acc.p, words[i])
                                    IN Emits(r.p, acc.events \o r.events)
    BY <1>1, Zenon DEF FedUp
  <2>2. 0 \in 0..n /\ \A i \in 1..n : i \in 0..n /\ i # 0
    OBVIOUS
  <2> QED BY <2>1, <2>2, Zenon
<1>3. \A i \in 1..l : run[i] = AfterWord(b.api, run[i - 1], b.words[i])
  <2>1. l \in Nat /\ WordByWord(b, run, l)
    OBVIOUS
  <2> QED BY ONLY <2>1 DEF WordByWord
<1> DEFINE Good(i) == /\ f[i].p = run[d + i].sse /\ \E S : f[i].events \in Seq(S)
                      /\ Parse(b.api, before, f[i].events) = Gives(run[d + i].parser, run[d + i].llm)
           Bad == {i \in 0..n : ~Good(i)}
           R == {s \in Nat \X Nat : s[1] < s[2]}
<1>4. Good(0)
  <2>1. f[0].p = run[d].sse /\ f[0].events = << >> /\ d + 0 = d
    BY <1>2 DEF Emits
  <2>2. << >> \in Seq({})
    OBVIOUS
  <2> QED BY <2>1, <2>2, ParseNone
<1>5. ASSUME NEW i \in 1..n, Good(i - 1) PROVE Good(i)
  <2>1. i - 1 \in 0..n /\ d + i \in 1..l /\ d + i - 1 = d + (i - 1) /\ words[i] = b.words[d + i]
    OBVIOUS
  <2>2. PICK s, fed : s = run[d + (i - 1)] /\ fed = FeedByte(s.sse, words[i])
    OBVIOUS
  <2>3. /\ f[i] = Emits(fed.p, f[i - 1].events \o fed.events)
        /\ run[d + i] = AfterWord(b.api, s, words[i])
    BY <1>2, <1>3, <1>5, <2>1, <2>2
  <2>4. f[i].p = fed.p /\ f[i].events = f[i - 1].events \o fed.events
    <3>1. PICK out : out = f[i - 1].events \o fed.events
      OBVIOUS
    <3>2. f[i] = Emits(fed.p, out)
      BY <2>3, <3>1
    <3>3. f[i].p = fed.p /\ f[i].events = out
      BY <3>2, EmitsIs
    <3> QED BY <3>1, <3>3, Zenon
  <2>5. /\ \E T : f[i].events \in Seq(T)
        /\ Parse(b.api, before, f[i].events) = Parse(b.api, Parse(b.api, before, f[i - 1].events), fed.events)
    <3>1. PICK S, earlier : earlier = f[i - 1].events /\ earlier \in Seq(S)
      BY <1>5
    <3> HIDE DEF before
    <3>2. PICK api, q, w : api = b.api /\ q = s.sse /\ w = words[i]
      OBVIOUS
    <3>3. LET r == FeedByte(q, w)
          IN /\ \E T : earlier \o r.events \in Seq(T)
             /\ Parse(api, before, earlier \o r.events) = Parse(api, Parse(api, before, earlier), r.events)
      BY ONLY <3>1, FeedOne
    <3> QED BY <2>2, <2>4, <3>1, <3>2, <3>3
  <2>6. Parse(b.api, Parse(b.api, before, f[i - 1].events), fed.events) = Parse(b.api, Gives(s.parser, s.llm), fed.events)
    BY <1>5, <2>2
  <2>7. PICK parsed : parsed = Parse(b.api, Gives(s.parser, s.llm), fed.events)
    OBVIOUS
  <2>8. parsed = Gives(parsed.p, parsed.events)
    <3>1. PICK acc, api, w : acc = Gives(s.parser, s.llm) /\ api = b.api /\ w = words[i]
      OBVIOUS
    <3>2. Pair(acc)
      BY <3>1, GivesIs
    <3>3. Pair(Parse(api, acc, FeedByte(s.sse, w).events))
      BY <3>2, ParseGives
    <3>4. parsed = Parse(api, acc, FeedByte(s.sse, w).events)
      BY <2>2, <2>7, <3>1, Zenon
    <3> QED BY <3>3, <3>4, Zenon DEF Pair
  <2>9. run[d + i].sse = fed.p /\ run[d + i].parser = parsed.p /\ run[d + i].llm = parsed.events
    BY <2>2, <2>3, <2>7 DEF AfterWord
  <2> QED BY <2>4, <2>5, <2>6, <2>7, <2>8, <2>9
<1>6. Bad = {}
  <2> SUFFICES ASSUME Bad # {} PROVE FALSE
    OBVIOUS
  <2>1. IsWellFoundedOn(R, Nat)
    BY NatLessThanWellFounded, Zenon DEF OpToRel
  <2>2. PICK m \in Bad : \A k \in Bad : ~(<<k, m>> \in R)
    <3>1. Bad \subseteq Nat
      OBVIOUS
    <3> HIDE DEF Bad, R
    <3> QED BY <2>1, <3>1, WFMin
  <2> HIDE DEF Good
  <2>3. m # 0
    BY <1>4
  <2>4. m \in 1..n /\ m - 1 \in 0..n /\ <<m - 1, m>> \in R
    BY <2>3
  <2> QED BY <1>5, <2>2, <2>4
<1>7. Good(n)
  <2> HIDE DEF Good
  <2> QED BY <1>6
<1> QED BY <1>1, <1>7

\* The last event, if no empty line ended it.
AtEnd(b, s) == Parse(b.api, Gives(s.parser, s.llm), Flush(s.sse).events).events

\* Whatever the chunks were, what is known of a body is what its words one at a time
\* would have told.
StreamInv ==
    /\ body \in Bodies /\ delivered \in 0..Len(body.words)
    /\ \E run : /\ WordByWord(body, run, Len(body.words))
                /\ IF stream = "ended" THEN delivered = Len(body.words) /\ llm = AtEnd(body, run[delivered])
                   ELSE sse = run[delivered].sse /\ parser = run[delivered].parser /\ llm = run[delivered].llm

LEMMA StreamInitially == LlmInit => StreamInv
<1> SUFFICES ASSUME LlmInit PROVE StreamInv
  OBVIOUS
<1>1. body \in Bodies /\ Len(body.words) \in Nat
  BY LlmAssumption DEF LlmInit
<1>2. PICK run : WordByWord(body, run, Len(body.words))
  BY <1>1, WordByWordExists
<1>3. 0 \in 0..Len(body.words) /\ run[0] = AtFirst
  BY <1>1, <1>2 DEF WordByWord
<1>4. sse = AtFirst.sse /\ parser = AtFirst.parser /\ llm = AtFirst.llm /\ delivered = 0 /\ stream # "ended"
  BY DEF LlmInit, AtFirst
<1> QED BY <1>1, <1>2, <1>3, <1>4 DEF StreamInv

LEMMA ChunkStep ==
    ASSUME StreamInv, PollFrame
    PROVE  StreamInv'
<1>1. PICK n \in 1..MaxChunk :
        /\ delivered + n <= Len(body.words)
        /\ IF delivered + n > MaxBody
           THEN stream' = "failed" /\ UNCHANGED <<delivered, sse, parser, llm>>
           ELSE Deliver(Feed(sse, SubSeq(body.words, delivered + 1, delivered + n)), delivered + n) /\ UNCHANGED stream
  BY DEF PollFrame
<1>2. body' = body /\ stream = "open"
  BY DEF PollFrame
<1>3. body \in Bodies /\ delivered \in 0..Len(body.words) /\ body.words \in Seq(STRING)
  BY LlmAssumption DEF StreamInv
<1>4. PICK run, l : /\ l = Len(body.words) /\ l \in Nat /\ WordByWord(body, run, l)
                    /\ sse = run[delivered].sse /\ parser = run[delivered].parser /\ llm = run[delivered].llm
  BY <1>2, <1>3 DEF StreamInv
<1>5. CASE delivered + n > MaxBody
  BY <1>1, <1>2, <1>3, <1>4, <1>5 DEF StreamInv
<1>6. CASE ~(delivered + n > MaxBody)
  <2>1. PICK words : words = SubSeq(body.words, delivered + 1, delivered + n)
    OBVIOUS
  <2>2. /\ delivered \in Nat /\ n \in Nat /\ delivered + n <= l /\ delivered + n \in 0..l
        /\ Len(words) = n /\ \A i \in 1..n : words[i] = body.words[delivered + i]
    BY <1>1, <1>3, <1>4, <2>1
  <2>3. PICK fed, parsed : fed = Feed(sse, words) /\ parsed = Parse(body.api, Gives(parser, llm), fed.events)
    OBVIOUS
  <2>4. /\ sse' = fed.p /\ parser' = parsed.p /\ llm' = parsed.events /\ delivered' = delivered + n /\ stream' = stream
    BY <1>1, <1>6, <2>1, <2>3 DEF Deliver
  <2>5. run[delivered + n].sse = fed.p /\ parsed = Gives(run[delivered + n].parser, run[delivered + n].llm)
    <3>1. PICK d : d = delivered
      OBVIOUS
    <3>2. Cut(body, run, l, d, n, words)
      BY <1>4, <2>2, <3>1 DEF Cut
    <3>3. LET f == Feed(run[d].sse, words)
          IN run[d + n].sse = f.p /\ Parse(body.api, Gives(run[d].parser, run[d].llm), f.events) = Gives(run[d + n].parser, run[d + n].llm)
      BY <3>2, ChunkIsWords
    <3> QED BY <1>4, <2>3, <3>1, <3>3
  <2>6. parsed.p = run[delivered + n].parser /\ parsed.events = run[delivered + n].llm
    BY <2>5, GivesIs
  <2>7. /\ body' \in Bodies /\ delivered' \in 0..Len(body'.words) /\ WordByWord(body', run, Len(body'.words))
        /\ stream' # "ended" /\ sse' = run[delivered'].sse /\ parser' = run[delivered'].parser /\ llm' = run[delivered'].llm
    BY <1>2, <1>3, <1>4, <2>2, <2>4, <2>5, <2>6
  <2> QED BY <2>7 DEF StreamInv
<1> QED BY <1>5, <1>6

LEMMA StreamStep ==
    ASSUME StreamInv, [LlmNext]_llmVars
    PROVE  StreamInv'
<1>1. ASSUME AnswerEnds PROVE StreamInv'
  <2>1. /\ stream = "open" /\ delivered = Len(body.words) /\ stream' = "ended" /\ body' = body /\ delivered' = delivered
        /\ llm' = Parse(body.api, Gives(parser, llm), Flush(sse).events).events
    BY <1>1 DEF AnswerEnds, Deliver
  <2>2. PICK run : /\ WordByWord(body, run, Len(body.words))
                   /\ sse = run[delivered].sse /\ parser = run[delivered].parser /\ llm = run[delivered].llm
    BY <2>1 DEF StreamInv
  <2>3. llm' = AtEnd(body, run[delivered])
    BY <2>1, <2>2 DEF AtEnd
  <2> QED BY <2>1, <2>2, <2>3 DEF StreamInv
<1>2. ASSUME AnswerDropped PROVE StreamInv'
  BY <1>2 DEF AnswerDropped, StreamInv
<1>3. ASSUME UNCHANGED llmVars PROVE StreamInv'
  BY <1>3 DEF llmVars, StreamInv
<1> QED BY <1>1, <1>2, <1>3, ChunkStep DEF LlmNext

\* What the proxy knows of an answer does not depend on where it was cut: at any
\* moment the state of both parsers and the events so far are those of the words
\* that arrived, read one at a time, for any bodies, documents and sizes of a chunk,
\* of a body and of the preview.
THEOREM CutsDoNotMatter == LlmSpec => []StreamInv
<1>1. StreamInv /\ [LlmNext]_llmVars => StreamInv'
  BY StreamStep
<1> QED BY <1>1, StreamInitially, PTL DEF LlmSpec

\* Bodies that are summarised right when their words arrive one at a time.
SaidWordByWord ==
    \A b \in Bodies : \A run : WordByWord(b, run, Len(b.words)) =>
        LET s == Summary(b, AtEnd(b, run[Len(b.words)]), Len(b.words))
        IN /\ \A n \in 0..Len(b.words) : SaidSoFar(b, Summary(b, run[n].llm, n))
           /\ s = b.said /\ SaidSoFar(b, s)

\* Such bodies are summarised right however they are cut into chunks, at any moment
\* and at their end.
THEOREM SummaryStaysExact == SaidWordByWord => (LlmSpec => []SummaryExact)
<1> SUFFICES ASSUME SaidWordByWord PROVE LlmSpec => []SummaryExact
  OBVIOUS
<1>1. StreamInv => SummaryExact
  <2> SUFFICES ASSUME StreamInv PROVE SummaryExact
    OBVIOUS
  <2>1. PICK run : /\ WordByWord(body, run, Len(body.words))
                   /\ IF stream = "ended" THEN delivered = Len(body.words) /\ llm = AtEnd(body, run[delivered])
                      ELSE llm = run[delivered].llm
    BY DEF StreamInv
  <2>2. PICK n \in 0..Len(body.words) : n = delivered
    BY DEF StreamInv
  <2>3. CASE stream = "ended"
    BY <2>1, <2>3, Zenon DEF SaidWordByWord, SummaryExact, StreamInv
  <2>4. CASE stream # "ended"
    BY <2>1, <2>2, <2>4, Zenon DEF SaidWordByWord, SummaryExact, StreamInv
  <2> QED BY <2>3, <2>4
<1> QED BY <1>1, CutsDoNotMatter, PTL
=============================================================================
