------------------------------ MODULE NetPolicy ------------------------------
(***************************************************************************)
(* The proxy's policy engine, the MCP gateway's, and the domain patterns   *)
(* they share.  A domain is the sequence of its labels, lower case; a      *)
(* pattern is a domain whose first label may be "*".                       *)
(***************************************************************************)
EXTENDS Naturals, Sequences, SequencesExt

------------------------------------------------------------------------------
(* Patterns.                                                               *)

Wild(p) == p # << >> /\ Head(p) = "*"

\* A wildcard takes subdomains, not the domain itself.
Matches(p, d) ==
    IF Wild(p) THEN Len(d) >= Len(p) /\ IsSuffix(Tail(p), d) ELSE d = p

\* corp_blocked_matches is given patterns as candidates, and a wildcard takes
\* its base domain too.
CorpBlockedMatches(c, blocked) ==
    \E p \in blocked : IF Wild(p) THEN IsSuffix(Tail(p), c) ELSE c = p

------------------------------------------------------------------------------
(* NetworkPolicy: rules in order, the first that matches decides.          *)

ReadMethods == {"GET", "HEAD", "OPTIONS"}

Rule(p, allowed) == [pat |-> p, read |-> allowed, write |-> allowed]

First(S) == CHOOSE i \in S : \A j \in S : i <= j

\* The rule that decides about d, or the default.
Deciding(policy, d) ==
    LET hits == {i \in DOMAIN policy.rules : Matches(policy.rules[i].pat, d)}
    IN IF hits = {} THEN [read |-> policy.default, write |-> policy.default]
       ELSE policy.rules[First(hits)]

Evaluate(policy, d, method) ==
    IF method \in ReadMethods THEN Deciding(policy, d).read ELSE Deciding(policy, d).write

IsFullyBlocked(policy, d) == ~Deciding(policy, d).read /\ ~Deciding(policy, d).write

------------------------------------------------------------------------------
(* DomainPolicy: the block list before the allow list.                     *)

EvaluateDomain(policy, d) ==
    /\ d # << >>
    /\ ~\E p \in policy.block : Matches(p, d)
    /\ (\E p \in policy.allow : Matches(p, d)) \/ policy.default

==============================================================================
