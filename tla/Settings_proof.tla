--------------------------- MODULE Settings_proof ---------------------------
(***************************************************************************)
(* The settings, proved for every registry, corp.toml and number of venvs  *)
(* and commands.                                                           *)
(***************************************************************************)
EXTENDS Settings, NaturalsInduction, WellFoundedInduction, SequenceTheorems, FiniteSetTheorems, TLAPS

------------------------------------------------------------------------------
(* Sequences of sequences.                                                 *)

\* The elements of two sequences that are joined.
LEMMA JoinRange ==
    ASSUME NEW T, NEW s \in Seq(T), NEW t \in Seq(T)
    PROVE  \A x : x \in Range(s \o t) <=> x \in Range(s) \/ x \in Range(t)
<1>1. s \o t \in Seq(T) /\ Len(s \o t) = Len(s) + Len(t) /\ DOMAIN (s \o t) = 1..(Len(s) + Len(t))
  OBVIOUS
<1>2. \A i \in 1..Len(s) : i \in DOMAIN (s \o t) /\ (s \o t)[i] = s[i]
  OBVIOUS
<1>3. \A i \in 1..Len(t) : Len(s) + i \in DOMAIN (s \o t) /\ (s \o t)[Len(s) + i] = t[i]
  OBVIOUS
<1>4. \A i \in DOMAIN (s \o t) : i \in 1..Len(s) \/ (i - Len(s) \in 1..Len(t) /\ (s \o t)[i] = t[i - Len(s)])
  OBVIOUS
<1>5. ASSUME NEW x, x \in Range(s \o t) PROVE x \in Range(s) \/ x \in Range(t)
  BY <1>4, <1>5 DEF Range
<1>6. ASSUME NEW x, x \in Range(s) PROVE x \in Range(s \o t)
  <2>1. PICK i \in 1..Len(s) : x = s[i]
    BY <1>6 DEF Range
  <2> QED BY <1>2, <2>1 DEF Range
<1>7. ASSUME NEW x, x \in Range(t) PROVE x \in Range(s \o t)
  <2>1. PICK i \in 1..Len(t) : x = t[i]
    BY <1>7 DEF Range
  <2>2. x = (s \o t)[Len(s) + i] /\ Len(s) + i \in DOMAIN (s \o t)
    BY <1>3, <2>1
  <2> HIDE DEF Range
  <2> QED BY <2>2, Zenon DEF Range
<1> QED BY <1>5, <1>6, <1>7

\* Flat is what flatten of FlattenSeq is for the first n sequences.
Flat(ss, f, n) == f = [i \in 1..n |-> IF i = 1 THEN ss[i] ELSE f[i - 1] \o ss[i]]

\* It exists: a number without one would have a predecessor without one.
LEMMA FlatExists ==
    ASSUME NEW ss, NEW m \in Nat
    PROVE  \E f : Flat(ss, f, m)
<1> DEFINE R == {p \in Nat \X Nat : p[1] < p[2]}
           Bad == {n \in Nat : \A f : ~Flat(ss, f, n)}
<1>1. Bad = {}
  <2> SUFFICES ASSUME Bad # {} PROVE FALSE
    OBVIOUS
  <2>1. IsWellFoundedOn(R, Nat)
    BY NatLessThanWellFounded, Zenon DEF OpToRel
  <2>2. PICK n \in Bad : \A m2 \in Bad : ~(<<m2, n>> \in R)
    BY <2>1, WFMin
  <2>3. CASE n = 0
    <3> DEFINE g == [i \in 1..0 |-> 0]
    <3>1. g = [i \in 1..0 |-> IF i = 1 THEN ss[i] ELSE g[i - 1] \o ss[i]]
      OBVIOUS
    <3>2. Flat(ss, g, 0)
      BY <3>1, Zenon DEF Flat
    <3> QED BY <2>2, <2>3, <3>2
  <2>4. CASE n # 0
    <3>0. n \in Nat /\ n - 1 \in Nat /\ <<n - 1, n>> \in R
      BY <2>4
    <3>1. n - 1 \notin Bad
      BY <2>2, <3>0, Zenon
    <3>2. PICK f : Flat(ss, f, n - 1)
      BY <3>0, <3>1
    <3> DEFINE g == [i \in 1..n |-> IF i = n THEN (IF n = 1 THEN ss[n] ELSE f[n - 1] \o ss[n]) ELSE f[i]]
    <3>3. ASSUME NEW i \in 1..n PROVE g[i] = IF i = 1 THEN ss[i] ELSE g[i - 1] \o ss[i]
      <4>1. CASE i = n
        BY <3>0, <4>1
      <4>2. CASE i # n
        <5>1. i \in 1..(n - 1) /\ g[i] = f[i]
          BY <3>0, <4>2
        <5>2. f[i] = IF i = 1 THEN ss[i] ELSE f[i - 1] \o ss[i]
          BY <3>2, <5>1 DEF Flat
        <5>3. i # 1 => i - 1 \in 1..n /\ i - 1 # n /\ g[i - 1] = f[i - 1]
          BY <3>0, <5>1
        <5> QED BY <5>1, <5>2, <5>3
      <4> QED BY <4>1, <4>2
    <3>4. Flat(ss, g, n)
      BY <3>3 DEF Flat
    <3> QED BY <2>2, <3>4
  <2> QED BY <2>3, <2>4
<1> QED BY <1>1

\* FlattenSeq is its value for all of them.
LEMMA FlattenIs ==
    ASSUME NEW ss, Len(ss) \in Nat, Len(ss) # 0
    PROVE  \E f : Flat(ss, f, Len(ss)) /\ FlattenSeq(ss) = f[Len(ss)]
<1> DEFINE g == CHOOSE f : Flat(ss, f, Len(ss))
<1>1. Flat(ss, g, Len(ss))
  BY FlatExists, Zenon
<1>2. g = CHOOSE f : f = [i \in 1..Len(ss) |-> IF i = 1 THEN ss[i] ELSE f[i - 1] \o ss[i]]
  BY Zenon DEF Flat
<1>3. FlattenSeq(ss) = g[Len(ss)]
  BY <1>2, Zenon DEF FlattenSeq
<1> QED BY <1>1, <1>3

\* The result holds the elements of the sequences and no others.
LEMMA FlattenFacts ==
    ASSUME NEW T, NEW ss \in Seq(Seq(T))
    PROVE  /\ FlattenSeq(ss) \in Seq(T)
           /\ \A x : x \in Range(FlattenSeq(ss)) <=> \E i \in 1..Len(ss) : x \in Range(ss[i])
<1>1. CASE Len(ss) = 0
  <2>1. ss = << >> /\ FlattenSeq(ss) = << >>
    BY <1>1 DEF FlattenSeq
  <2>2. \A x : x \notin Range(<< >>)
    BY DEF Range
  <2>3. \A x : ~\E i \in 1..Len(ss) : x \in Range(ss[i])
    BY <1>1
  <2>4. << >> \in Seq(T)
    OBVIOUS
  <2> QED BY <2>1, <2>2, <2>3, <2>4, Zenon
<1>2. CASE Len(ss) # 0
  <2>1. PICK f : Flat(ss, f, Len(ss)) /\ FlattenSeq(ss) = f[Len(ss)]
    BY <1>2, FlattenIs
  <2> DEFINE R == {p \in Nat \X Nat : p[1] < p[2]}
             Good(n) == /\ f[n] \in Seq(T)
                        /\ \A x : x \in Range(f[n]) <=> \E i \in 1..n : x \in Range(ss[i])
             Bad == {n \in 1..Len(ss) : ~Good(n)}
  <2>2. Bad = {}
    <3> SUFFICES ASSUME Bad # {} PROVE FALSE
      OBVIOUS
    <3>1. IsWellFoundedOn(R, Nat)
      BY NatLessThanWellFounded, Zenon DEF OpToRel
    <3>2. PICK n \in Bad : \A m \in Bad : ~(<<m, n>> \in R)
      <4>1. Bad \subseteq Nat
        OBVIOUS
      <4> HIDE DEF Bad, R
      <4> QED BY <3>1, <4>1, WFMin
    <3>3. n \in 1..Len(ss) /\ ~Good(n) /\ f[n] = IF n = 1 THEN ss[n] ELSE f[n - 1] \o ss[n]
      BY <2>1, <3>2 DEF Flat
    <3>4. CASE n = 1
      <4>1. f[n] = ss[n] /\ ss[n] \in Seq(T)
        BY <3>3, <3>4
      <4>2. \A x : x \in Range(f[n]) <=> \E i \in 1..n : x \in Range(ss[i])
        <5>1. 1..n = {n}
          BY <3>4
        <5> QED BY <4>1, <5>1, Zenon
      <4>3. Good(n)
        BY <4>1, <4>2, Zenon
      <4> QED BY <3>3, <4>3, Zenon
    <3>5. CASE n # 1
      <4>1. n - 1 \in 1..Len(ss) /\ <<n - 1, n>> \in R /\ n \in Nat
        BY <3>3, <3>5
      <4>2. Good(n - 1)
        <5>1. n - 1 \notin Bad
          <6> HIDE DEF Bad, R
          <6> QED BY <3>2, <4>1, Zenon
        <5> HIDE DEF Good
        <5> QED BY <4>1, <5>1
      <4>3. f[n] = f[n - 1] \o ss[n] /\ ss[n] \in Seq(T)
        <5>1. f[n] = f[n - 1] \o ss[n] /\ n \in 1..Len(ss)
          BY <3>3, <3>5, Zenon
        <5>2. \A i \in 1..Len(ss) : ss[i] \in Seq(T)
          OBVIOUS
        <5> QED BY <5>1, <5>2, Zenon
      <4>4. f[n] \in Seq(T)
        BY <4>2, <4>3
      <4>5. \A x : x \in Range(f[n]) <=> x \in Range(f[n - 1]) \/ x \in Range(ss[n])
        BY <4>2, <4>3, JoinRange
      <4>6. \A x : (\E i \in 1..n : x \in Range(ss[i])) <=> (\E i \in 1..(n - 1) : x \in Range(ss[i])) \/ x \in Range(ss[n])
        <5>1. 1..n = 1..(n - 1) \cup {n}
          BY <4>1
        <5> QED BY <5>1, Zenon
      <4>7. \A x : x \in Range(f[n]) <=> \E i \in 1..n : x \in Range(ss[i])
        BY <4>2, <4>5, <4>6, Zenon
      <4>8. Good(n)
        BY <4>4, <4>7, Zenon
      <4> QED BY <3>3, <4>8, Zenon
    <3> QED BY <3>4, <3>5, Zenon
  <2>3. Good(Len(ss))
    <3>1. Len(ss) \in 1..Len(ss)
      BY <1>2
    <3> HIDE DEF Good
    <3> QED BY <2>2, <3>1
  <2> QED BY <2>1, <2>3, Zenon
<1> QED BY <1>1, <1>2

------------------------------------------------------------------------------
(* The network policy, part by part.                                       *)

RulesOf(pats, allowed) == [i \in DOMAIN pats |-> Rule(pats[i], allowed)]

RegistryRules(R) ==
    FlattenSeq([i \in DOMAIN Order |->
        IF Order[i] \in Registries THEN RulesOf(Def(Order[i]).domains, AsBool(R[Order[i]].value)) ELSE << >>])

OffRules(R) ==
    FlattenSeq([i \in DOMAIN Order |->
        IF Order[i] \in OffProviders(R) THEN RulesOf(DefaultAndEffective(R, Order[i]), FALSE) ELSE << >>])

ProviderRules(R) ==
    FlattenSeq([i \in DOMAIN Order |->
        IF Order[i] \in Providers \ OffProviders(R)
        THEN [j \in DOMAIN AsList(R[Order[i]].value) |->
                 Rule(AsList(R[Order[i]].value)[j],
                      On(R, Order[i]) /\ ~CorpBlockedMatches(AsList(R[Order[i]].value)[j], CorpBlocked(R)))]
        ELSE << >>])

AllowRules(R) ==
    [j \in DOMAIN Custom(R, "custom_allow") |->
        Rule(Custom(R, "custom_allow")[j],
             ~CorpBlockedMatches(Custom(R, "custom_allow")[j], CorpBlocked(R) \cup Range(Custom(R, "custom_block"))))]
BlockRules(R) == RulesOf(Custom(R, "custom_block"), FALSE)

LEMMA NetworkPolicyIs ==
    ASSUME NEW R
    PROVE  NetworkPolicy(R) =
               [rules |-> RegistryRules(R) \o OffRules(R) \o ProviderRules(R) \o AllowRules(R) \o BlockRules(R),
                default |-> DefaultAllow(R)]
  BY Zenon DEF NetworkPolicy, InOrder, Each, RegistryRules, OffRules, ProviderRules, AllowRules, BlockRules, RulesOf

------------------------------------------------------------------------------
(* Lists and rules.                                                        *)

AnyRule == [pat : Pattern, read : BOOLEAN, write : BOOLEAN]

LEMMA WithoutFacts ==
    ASSUME NEW T, NEW seq \in Seq(T), NEW S
    PROVE  /\ Without(seq, S) \in Seq(T)
           /\ \A x : x \in Range(Without(seq, S)) <=> x \in Range(seq) /\ x \notin S
<1> DEFINE ss == [i \in DOMAIN seq |-> IF seq[i] \in S THEN << >> ELSE <<seq[i]>>]
<1>1. ss \in Seq(Seq(T)) /\ Len(ss) = Len(seq)
  <2>1. PICK n \in Nat : n = Len(seq)
    OBVIOUS
  <2>2. DOMAIN seq = 1..n /\ \A i \in 1..n : seq[i] \in T
    BY <2>1
  <2>3. \A e \in T : <<e>> \in Seq(T)
    OBVIOUS
  <2>4. << >> \in Seq(T)
    OBVIOUS
  <2>5. ss \in [1..n -> Seq(T)]
    BY <2>2, <2>3, <2>4, Zenon
  <2> HIDE DEF ss
  <2> QED BY <2>1, <2>5
<1>2. Without(seq, S) = FlattenSeq(ss)
  BY DEF Without
<1>3. \A i \in 1..Len(ss) : \A x : x \in Range(ss[i]) <=> x = seq[i] /\ x \notin S
  BY DEF Range
<1>4. \A x : x \in Range(seq) <=> \E i \in 1..Len(ss) : x = seq[i]
  <2>1. DOMAIN seq = 1..Len(ss)
    <3> HIDE DEF ss
    <3> QED BY <1>1
  <2> HIDE DEF ss
  <2> QED BY <2>1, Zenon DEF Range
<1> HIDE DEF ss
<1>5. FlattenSeq(ss) \in Seq(T) /\ \A x : x \in Range(FlattenSeq(ss)) <=> \E i \in 1..Len(ss) : x \in Range(ss[i])
  BY <1>1, FlattenFacts
<1>6. \A x : x \in Range(FlattenSeq(ss)) <=> \E i \in 1..Len(ss) : x = seq[i] /\ x \notin S
  BY ONLY <1>3, <1>5, Zenon
<1>7. \A x : x \in Range(FlattenSeq(ss)) <=> x \in Range(seq) /\ x \notin S
  BY ONLY <1>4, <1>6, Zenon
<1> QED BY ONLY <1>2, <1>5, <1>7, Zenon

LEMMA AsListType ==
    ASSUME NEW x, WellTyped(x)
    PROVE  AsList(x) \in Seq(Pattern)
<1>1. CASE x.t = "list"
  BY <1>1, WithoutFacts, Zenon DEF AsList, WellTyped
<1>2. CASE x.t # "list"
  <2>1. AsList(x) = << >>
    BY <1>2, Zenon DEF AsList
  <2> QED BY <2>1
<1> QED BY <1>1, <1>2

LEMMA DefaultAndEffectiveFacts ==
    ASSUME NEW R, NEW id, WellTyped(Def(id).default), WellTyped(R[id].value)
    PROVE  /\ DefaultAndEffective(R, id) \in Seq(Pattern)
           /\ Range(AsList(Def(id).default)) \subseteq Range(DefaultAndEffective(R, id))
<1>1. PICK d : d = AsList(Def(id).default)
  OBVIOUS
<1>2. PICK e : e = Without(AsList(R[id].value), Range(d))
  OBVIOUS
<1>3. d \in Seq(Pattern) /\ AsList(R[id].value) \in Seq(Pattern)
  BY <1>1, AsListType
<1>4. e \in Seq(Pattern)
  BY <1>2, <1>3, WithoutFacts
<1>5. DefaultAndEffective(R, id) = d \o e
  BY <1>1, <1>2, Zenon DEF DefaultAndEffective
<1>6. d \o e \in Seq(Pattern)
  BY <1>3, <1>4
<1>7. \A x : x \in Range(d \o e) <=> x \in Range(d) \/ x \in Range(e)
  BY <1>3, <1>4, JoinRange
<1> QED BY <1>1, <1>5, <1>6, <1>7, Zenon

LEMMA RulesOfType ==
    ASSUME NEW pats \in Seq(Pattern), NEW allowed \in BOOLEAN
    PROVE  /\ RulesOf(pats, allowed) \in Seq(AnyRule)
           /\ \A r : r \in Range(RulesOf(pats, allowed)) <=> \E p \in Range(pats) : r = Rule(p, allowed)
<1>1. \A i \in DOMAIN pats : Rule(pats[i], allowed) \in AnyRule
  BY DEF Rule, AnyRule
<1>2. RulesOf(pats, allowed) \in Seq(AnyRule)
  BY <1>1 DEF RulesOf
<1>3. DOMAIN RulesOf(pats, allowed) = DOMAIN pats /\ \A i \in DOMAIN pats : RulesOf(pats, allowed)[i] = Rule(pats[i], allowed)
  BY Zenon DEF RulesOf
<1>4. ASSUME NEW r PROVE r \in Range(RulesOf(pats, allowed)) <=> \E p \in Range(pats) : r = Rule(p, allowed)
  BY <1>3, Zenon DEF Range
<1> QED BY <1>2, <1>4

\* What the settings give, in the order of the registry.
LEMMA PartsFacts ==
    ASSUME NEW T, NEW f \in [DOMAIN Order -> Seq(T)]
    PROVE  /\ FlattenSeq(f) \in Seq(T)
           /\ \A x : x \in Range(FlattenSeq(f)) <=> \E i \in DOMAIN Order : x \in Range(f[i])
<1>1. PICK n \in Nat : DOMAIN Order = 1..n
  BY RegistryAssumption
<1>2. f \in Seq(Seq(T)) /\ Len(f) = n
  BY <1>1
<1> QED BY <1>1, <1>2, FlattenFacts, Zenon

LEMMA FirstIs ==
    ASSUME NEW S, S \subseteq Nat, S # {}
    PROVE  First(S) \in S /\ \A j \in S : First(S) <= j
<1> DEFINE R == {p \in Nat \X Nat : p[1] < p[2]}
<1>1. IsWellFoundedOn(R, Nat)
  BY NatLessThanWellFounded, Zenon DEF OpToRel
<1>2. PICK i \in S : \A j \in S : ~(<<j, i>> \in R)
  BY <1>1, WFMin
<1>3. ASSUME NEW j \in S PROVE i <= j
  <2>1. i \in Nat /\ j \in Nat
    OBVIOUS
  <2>2. ~(<<j, i>> \in R)
    BY <1>2, Zenon
  <2> QED BY <2>1, <2>2
<1> QED BY <1>3, Zenon DEF First

------------------------------------------------------------------------------
(* The block of the administrator.                                         *)

Sound(f) == \A id \in DOMAIN f : WellTyped(f[id])

\* The files of the user and the venv are arbitrary, the administrator's is c.
LEMMA ResolvedIs ==
    ASSUME NEW u, NEW w, NEW c, Sound(u), Sound(w), Sound(c), NEW id \in Range(Order)
    PROVE  LET R == Resolve(u, w, c)
           IN /\ id \in DOMAIN R /\ WellTyped(R[id].value) /\ R[id].locked = Stored(c, id)
              /\ Stored(c, id) => R[id].value = c[id]
<1> DEFINE R == Resolve(u, w, c)
<1>1. id \in DOMAIN R /\ R[id] = Resolved(u, w, c, id)
  BY DEF Resolve
<1>2. PICK x : x = ResolveValue(u, w, c, id)
  OBVIOUS
<1>3. R[id].value = x.value /\ R[id].locked = Stored(c, id)
  BY <1>1, <1>2 DEF Resolved
<1>4. WellTyped(x.value) /\ (Stored(c, id) => x.value = c[id])
  <2>1. CASE Stored(c, id)
    BY <1>2, <2>1 DEF ResolveValue, Sound, Stored
  <2>2. CASE ~Stored(c, id) /\ Stored(w, id)
    BY <1>2, <2>2 DEF ResolveValue, Sound, Stored
  <2>3. CASE ~Stored(c, id) /\ ~Stored(w, id) /\ Stored(u, id)
    BY <1>2, <2>3 DEF ResolveValue, Sound, Stored
  <2>4. CASE ~Stored(c, id) /\ ~Stored(w, id) /\ ~Stored(u, id)
    <3>1. x.value = Def(id).default
      BY <1>2, <2>4 DEF ResolveValue, Stored
    <3> QED BY <2>4, <3>1, RegistryAssumption
  <2> QED BY <2>1, <2>2, <2>3, <2>4
<1> HIDE DEF R
<1> QED BY <1>1, <1>3, <1>4 DEF R

\* What the policies are made of.
LEMMA PartsTyped ==
    ASSUME NEW R, \A id \in Range(Order) : WellTyped(R[id].value)
    PROVE  /\ RegistryRules(R) \in Seq(AnyRule) /\ OffRules(R) \in Seq(AnyRule) /\ ProviderRules(R) \in Seq(AnyRule)
           /\ AllowRules(R) \in Seq(AnyRule) /\ BlockRules(R) \in Seq(AnyRule)
           /\ \A r \in Range(RegistryRules(R)) : \E id \in Registries : r.pat \in Range(Def(id).domains)
           /\ \A r : r \in Range(OffRules(R)) <=>
                 \E id \in OffProviders(R) : \E p \in Range(DefaultAndEffective(R, id)) : r = Rule(p, FALSE)
<1>0. \A i \in DOMAIN Order : Order[i] \in Range(Order)
  BY DEF Range
<1>1. \A x : AsBool(x) \in BOOLEAN
  BY DEF AsBool
<1>2. \A pats \in Seq(Pattern) : \A i \in DOMAIN pats : pats[i] \in Pattern
  OBVIOUS
<1>3. /\ RegistryRules(R) \in Seq(AnyRule)
      /\ \A r \in Range(RegistryRules(R)) : \E id \in Registries : r.pat \in Range(Def(id).domains)
  <2> DEFINE f == [i \in DOMAIN Order |->
                     IF Order[i] \in Registries THEN RulesOf(Def(Order[i]).domains, AsBool(R[Order[i]].value)) ELSE << >>]
  <2>1. \A i \in DOMAIN Order : Def(Order[i]).domains \in Seq(Pattern)
    BY <1>0, RegistryAssumption
  <2>2. \A i \in DOMAIN Order : RulesOf(Def(Order[i]).domains, AsBool(R[Order[i]].value)) \in Seq(AnyRule)
    BY <1>1, <2>1, RulesOfType, Zenon
  <2>3. << >> \in Seq(AnyRule) /\ \A r : r \notin Range(<< >>)
    BY DEF Range
  <2>4. f \in [DOMAIN Order -> Seq(AnyRule)]
    BY <2>2, <2>3, Zenon
  <2>5. RegistryRules(R) = FlattenSeq(f)
    BY Zenon DEF RegistryRules
  <2>6. ASSUME NEW r, NEW i \in DOMAIN Order, r \in Range(f[i]) PROVE \E id \in Registries : r.pat \in Range(Def(id).domains)
    <3>1. Order[i] \in Registries /\ r \in Range(RulesOf(Def(Order[i]).domains, AsBool(R[Order[i]].value)))
      BY <2>3, <2>6, Zenon
    <3>2. PICK p \in Range(Def(Order[i]).domains) : r = Rule(p, AsBool(R[Order[i]].value))
      <4>1. PICK pats \in Seq(Pattern), b \in BOOLEAN : pats = Def(Order[i]).domains /\ b = AsBool(R[Order[i]].value)
        BY <1>1, <2>1
      <4>2. r \in Range(RulesOf(pats, b)) <=> \E p \in Range(pats) : r = Rule(p, b)
        BY RulesOfType
      <4> QED BY <3>1, <4>1, <4>2
    <3>3. r.pat = p
      BY <3>2 DEF Rule
    <3> QED BY <3>1, <3>2, <3>3
  <2> HIDE DEF f
  <2> QED BY <2>4, <2>5, <2>6, PartsFacts, Zenon
<1>4. /\ OffRules(R) \in Seq(AnyRule)
      /\ \A r : r \in Range(OffRules(R)) <=>
            \E id \in OffProviders(R) : \E p \in Range(DefaultAndEffective(R, id)) : r = Rule(p, FALSE)
  <2> DEFINE f == [i \in DOMAIN Order |->
                     IF Order[i] \in OffProviders(R) THEN RulesOf(DefaultAndEffective(R, Order[i]), FALSE) ELSE << >>]
  <2>1. \A i \in DOMAIN Order : DefaultAndEffective(R, Order[i]) \in Seq(Pattern)
    <3>1. \A i \in DOMAIN Order : WellTyped(Def(Order[i]).default) /\ WellTyped(R[Order[i]].value)
      BY <1>0, RegistryAssumption, Zenon
    <3> QED BY <3>1, DefaultAndEffectiveFacts, Zenon
  <2>2. \A i \in DOMAIN Order : RulesOf(DefaultAndEffective(R, Order[i]), FALSE) \in Seq(AnyRule)
    BY <2>1, RulesOfType
  <2>3. << >> \in Seq(AnyRule) /\ \A r : r \notin Range(<< >>)
    BY DEF Range
  <2>4. f \in [DOMAIN Order -> Seq(AnyRule)]
    BY <2>2, <2>3, Zenon
  <2>5. OffRules(R) = FlattenSeq(f)
    BY Zenon DEF OffRules
  <2>6. \A id \in OffProviders(R) : \E i \in DOMAIN Order : Order[i] = id
    BY DEF OffProviders, Providers, Range
  <2>7. ASSUME NEW r
        PROVE  (\E i \in DOMAIN Order : r \in Range(f[i])) <=>
               \E id \in OffProviders(R) : \E p \in Range(DefaultAndEffective(R, id)) : r = Rule(p, FALSE)
    <3>1. \A i \in DOMAIN Order : r \in Range(f[i]) <=> Order[i] \in OffProviders(R) /\ r \in Range(RulesOf(DefaultAndEffective(R, Order[i]), FALSE))
      BY <2>3, Zenon
    <3>2. ASSUME NEW pats \in Seq(Pattern)
          PROVE  r \in Range(RulesOf(pats, FALSE)) <=> \E p \in Range(pats) : r = Rule(p, FALSE)
      <4>1. PICK no \in BOOLEAN : no = FALSE
        OBVIOUS
      <4>2. r \in Range(RulesOf(pats, no)) <=> \E p \in Range(pats) : r = Rule(p, no)
        BY ONLY pats \in Seq(Pattern), no \in BOOLEAN, RulesOfType
      <4> QED BY ONLY <4>1, <4>2, Zenon
    <3>3. ASSUME NEW i \in DOMAIN Order
          PROVE  r \in Range(RulesOf(DefaultAndEffective(R, Order[i]), FALSE)) <=>
                     \E p \in Range(DefaultAndEffective(R, Order[i])) : r = Rule(p, FALSE)
      <4>1. PICK pats \in Seq(Pattern) : pats = DefaultAndEffective(R, Order[i])
        BY <2>1
      <4>2. r \in Range(RulesOf(pats, FALSE)) <=> \E p \in Range(pats) : r = Rule(p, FALSE)
        BY <3>2, Zenon
      <4> QED BY <4>1, <4>2
    <3> QED BY <2>6, <3>1, <3>3, Zenon
  <2> HIDE DEF f
  <2> QED BY <2>4, <2>5, <2>7, PartsFacts, Zenon
<1>5. ProviderRules(R) \in Seq(AnyRule)
  <2> DEFINE Allowed(i, p) == On(R, Order[i]) /\ ~CorpBlockedMatches(p, CorpBlocked(R))
             g(i) == [j \in DOMAIN AsList(R[Order[i]].value) |->
                         Rule(AsList(R[Order[i]].value)[j], Allowed(i, AsList(R[Order[i]].value)[j]))]
             f == [i \in DOMAIN Order |-> IF Order[i] \in Providers \ OffProviders(R) THEN g(i) ELSE << >>]
  <2>1. \A i \in DOMAIN Order : AsList(R[Order[i]].value) \in Seq(Pattern)
    BY <1>0, AsListType
  <2>2. \A p \in Pattern : \A b \in BOOLEAN : Rule(p, b) \in AnyRule
    BY DEF Rule, AnyRule
  <2>3. \A i, p : Allowed(i, p) \in BOOLEAN
    BY DEF On
  <2>4. ASSUME NEW i \in DOMAIN Order PROVE g(i) \in Seq(AnyRule)
    <3>1. PICK l \in Seq(Pattern) : l = AsList(R[Order[i]].value)
      BY <2>1
    <3>2. \A j \in DOMAIN l : Rule(l[j], Allowed(i, l[j])) \in AnyRule
      BY <1>2, <2>2, <2>3, Zenon
    <3>3. PICK n \in Nat : DOMAIN l = 1..n
      BY <3>1
    <3>4. g(i) \in [1..n -> AnyRule]
      BY <3>1, <3>2, <3>3, Zenon
    <3> HIDE DEF g
    <3> QED BY <3>4
  <2>5. << >> \in Seq(AnyRule)
    OBVIOUS
  <2>6. ProviderRules(R) = FlattenSeq(f)
    BY Zenon DEF ProviderRules
  <2>7. f \in [DOMAIN Order -> Seq(AnyRule)]
    <3> HIDE DEF g
    <3> QED BY <2>4, <2>5, Zenon
  <2> HIDE DEF f
  <2> QED BY <2>6, <2>7, PartsFacts, Zenon
<1>6. Custom(R, "custom_allow") \in Seq(Pattern) /\ Custom(R, "custom_block") \in Seq(Pattern)
  BY AsListType, RegistryAssumption DEF Custom
<1>7. AllowRules(R) \in Seq(AnyRule)
  <2>1. PICK l \in Seq(Pattern) : l = Custom(R, "custom_allow")
    BY <1>6
  <2> DEFINE Allowed(p) == ~CorpBlockedMatches(p, CorpBlocked(R) \cup Range(Custom(R, "custom_block")))
  <2>2. \A p \in Pattern : \A b \in BOOLEAN : Rule(p, b) \in AnyRule
    BY DEF Rule, AnyRule
  <2>3. \A p : Allowed(p) \in BOOLEAN
    OBVIOUS
  <2>4. \A j \in DOMAIN l : Rule(l[j], Allowed(l[j])) \in AnyRule
    BY <1>2, <2>2, <2>3, Zenon
  <2>5. PICK n \in Nat : DOMAIN l = 1..n
    BY <2>1
  <2>6. AllowRules(R) \in [1..n -> AnyRule]
    BY <2>1, <2>4, <2>5, Zenon DEF AllowRules
  <2> QED BY <2>6
<1>8. BlockRules(R) \in Seq(AnyRule)
  BY <1>6, RulesOfType DEF BlockRules
<1> QED BY <1>3, <1>4, <1>5, <1>7, <1>8

\* A rule that only others block and no earlier one takes decides to block.
LEMMA BlockedByRules ==
    ASSUME NEW a \in Seq(AnyRule), NEW b \in Seq(AnyRule), NEW c \in Seq(AnyRule), NEW n, n.rules = (a \o b) \o c, NEW d,
           \A r \in Range(a) : ~Matches(r.pat, d),
           \A r \in Range(b) : ~r.read /\ ~r.write,
           \E r \in Range(b) : Matches(r.pat, d)
    PROVE  IsFullyBlocked(n, d)
<1> DEFINE rules == (a \o b) \o c
           hits == {i \in DOMAIN n.rules : Matches(n.rules[i].pat, d)}
<1>1. PICK la \in Nat, lb \in Nat, lc \in Nat : la = Len(a) /\ lb = Len(b) /\ lc = Len(c)
  OBVIOUS
<1>2. /\ rules \in Seq(AnyRule) /\ DOMAIN rules = 1..(la + lb + lc)
      /\ \A i \in 1..la : rules[i] = a[i]
      /\ \A i \in 1..lb : rules[la + i] = b[i]
  BY <1>1
<1>3. \A i \in 1..la : a[i] \in Range(a)
  <2>1. DOMAIN a = 1..la
    BY <1>1
  <2> QED BY <2>1, Zenon DEF Range
<1>4. \A i \in 1..lb : b[i] \in Range(b)
  <2>1. DOMAIN b = 1..lb
    BY <1>1
  <2> QED BY <2>1, Zenon DEF Range
<1>5. PICK j \in 1..lb : Matches(b[j].pat, d)
  BY <1>1 DEF Range
<1> HIDE DEF rules
<1>6. n.rules = rules
  BY DEF rules
<1>7. la + j \in hits /\ hits \subseteq Nat /\ la + j <= la + lb
  BY <1>2, <1>5, <1>6
<1>8. PICK k : k = First(hits)
  OBVIOUS
<1>9. k \in hits /\ k <= la + j
  BY <1>7, <1>8, FirstIs
<1>10. k \in 1..(la + lb) /\ k \notin 1..la
  <2>1. k \in 1..(la + lb)
    BY <1>2, <1>6, <1>7, <1>9
  <2>2. ASSUME k \in 1..la PROVE FALSE
    BY <1>2, <1>3, <1>6, <1>9, <2>2
  <2> QED BY <2>1, <2>2
<1>11. k - la \in 1..lb /\ n.rules[k] = b[k - la]
  <2>1. k - la \in 1..lb /\ la + (k - la) = k
    BY <1>10
  <2> QED BY <1>2, <1>6, <2>1
<1>12. ~n.rules[k].read /\ ~n.rules[k].write
  BY <1>4, <1>11
<1>13. Deciding(n, d) = n.rules[k]
  BY <1>8, <1>9, Zenon DEF Deciding
<1> QED BY <1>12, <1>13 DEF IsFullyBlocked

\* A sequence is a suffix of the one with an element more in front.
LEMMA TailIsSuffix ==
    ASSUME NEW T, NEW t \in Seq(T), NEW x \in T
    PROVE  IsSuffix(t, <<x>> \o t) /\ Len(<<x>> \o t) = Len(t) + 1
<1>1. PICK n \in Nat : n = Len(t)
  OBVIOUS
<1>2. PICK d : d = <<x>> \o t
  OBVIOUS
<1>3. d \in Seq(T) /\ Len(d) = n + 1 /\ \A i \in 1..n : d[i + 1] = t[i]
  BY <1>1, <1>2
<1>4. PICK rt : rt = Reverse(t)
  OBVIOUS
<1>5. rt = [i \in 1..n |-> t[(n - i) + 1]]
  BY <1>1, <1>4 DEF Reverse
<1>6. PICK rd : rd = Reverse(d)
  OBVIOUS
<1>7. rd = [i \in 1..(n + 1) |-> d[((n + 1) - i) + 1]]
  BY <1>3, <1>6 DEF Reverse
<1>8. \A i \in 1..n : rt[i] = rd[i]
  <2> SUFFICES ASSUME NEW i \in 1..n PROVE rt[i] = rd[i]
    OBVIOUS
  <2>1. (n - i) + 1 \in 1..n /\ ((n + 1) - i) + 1 = ((n - i) + 1) + 1 /\ i \in 1..(n + 1)
    OBVIOUS
  <2>2. rt[i] = t[(n - i) + 1]
    BY <1>5
  <2>3. rd[i] = d[((n - i) + 1) + 1]
    BY <1>7, <2>1
  <2> QED BY <1>3, <2>1, <2>2, <2>3
<1>9. rt \in Seq(T) /\ Len(rt) = n
  <2>1. rt \in [1..n -> T]
    <3>1. \A i \in 1..n : (n - i) + 1 \in 1..n
      OBVIOUS
    <3>2. \A i \in 1..n : t[i] \in T
      BY <1>1
    <3> QED BY <1>5, <3>1, <3>2
  <2> QED BY <2>1
<1>10. rd \in Seq(T) /\ Len(rd) = n + 1
  <2>1. rd \in [1..(n + 1) -> T]
    <3>1. \A i \in 1..(n + 1) : ((n + 1) - i) + 1 \in 1..(n + 1)
      OBVIOUS
    <3>2. \A i \in 1..(n + 1) : d[i] \in T
      BY <1>3
    <3> QED BY <1>7, <3>1, <3>2
  <2> QED BY <2>1
<1>11. SubSeq(rt, 1, n) = SubSeq(rd, 1, n)
  BY <1>8, <1>9, <1>10
<1>12. IsPrefix(rt, rd)
  BY <1>9, <1>10, <1>11 DEF IsPrefix
<1>13. IsSuffix(t, d)
  BY <1>4, <1>6, <1>12, Zenon DEF IsSuffix
<1> QED BY <1>1, <1>2, <1>3, <1>13, Zenon

\* What a sequence is of may be a wider set.
LEMMA SeqWider ==
    ASSUME NEW S, NEW T, NEW t \in Seq(S)
    PROVE  t \in Seq(S \cup T)
<1>1. PICK n \in Nat : n = Len(t)
  OBVIOUS
<1>2. t \in [1..n -> S]
  BY <1>1
<1>3. t \in [1..n -> S \cup T]
  BY <1>2
<1> QED BY <1>1, <1>3

\* A pattern takes the domain that stands for it.
LEMMA SampleMatches ==
    ASSUME NEW p \in Pattern
    PROVE  Matches(p, Sample(p))
<1>1. CASE ~Wild(p)
  BY <1>1 DEF Matches, Sample
<1>2. CASE Wild(p)
  <2>1. p \in Seq(STRING) /\ p # << >>
    BY <1>2 DEF Wild, Pattern
  <2>2. Tail(p) \in Seq(STRING) /\ Len(Tail(p)) + 1 = Len(p) /\ Len(p) \in Nat
    BY <2>1, HeadTailProperties
  <2>3. IsSuffix(Tail(p), <<"x">> \o Tail(p)) /\ Len(<<"x">> \o Tail(p)) = Len(Tail(p)) + 1
    <3>1. PICK S : S = STRING
      OBVIOUS
    <3>2. PICK t \in Seq(S) : t = Tail(p)
      BY <2>2, <3>1
    <3>3. t \in Seq(S \cup {"x"})
      BY <3>2, SeqWider
    <3>4. PICK x \in S \cup {"x"} : x = "x"
      OBVIOUS
    <3>5. IsSuffix(t, <<x>> \o t) /\ Len(<<x>> \o t) = Len(t) + 1
      BY <3>3, TailIsSuffix, Zenon
    <3> QED BY <3>2, <3>4, <3>5, Zenon
  <2> QED BY <1>2, <2>2, <2>3 DEF Matches, Sample
<1> QED BY <1>1, <1>2

\* A policy that refuses the defaults of a provider that corp.toml, which is c,
\* switched off: the proxy's and the gateway's.
NetBlocks(net, c) ==
    \A id \in Providers : Stored(c, Toggle(id)) /\ ~AsBool(c[Toggle(id)]) =>
        \A p \in Range(AsList(Def(id).default)) : IsFullyBlocked(net, Sample(p))
DomBlocks(dom, c) ==
    \A id \in Providers : Stored(c, Toggle(id)) /\ ~AsBool(c[Toggle(id)]) =>
        \A p \in Range(AsList(Def(id).default)) : EvaluateDomain(dom, Sample(p)) => dom.allow = {}

\* Whatever the other files hold, the policies that are built do.
LEMMA CorpBlocks ==
    ASSUME NEW u, NEW w, NEW c, Sound(u), Sound(w), Sound(c)
    PROVE  NetBlocks(NetworkPolicy(Resolve(u, w, c)), c) /\ DomBlocks(DomainPolicy(Resolve(u, w, c)), c)
<1> SUFFICES ASSUME NEW id \in Providers, Stored(c, Toggle(id)), ~AsBool(c[Toggle(id)]),
                    NEW p \in Range(AsList(Def(id).default))
             PROVE  /\ IsFullyBlocked(NetworkPolicy(Resolve(u, w, c)), Sample(p))
                    /\ EvaluateDomain(DomainPolicy(Resolve(u, w, c)), Sample(p)) => DomainPolicy(Resolve(u, w, c)).allow = {}
  BY Zenon DEF NetBlocks, DomBlocks
<1>1. PICK R : R = Resolve(u, w, c)
  OBVIOUS
<1>2. id \in Range(Order) /\ Toggle(id) \in Range(Order) /\ WellTyped(Def(id).default)
  BY RegistryAssumption DEF Providers
<1>3. /\ \A q \in Range(Order) : q \in DOMAIN R /\ WellTyped(R[q].value) /\ R[q].locked = Stored(c, q)
      /\ R[Toggle(id)].value = c[Toggle(id)]
  BY <1>1, <1>2, ResolvedIs
<1>4. id \in OffProviders(R)
  BY <1>2, <1>3 DEF OffProviders, LockedOff
<1>5. p \in Range(DefaultAndEffective(R, id))
  BY <1>2, <1>3, DefaultAndEffectiveFacts
<1>6. p \in Pattern /\ Matches(p, Sample(p))
  <2>1. AsList(Def(id).default) \in Seq(Pattern)
    BY <1>2, AsListType
  <2>2. p \in Pattern
    BY <2>1 DEF Range
  <2> QED BY <2>2, SampleMatches
<1>7. IsFullyBlocked(NetworkPolicy(R), Sample(p))
  <2>1. PICK a \in Seq(AnyRule), b \in Seq(AnyRule), e \in Seq(AnyRule), f \in Seq(AnyRule), g \in Seq(AnyRule) :
            a = RegistryRules(R) /\ b = OffRules(R) /\ e = ProviderRules(R) /\ f = AllowRules(R) /\ g = BlockRules(R)
    BY <1>3, PartsTyped
  <2>2. PICK z \in Seq(AnyRule) : NetworkPolicy(R).rules = (a \o b) \o z
    <3>1. PICK h : h = a \o b
      OBVIOUS
    <3>2. PICK k : k = e \o f
      OBVIOUS
    <3> h \in Seq(AnyRule) /\ k \in Seq(AnyRule)
      BY <3>1, <3>2
    <3>3. NetworkPolicy(R).rules = ((h \o e) \o f) \o g
      BY <2>1, <3>1, NetworkPolicyIs, Zenon
    <3>4. (h \o e) \o f = h \o (e \o f)
      OBVIOUS
    <3>5. (h \o k) \o g = h \o (k \o g) /\ k \o g \in Seq(AnyRule)
      OBVIOUS
    <3>6. NetworkPolicy(R).rules = (a \o b) \o (k \o g)
      BY <3>1, <3>2, <3>3, <3>4, <3>5, Zenon
    <3> QED BY <3>5, <3>6, Zenon
  <2>3. \A r \in Range(a) : ~Matches(r.pat, Sample(p))
    BY <1>3, <2>1, PartsTyped, RegistryAssumption
  <2>4. \A r \in Range(b) : ~r.read /\ ~r.write
    <3>1. \A r \in Range(b) : \E q : r = Rule(q, FALSE)
      BY <1>3, <2>1, PartsTyped
    <3>2. \A q : ~Rule(q, FALSE).read /\ ~Rule(q, FALSE).write
      BY DEF Rule
    <3> QED BY ONLY <3>1, <3>2, Zenon
  <2>5. \E r \in Range(b) : Matches(r.pat, Sample(p))
    <3>1. Rule(p, FALSE) \in Range(b)
      BY <1>3, <1>4, <1>5, <2>1, PartsTyped
    <3>2. Rule(p, FALSE).pat = p
      BY DEF Rule
    <3> QED BY <1>6, <3>1, <3>2, Zenon
  <2> QED BY <2>2, <2>3, <2>4, <2>5, BlockedByRules
<1>8. EvaluateDomain(DomainPolicy(R), Sample(p)) => DomainPolicy(R).allow = {}
  <2>1. p \in CorpBlocked(R)
    BY <1>4, <1>5 DEF CorpBlocked, OffProviders
  <2>2. CASE AllowAll(R)
    BY <2>2 DEF DomainPolicy, Everything
  <2>3. CASE ~AllowAll(R)
    <3>1. CorpBlocked(R) \subseteq DomainPolicy(R).block
      BY <2>3 DEF DomainPolicy, BlockList
    <3> QED BY <1>6, <2>1, <3>1 DEF EvaluateDomain
  <2> QED BY <2>2, <2>3
<1> QED BY <1>1, <1>7, <1>8

\* What each part of the policy holds.
Contents(R) ==
    /\ \A r : r \in Range(RegistryRules(R)) <=>
          \E id \in Registries : \E p \in Range(Def(id).domains) : r = Rule(p, AsBool(R[id].value))
    /\ \A r : r \in Range(ProviderRules(R)) <=>
          \E id \in Providers \ OffProviders(R) : \E p \in Range(AsList(R[id].value)) :
              r = Rule(p, On(R, id) /\ ~CorpBlockedMatches(p, CorpBlocked(R)))
    /\ \A r : r \in Range(AllowRules(R)) <=>
          \E p \in Range(Custom(R, "custom_allow")) :
              r = Rule(p, ~CorpBlockedMatches(p, CorpBlocked(R) \cup Range(Custom(R, "custom_block"))))
    /\ \A r : r \in Range(BlockRules(R)) <=> \E p \in Range(Custom(R, "custom_block")) : r = Rule(p, FALSE)

LEMMA RulesFrom ==
    ASSUME NEW R, \A id \in Range(Order) : WellTyped(R[id].value)
    PROVE  Contents(R)
<1>0. (\A i \in DOMAIN Order : Order[i] \in Range(Order)) /\ \A id \in Range(Order) : \E i \in DOMAIN Order : Order[i] = id
  BY DEF Range
<1>1. \A x : AsBool(x) \in BOOLEAN
  BY DEF AsBool
<1>2. << >> \in Seq(AnyRule) /\ \A r : r \notin Range(<< >>)
  BY DEF Range
<1>3. ASSUME NEW pats, NEW allowed
      PROVE  \A r : r \in Range(RulesOf(pats, allowed)) <=> \E p \in Range(pats) : r = Rule(p, allowed)
  <2>1. DOMAIN RulesOf(pats, allowed) = DOMAIN pats /\ \A i \in DOMAIN pats : RulesOf(pats, allowed)[i] = Rule(pats[i], allowed)
    BY Zenon DEF RulesOf
  <2> QED BY <2>1, Zenon DEF Range
<1>4. ASSUME NEW r
      PROVE  r \in Range(RegistryRules(R)) <=>
                 \E id \in Registries : \E p \in Range(Def(id).domains) : r = Rule(p, AsBool(R[id].value))
  <2> DEFINE f == [i \in DOMAIN Order |->
                     IF Order[i] \in Registries THEN RulesOf(Def(Order[i]).domains, AsBool(R[Order[i]].value)) ELSE << >>]
  <2>1. \A i \in DOMAIN Order : RulesOf(Def(Order[i]).domains, AsBool(R[Order[i]].value)) \in Seq(AnyRule)
    BY <1>0, <1>1, RegistryAssumption, RulesOfType, Zenon
  <2>2. f \in [DOMAIN Order -> Seq(AnyRule)]
    BY <1>2, <2>1, Zenon
  <2>3. RegistryRules(R) = FlattenSeq(f)
    BY Zenon DEF RegistryRules
  <2>4. \A i \in DOMAIN Order : r \in Range(f[i]) <=>
            Order[i] \in Registries /\ r \in Range(RulesOf(Def(Order[i]).domains, AsBool(R[Order[i]].value)))
    BY <1>2, Zenon
  <2>5. \A id \in Registries : id \in Range(Order)
    BY DEF Registries
  <2> HIDE DEF f
  <2>6. r \in Range(RegistryRules(R)) <=> \E i \in DOMAIN Order : r \in Range(f[i])
    BY <2>2, <2>3, PartsFacts, Zenon
  <2> DEFINE Gives(id) == \E p \in Range(Def(id).domains) : r = Rule(p, AsBool(R[id].value))
  <2>7. \A id : r \in Range(RulesOf(Def(id).domains, AsBool(R[id].value))) <=> Gives(id)
    BY <1>3, Zenon
  <2> HIDE DEF Gives
  <2>8. r \in Range(RegistryRules(R)) <=> \E id \in Registries : Gives(id)
    BY ONLY <1>0, <2>4, <2>5, <2>6, <2>7, Zenon
  <2> QED BY <2>8, Zenon DEF Gives
<1>5. ASSUME NEW r
      PROVE  r \in Range(ProviderRules(R)) <=>
                 \E id \in Providers \ OffProviders(R) : \E p \in Range(AsList(R[id].value)) :
                     r = Rule(p, On(R, id) /\ ~CorpBlockedMatches(p, CorpBlocked(R)))
  <2> DEFINE Allowed(id, p) == On(R, id) /\ ~CorpBlockedMatches(p, CorpBlocked(R))
             g(id) == [j \in DOMAIN AsList(R[id].value) |->
                         Rule(AsList(R[id].value)[j], Allowed(id, AsList(R[id].value)[j]))]
             f == [i \in DOMAIN Order |-> IF Order[i] \in Providers \ OffProviders(R) THEN g(Order[i]) ELSE << >>]
  <2>1. \A i \in DOMAIN Order : AsList(R[Order[i]].value) \in Seq(Pattern)
    BY <1>0, AsListType
  <2>2. \A p \in Pattern : \A b \in BOOLEAN : Rule(p, b) \in AnyRule
    BY DEF Rule, AnyRule
  <2>3. \A id, p : Allowed(id, p) \in BOOLEAN
    BY DEF On
  <2>4. ASSUME NEW i \in DOMAIN Order PROVE g(Order[i]) \in Seq(AnyRule)
    <3>1. PICK l \in Seq(Pattern) : l = AsList(R[Order[i]].value)
      BY <2>1
    <3>2. \A j \in DOMAIN l : l[j] \in Pattern
      BY <3>1
    <3>3. \A j \in DOMAIN l : Rule(l[j], Allowed(Order[i], l[j])) \in AnyRule
      BY <2>2, <2>3, <3>2, Zenon
    <3>4. PICK n \in Nat : DOMAIN l = 1..n
      BY <3>1
    <3>5. g(Order[i]) \in [1..n -> AnyRule]
      BY <3>1, <3>3, <3>4, Zenon
    <3> HIDE DEF g
    <3> QED BY <3>5
  <2>5. ASSUME NEW id
        PROVE  r \in Range(g(id)) <=> \E p \in Range(AsList(R[id].value)) : r = Rule(p, Allowed(id, p))
    <3>1. PICK l : l = AsList(R[id].value)
      OBVIOUS
    <3>2. DOMAIN g(id) = DOMAIN l /\ \A j \in DOMAIN l : g(id)[j] = Rule(l[j], Allowed(id, l[j]))
      BY <3>1, Zenon
    <3> HIDE DEF g, Allowed
    <3> QED BY <3>1, <3>2, Zenon DEF Range
  <2>6. \A i \in DOMAIN Order : r \in Range(f[i]) <=> Order[i] \in Providers \ OffProviders(R) /\ r \in Range(g(Order[i]))
    <3> HIDE DEF g
    <3> QED BY <1>2, Zenon
  <2>7. f \in [DOMAIN Order -> Seq(AnyRule)]
    <3> HIDE DEF g
    <3> QED BY <1>2, <2>4, Zenon
  <2>8. ProviderRules(R) = FlattenSeq(f)
    BY Zenon DEF ProviderRules
  <2>9. \A id \in Providers : id \in Range(Order)
    BY DEF Providers
  <2> HIDE DEF f, g, Allowed
  <2>10. r \in Range(ProviderRules(R)) <=> \E i \in DOMAIN Order : r \in Range(f[i])
    BY <2>7, <2>8, PartsFacts, Zenon
  <2> DEFINE Gives(id) == \E p \in Range(AsList(R[id].value)) : r = Rule(p, Allowed(id, p))
  <2>11. \A id : r \in Range(g(id)) <=> Gives(id)
    BY <2>5, Zenon
  <2> HIDE DEF Gives
  <2>12. r \in Range(ProviderRules(R)) <=> \E id \in Providers \ OffProviders(R) : Gives(id)
    BY ONLY <1>0, <2>6, <2>9, <2>10, <2>11, Zenon
  <2> QED BY <2>12, Zenon DEF Gives, Allowed
<1>6. ASSUME NEW r
      PROVE  r \in Range(AllowRules(R)) <=>
                 \E p \in Range(Custom(R, "custom_allow")) :
                     r = Rule(p, ~CorpBlockedMatches(p, CorpBlocked(R) \cup Range(Custom(R, "custom_block"))))
  <2>1. PICK l : l = Custom(R, "custom_allow")
    OBVIOUS
  <2> DEFINE Allowed(p) == ~CorpBlockedMatches(p, CorpBlocked(R) \cup Range(Custom(R, "custom_block")))
  <2>2. DOMAIN AllowRules(R) = DOMAIN l /\ \A j \in DOMAIN l : AllowRules(R)[j] = Rule(l[j], Allowed(l[j]))
    BY <2>1, Zenon DEF AllowRules
  <2> HIDE DEF Allowed
  <2>3. r \in Range(AllowRules(R)) <=> \E p \in Range(l) : r = Rule(p, Allowed(p))
    BY <2>2, Zenon DEF Range
  <2> QED BY <2>1, <2>3, Zenon DEF Allowed
<1>7. \A r : r \in Range(BlockRules(R)) <=> \E p \in Range(Custom(R, "custom_block")) : r = Rule(p, FALSE)
  BY <1>3, Zenon DEF BlockRules
<1> QED BY <1>4, <1>5, <1>6, <1>7, Zenon DEF Contents

\* The elements of the five parts, joined as the policy joins them.
LEMMA FiveParts ==
    ASSUME NEW T, NEW a \in Seq(T), NEW b \in Seq(T), NEW e \in Seq(T), NEW f \in Seq(T), NEW g \in Seq(T)
    PROVE  /\ a \o b \o e \o f \o g \in Seq(T)
           /\ \A x : x \in Range(a \o b \o e \o f \o g) <=>
                 x \in Range(a) \/ x \in Range(b) \/ x \in Range(e) \/ x \in Range(f) \/ x \in Range(g)
<1>1. PICK ab : ab = a \o b
  OBVIOUS
<1>2. PICK abe : abe = ab \o e
  OBVIOUS
<1>3. PICK abef : abef = abe \o f
  OBVIOUS
<1>4. ab \in Seq(T)
  BY <1>1
<1>5. abe \in Seq(T)
  BY <1>2, <1>4
<1>6. abef \in Seq(T)
  BY <1>3, <1>5
<1>7. \A x : x \in Range(ab) <=> x \in Range(a) \/ x \in Range(b)
  BY <1>1, JoinRange
<1>8. \A x : x \in Range(abe) <=> x \in Range(ab) \/ x \in Range(e)
  BY <1>2, <1>4, JoinRange
<1>9. \A x : x \in Range(abef) <=> x \in Range(abe) \/ x \in Range(f)
  BY <1>3, <1>5, JoinRange
<1>10. \A x : x \in Range(abef \o g) <=> x \in Range(abef) \/ x \in Range(g)
  BY <1>6, JoinRange
<1>11. abef \o g \in Seq(T)
  BY <1>6
<1> QED BY <1>1, <1>2, <1>3, <1>7, <1>8, <1>9, <1>10, <1>11, Zenon

\* What the MCP gateway's policy allows, the proxy's does too.
Agree(net, dom) ==
    \A d : EvaluateDomain(dom, d) /\ dom # Everything => Deciding(net, d).read /\ Deciding(net, d).write

\* Built from the same settings, the two agree: the pattern of a rule that refuses is
\* in the gateway's block list, and one of its allow list has a rule.
LEMMA PolicyAgrees ==
    ASSUME NEW R, \A id \in Range(Order) : WellTyped(R[id].value)
    PROVE  Agree(NetworkPolicy(R), DomainPolicy(R))
<1> SUFFICES ASSUME NEW d, EvaluateDomain(DomainPolicy(R), d), DomainPolicy(R) # Everything
             PROVE  Deciding(NetworkPolicy(R), d).read /\ Deciding(NetworkPolicy(R), d).write
  BY Zenon DEF Agree
<1>1. PICK a \in Seq(AnyRule), b \in Seq(AnyRule), e \in Seq(AnyRule), f \in Seq(AnyRule), g \in Seq(AnyRule) :
          a = RegistryRules(R) /\ b = OffRules(R) /\ e = ProviderRules(R) /\ f = AllowRules(R) /\ g = BlockRules(R)
  BY PartsTyped
<1>2. PICK rules \in Seq(AnyRule) : rules = a \o b \o e \o f \o g
  BY FiveParts
<1>3. PICK net : net = NetworkPolicy(R) /\ net.rules = rules /\ net.default = DefaultAllow(R)
  <2>1. PICK default : default = DefaultAllow(R)
    OBVIOUS
  <2>2. NetworkPolicy(R) = [rules |-> rules, default |-> default]
    BY <1>1, <1>2, <2>1, NetworkPolicyIs, Zenon
  <2> QED BY <2>1, <2>2
<1>4. PICK allow, block : /\ allow = Metadata({id \in Registries : AsBool(R[id].value)})
                                      \cup ((Wanted(R) \cup Range(Custom(R, "custom_allow"))) \ Refused(R))
                          /\ block = BlockList(R, Refused(R))
  OBVIOUS
<1>5. /\ ~\E p \in block : Matches(p, d)
      /\ (\E p \in allow : Matches(p, d)) \/ DefaultAllow(R)
  <2>1. ~AllowAll(R)
    BY Zenon DEF DomainPolicy
  <2>2. PICK default : default = DefaultAllow(R)
    OBVIOUS
  <2>3. DomainPolicy(R) = [allow |-> allow, block |-> block, default |-> default]
    BY <1>4, <2>1, <2>2, Zenon DEF DomainPolicy
  <2> QED BY <2>2, <2>3 DEF EvaluateDomain
<1>6. \A q, yes : Rule(q, yes).pat = q /\ Rule(q, yes).read = yes /\ Rule(q, yes).write = yes
  BY DEF Rule
<1>7. \A x : x \in Range(rules) <=>
          x \in Range(a) \/ x \in Range(b) \/ x \in Range(e) \/ x \in Range(f) \/ x \in Range(g)
  <2>1. \A x : x \in Range(a \o b \o e \o f \o g) <=>
            x \in Range(a) \/ x \in Range(b) \/ x \in Range(e) \/ x \in Range(f) \/ x \in Range(g)
    BY FiveParts
  <2> QED BY <1>2, <2>1, Zenon
<1>12. Contents(R)
  BY RulesFrom
<1>8. ASSUME NEW r \in Range(rules), ~(r.read /\ r.write) PROVE r.pat \in block
  <2>1. CASE r \in Range(a)
    <3>0. PICK id \in Registries : \E p \in Range(Def(id).domains) : r = Rule(p, AsBool(R[id].value))
      BY <1>1, <2>1, <1>12, Zenon DEF Contents
    <3>1. PICK p \in Range(Def(id).domains) : r = Rule(p, AsBool(R[id].value))
      BY <3>0
    <3>2. r.pat = p /\ ~AsBool(R[id].value)
      BY <1>6, <1>8, <3>1, Zenon
    <3>3. p \in Metadata({i \in Registries : ~AsBool(R[i].value)})
      BY <3>2 DEF Metadata
    <3> QED BY <1>4, <3>2, <3>3, Zenon DEF BlockList
  <2>2. CASE r \in Range(b)
    <3>0. PICK id \in OffProviders(R) : \E p \in Range(DefaultAndEffective(R, id)) : r = Rule(p, FALSE)
      BY <1>1, <2>2, PartsTyped, Zenon
    <3>1. PICK p \in Range(DefaultAndEffective(R, id)) : r = Rule(p, FALSE)
      BY <3>0
    <3>2. p \in CorpBlocked(R)
      BY DEF CorpBlocked
    <3> QED BY <1>4, <1>6, <3>1, <3>2, Zenon DEF BlockList
  <2>3. CASE r \in Range(e)
    <3>0. PICK id \in Providers \ OffProviders(R) : \E p \in Range(AsList(R[id].value)) :
              r = Rule(p, On(R, id) /\ ~CorpBlockedMatches(p, CorpBlocked(R)))
      BY <1>1, <2>3, <1>12, Zenon DEF Contents
    <3>1. PICK p \in Range(AsList(R[id].value)) : r = Rule(p, On(R, id) /\ ~CorpBlockedMatches(p, CorpBlocked(R)))
      BY <3>0
    <3>2. r.pat = p /\ ~(On(R, id) /\ ~CorpBlockedMatches(p, CorpBlocked(R)))
      BY <1>6, <1>8, <3>1, Zenon
    <3>3. CASE On(R, id)
      <4>1. p \in Wanted(R)
        BY <3>3 DEF Wanted, Effective
      <4>2. p \in Refused(R)
        BY <3>2, <3>3, <4>1, Zenon DEF Refused
      <4> QED BY <1>4, <3>2, <4>2, Zenon DEF BlockList
    <3>4. CASE ~On(R, id)
      <4>1. p \in Effective(R, {i \in Providers \ OffProviders(R) : ~On(R, i)})
        BY <3>4 DEF Effective
      <4> QED BY <1>4, <3>2, <4>1, Zenon DEF BlockList
    <3> QED BY <3>3, <3>4
  <2>4. CASE r \in Range(f)
    <3>1. PICK p \in Range(Custom(R, "custom_allow")) :
              r = Rule(p, ~CorpBlockedMatches(p, CorpBlocked(R) \cup Range(Custom(R, "custom_block"))))
      BY <1>1, <2>4, <1>12, Zenon DEF Contents
    <3>2. r.pat = p /\ CorpBlockedMatches(p, CorpBlocked(R) \cup Range(Custom(R, "custom_block")))
      BY <1>6, <1>8, <3>1, Zenon
    <3>3. p \in Refused(R)
      BY <3>1, <3>2, Zenon DEF Refused
    <3> QED BY <1>4, <3>2, <3>3, Zenon DEF BlockList
  <2>5. CASE r \in Range(g)
    <3>1. PICK p \in Range(Custom(R, "custom_block")) : r = Rule(p, FALSE)
      BY <1>1, <2>5, <1>12, Zenon DEF Contents
    <3> QED BY <1>4, <1>6, <3>1, Zenon DEF BlockList
  <2> QED BY <1>7, <2>1, <2>2, <2>3, <2>4, <2>5, Zenon
<1>9. ASSUME NEW p \in allow PROVE \E r \in Range(rules) : r.pat = p
  <2>1. CASE p \in Metadata({id \in Registries : AsBool(R[id].value)})
    <3>1. PICK id \in Registries : p \in Range(Def(id).domains)
      BY <2>1 DEF Metadata
    <3>2. Rule(p, AsBool(R[id].value)) \in Range(a)
      BY <1>1, <3>1, <1>12, Zenon DEF Contents
    <3> QED BY <1>6, <1>7, <3>2, Zenon
  <2>2. CASE p \in Wanted(R)
    <3>1. PICK id \in Providers \ OffProviders(R) : p \in Range(AsList(R[id].value))
      BY <2>2 DEF Wanted, Effective
    <3>2. Rule(p, On(R, id) /\ ~CorpBlockedMatches(p, CorpBlocked(R))) \in Range(e)
      BY <1>1, <3>1, <1>12, Zenon DEF Contents
    <3> QED BY <1>6, <1>7, <3>2, Zenon
  <2>3. CASE p \in Range(Custom(R, "custom_allow"))
    <3>1. Rule(p, ~CorpBlockedMatches(p, CorpBlocked(R) \cup Range(Custom(R, "custom_block")))) \in Range(f)
      BY <1>1, <2>3, <1>12, Zenon DEF Contents
    <3> QED BY <1>6, <1>7, <3>1, Zenon
  <2> QED BY <1>4, <2>1, <2>2, <2>3
<1> DEFINE hits == {i \in DOMAIN net.rules : Matches(net.rules[i].pat, d)}
<1>10. CASE hits = {}
  <2>1. DefaultAllow(R)
    <3>1. ASSUME NEW p \in allow, Matches(p, d) PROVE FALSE
      <4>1. PICK i \in DOMAIN rules : rules[i].pat = p
        BY <1>9, Zenon DEF Range
      <4> QED BY <1>3, <1>10, <3>1, <4>1, Zenon
    <3> QED BY <1>5, <3>1
  <2>2. PICK yes : yes = net.default
    OBVIOUS
  <2>3. Deciding(net, d) = [read |-> yes, write |-> yes]
    BY <1>10, <2>2, Zenon DEF Deciding
  <2>4. yes = DefaultAllow(R)
    BY <1>3, <2>2
  <2> QED BY <1>3, <2>1, <2>3, <2>4
<1>11. CASE hits # {}
  <2>1. hits \subseteq Nat
    BY <1>3
  <2>2. PICK i : i = First(hits)
    OBVIOUS
  <2>3. i \in hits
    BY <1>11, <2>1, <2>2, FirstIs
  <2>4. Deciding(net, d) = rules[i]
    BY <1>3, <1>11, <2>2, Zenon DEF Deciding
  <2>5. rules[i] \in Range(rules) /\ Matches(rules[i].pat, d)
    BY <1>3, <2>3, Zenon DEF Range
  <2>6. rules[i].read /\ rules[i].write
    BY <1>5, <1>8, <2>5, Zenon
  <2> QED BY <1>3, <2>4, <2>6
<1> QED BY <1>10, <1>11

\* The network policy is a list of rules and a default.
LEMMA PolicyTyped ==
    ASSUME NEW u, NEW w, NEW c, Sound(u), Sound(w), Sound(c)
    PROVE  NetworkPolicy(Resolve(u, w, c)) \in Policies
<1>1. PICK R : R = Resolve(u, w, c)
  OBVIOUS
<1>2. PICK a \in Seq(AnyRule), b \in Seq(AnyRule), e \in Seq(AnyRule), f \in Seq(AnyRule), g \in Seq(AnyRule) :
          a = RegistryRules(R) /\ b = OffRules(R) /\ e = ProviderRules(R) /\ f = AllowRules(R) /\ g = BlockRules(R)
  <2>1. \A id \in Range(Order) : WellTyped(R[id].value)
    BY <1>1, ResolvedIs
  <2> QED BY <2>1, PartsTyped
<1>3. a \o b \o e \o f \o g \in Seq(AnyRule)
  OBVIOUS
<1>4. DefaultAllow(R) \in BOOLEAN
  BY DEF DefaultAllow
<1>5. PICK rules \in Seq(AnyRule), default \in BOOLEAN :
          NetworkPolicy(R) = [rules |-> rules, default |-> default]
  BY <1>2, <1>3, <1>4, NetworkPolicyIs, Zenon
<1>6. Policies = [rules : Seq(AnyRule), default : BOOLEAN]
  BY Zenon DEF Policies, AnyRule, Pattern
<1> QED BY <1>1, <1>5, <1>6

\* The policies are made of the registry's settings alone.
LEMMA SamePolicies ==
    ASSUME NEW R, NEW S,
           \A id \in Range(Order) : /\ id \in DOMAIN R /\ id \in DOMAIN S
                                     /\ R[id].value = S[id].value /\ R[id].locked = S[id].locked
    PROVE  NetworkPolicy(R) = NetworkPolicy(S) /\ DomainPolicy(R) = DomainPolicy(S)
<1>1. \A id \in Providers : id \in Range(Order) /\ Toggle(id) \in Range(Order)
  BY RegistryAssumption DEF Providers
<1>2. \A id \in Registries : id \in Range(Order)
  BY DEF Registries
<1>3. \A id \in Providers : (LockedOff(R, id) <=> LockedOff(S, id)) /\ (On(R, id) <=> On(S, id))
  BY <1>1 DEF LockedOff, On
<1>4. OffProviders(R) = OffProviders(S)
  BY <1>3 DEF OffProviders
<1>5. \A id \in Range(Order) : DefaultAndEffective(R, id) = DefaultAndEffective(S, id)
  BY DEF DefaultAndEffective
<1>6. CorpBlocked(R) = CorpBlocked(S)
  <2>1. \A id \in OffProviders(R) : DefaultAndEffective(R, id) = DefaultAndEffective(S, id)
    BY <1>1, <1>5 DEF OffProviders
  <2>2. CorpBlocked(R) = UNION {Range(DefaultAndEffective(R, id)) : id \in OffProviders(R)}
    BY Zenon DEF CorpBlocked, OffProviders
  <2>3. CorpBlocked(S) = UNION {Range(DefaultAndEffective(S, id)) : id \in OffProviders(R)}
    BY <1>4, Zenon DEF CorpBlocked, OffProviders
  <2> QED BY <2>1, <2>2, <2>3
<1>7. /\ Custom(R, "custom_allow") = Custom(S, "custom_allow") /\ Custom(R, "custom_block") = Custom(S, "custom_block")
      /\ DefaultAllow(R) = DefaultAllow(S) /\ AllowAll(R) = AllowAll(S)
  BY RegistryAssumption DEF Custom, DefaultAllow, AllowAll
<1>8. \A i \in DOMAIN Order : Order[i] \in Range(Order)
  BY DEF Range
<1>9. RegistryRules(R) = RegistryRules(S)
  <2>1. \A i \in DOMAIN Order : R[Order[i]].value = S[Order[i]].value
    BY <1>8
  <2> QED BY <2>1, Zenon DEF RegistryRules
<1>10. OffRules(R) = OffRules(S)
  <2>1. \A i \in DOMAIN Order : DefaultAndEffective(R, Order[i]) = DefaultAndEffective(S, Order[i])
    BY <1>5, <1>8
  <2> QED BY <1>4, <2>1, Zenon DEF OffRules
<1>11. ProviderRules(R) = ProviderRules(S)
  <2>1. \A i \in DOMAIN Order : R[Order[i]].value = S[Order[i]].value
    BY <1>8
  <2>2. \A i \in DOMAIN Order : Order[i] \in Providers => On(R, Order[i]) = On(S, Order[i])
    BY <1>3 DEF On
  <2> QED BY <1>4, <1>6, <2>1, <2>2, Zenon DEF ProviderRules
<1>12. AllowRules(R) = AllowRules(S) /\ BlockRules(R) = BlockRules(S)
  BY <1>6, <1>7, Zenon DEF AllowRules, BlockRules
<1>13. NetworkPolicy(R) = NetworkPolicy(S)
  BY <1>7, <1>9, <1>10, <1>11, <1>12, NetworkPolicyIs, Zenon
<1>14. DomainPolicy(R) = DomainPolicy(S)
  <2> DEFINE on(T) == {id \in Registries : AsBool(T[id].value)}
             off(T) == {id \in Registries : ~AsBool(T[id].value)}
             provided(T) == {id \in Providers \ OffProviders(T) : On(T, id)}
             withheld(T) == {id \in Providers \ OffProviders(T) : ~On(T, id)}
  <2>1. on(R) = on(S) /\ off(R) = off(S)
    BY <1>2
  <2>2. provided(R) = provided(S) /\ withheld(R) = withheld(S)
    BY <1>3, <1>4
  <2>3. \A X : X \subseteq Providers => Effective(R, X) = Effective(S, X)
    BY <1>1 DEF Effective
  <2>4. Effective(R, provided(R)) = Effective(S, provided(S)) /\ Effective(R, withheld(R)) = Effective(S, withheld(S))
    BY <2>2, <2>3
  <2>5. Wanted(R) = Wanted(S)
    BY <2>4, Zenon DEF Wanted
  <2>6. Refused(R) = Refused(S)
    BY <1>6, <1>7, <2>5, Zenon DEF Refused
  <2>7. BlockList(R, Refused(R)) = BlockList(S, Refused(S))
    BY <1>6, <1>7, <2>1, <2>4, <2>6, Zenon DEF BlockList
  <2> QED BY <1>7, <2>1, <2>5, <2>6, <2>7, Zenon DEF DomainPolicy
<1> QED BY <1>13, <1>14

\* Files that agree on the registry's settings give the same policies.
SameSettings(f, g) ==
    \A id \in Range(Order) : (Stored(f, id) <=> Stored(g, id)) /\ (Stored(f, id) => f[id] = g[id])

LEMMA SameResolved ==
    ASSUME NEW u, NEW v, NEW w, NEW c, SameSettings(u, v)
    PROVE  /\ NetworkPolicy(Resolve(u, w, c)) = NetworkPolicy(Resolve(v, w, c))
           /\ DomainPolicy(Resolve(u, w, c)) = DomainPolicy(Resolve(v, w, c))
<1>1. PICK R, S : R = Resolve(u, w, c) /\ S = Resolve(v, w, c)
  OBVIOUS
<1>2. ASSUME NEW id \in Range(Order)
      PROVE  id \in DOMAIN R /\ id \in DOMAIN S /\ R[id].value = S[id].value /\ R[id].locked = S[id].locked
  <2>1. id \in DOMAIN R /\ R[id] = Resolved(u, w, c, id) /\ id \in DOMAIN S /\ S[id] = Resolved(v, w, c, id)
    BY <1>1 DEF Resolve
  <2>2. ResolveValue(u, w, c, id) = ResolveValue(v, w, c, id)
    BY DEF ResolveValue, SameSettings
  <2> QED BY <2>1, <2>2 DEF Resolved
<1> QED BY <1>1, <1>2, SamePolicies

------------------------------------------------------------------------------
(* Types.                                                                  *)

Files == {"user", "corp"} \cup Venvs
Ids == Range(Order) \cup Dynamic

Command(pc, target, held, net, dom, reload) ==
    [pc |-> pc, target |-> target, held |-> held, net |-> net, dom |-> dom, reload |-> reload]

CmdTyped(k) ==
    /\ k = Command(k.pc, k.target, k.held, k.net, k.dom, k.reload)
    /\ k.pc \in {"idle", "write", "fill", "net", "dom", "swap"}
    /\ k.target \in Venvs \cup {None} /\ k.net \in Policies /\ k.reload \in BOOLEAN
    /\ Sound(k.held) /\ DOMAIN k.held \subseteq Ids

MachineTyped(m) ==
    /\ m = [on |-> m.on, net |-> m.net, dom |-> m.dom]
    /\ m.on \in BOOLEAN /\ m.net \in Policies /\ (~m.on => m = Off)

FilesTyped ==
    /\ file = [f \in Files |-> file[f]]
    /\ \A f \in Files : Sound(file[f])
    /\ \A f \in Files \ {"corp"} : DOMAIN file[f] \subseteq Ids
CmdsTyped == cmd = [c \in Cmds |-> cmd[c]] /\ \A c \in Cmds : CmdTyped(cmd[c])
MachinesTyped == vm = [v \in Venvs |-> vm[v]] /\ \A v \in Venvs : MachineTyped(vm[v])
OthersTyped == /\ focus \in Venvs \cup {None} /\ updates \in 0..MaxUpdates /\ raced \in BOOLEAN
               /\ mixed \in BOOLEAN /\ boot.v \in Venvs \cup {None} /\ boot.net \in Policies

Typed == FilesTyped /\ CmdsTyped /\ MachinesTyped /\ OthersTyped

LEMMA OffTyped == /\ MachineTyped(Off) /\ CmdTyped(Idle) /\ Idle = Command("idle", None, << >>, Off.net, Off.dom, FALSE)
                  /\ NoBoot.v = None /\ NoBoot.net \in Policies
<1>1. Off.net = [rules |-> << >>, default |-> FALSE] /\ Off = [on |-> FALSE, net |-> Off.net, dom |-> Off.dom]
  BY DEF Off
<1>2. Off.net \in Policies
  BY <1>1 DEF Policies
<1>3. Sound(<< >>) /\ DOMAIN << >> \subseteq Ids
  BY DEF Sound
<1>4. PICK net, dom : net \in Policies /\ net = Off.net /\ dom = Off.dom
  BY <1>2
<1>5. Idle = Command("idle", None, << >>, net, dom, FALSE)
  BY <1>4, Zenon DEF Idle, Command
<1>6. CmdTyped(Idle)
  BY <1>3, <1>4, <1>5 DEF CmdTyped, Command
<1>7. MachineTyped(Off)
  <2>1. PICK m : m = Off
    OBVIOUS
  <2>2. m = [on |-> FALSE, net |-> net, dom |-> dom]
    BY <1>1, <1>4, <2>1, Zenon
  <2>3. MachineTyped(m)
    BY <1>4, <2>1, <2>2 DEF MachineTyped
  <2> QED BY <2>1, <2>3
<1>8. NoBoot.v = None /\ NoBoot.net \in Policies
  BY <1>2 DEF NoBoot
<1> QED BY <1>4, <1>5, <1>6, <1>7, <1>8

\* What replaces a field of a command.
LEMMA Replaced ==
    ASSUME NEW k, CmdTyped(k), NEW x
    PROVE  /\ [k EXCEPT !.pc = x] = Command(x, k.target, k.held, k.net, k.dom, k.reload)
           /\ [k EXCEPT !.net = x] = Command(k.pc, k.target, k.held, x, k.dom, k.reload)
           /\ [k EXCEPT !.dom = x] = Command(k.pc, k.target, k.held, k.net, x, k.reload)
           /\ [k EXCEPT !.held = x] = Command(k.pc, k.target, x, k.net, k.dom, k.reload)
<1>1. PICK target, held, net, dom, reload, p : k = [pc |-> p, target |-> target, held |-> held, net |-> net, dom |-> dom, reload |-> reload]
  <2>1. k = Command(k.pc, k.target, k.held, k.net, k.dom, k.reload)
    BY Zenon DEF CmdTyped
  <2> QED BY ONLY <2>1, Zenon DEF Command
<1>2. [k EXCEPT !.pc = x] = [pc |-> x, target |-> target, held |-> held, net |-> net, dom |-> dom, reload |-> reload]
  BY <1>1
<1>3. [k EXCEPT !.net = x] = [pc |-> p, target |-> target, held |-> held, net |-> x, dom |-> dom, reload |-> reload]
  BY <1>1
<1>4. [k EXCEPT !.dom = x] = [pc |-> p, target |-> target, held |-> held, net |-> net, dom |-> x, reload |-> reload]
  BY <1>1
<1>5. k.pc = p /\ k.target = target /\ k.held = held /\ k.net = net /\ k.dom = dom /\ k.reload = reload
  BY <1>1
<1>6. [k EXCEPT !.held = x] = [pc |-> p, target |-> target, held |-> x, net |-> net, dom |-> dom, reload |-> reload]
  BY <1>1
<1> QED BY <1>2, <1>3, <1>4, <1>5, <1>6, Zenon DEF Command

\* A command that begins.
LEMMA Begins ==
    ASSUME NEW target, NEW held, NEW reload
    PROVE  [Idle EXCEPT !.pc = "write", !.target = target, !.held = held, !.reload = reload]
               = Command("write", target, held, Off.net, Off.dom, reload)
<1>1. PICK net, dom : net = Off.net /\ dom = Off.dom
  OBVIOUS
<1>2. PICK k : k = Idle
  OBVIOUS
<1>3. k = [pc |-> "idle", target |-> None, held |-> << >>, net |-> net, dom |-> dom, reload |-> FALSE]
  BY <1>1, <1>2, OffTyped, Zenon DEF Command
<1>4. PICK r : r = [k EXCEPT !.pc = "write"]
  OBVIOUS
<1>5. r = [pc |-> "write", target |-> None, held |-> << >>, net |-> net, dom |-> dom, reload |-> FALSE]
  BY <1>3, <1>4
<1>6. PICK s : s = [r EXCEPT !.target = target]
  OBVIOUS
<1>7. s = [pc |-> "write", target |-> target, held |-> << >>, net |-> net, dom |-> dom, reload |-> FALSE]
  BY <1>5, <1>6
<1>8. PICK t : t = [s EXCEPT !.held = held]
  OBVIOUS
<1>9. t = [pc |-> "write", target |-> target, held |-> held, net |-> net, dom |-> dom, reload |-> FALSE]
  BY <1>7, <1>8
<1>10. [t EXCEPT !.reload = reload] = [pc |-> "write", target |-> target, held |-> held, net |-> net, dom |-> dom, reload |-> reload]
  BY <1>9
<1>11. [k EXCEPT !.pc = "write", !.target = target, !.held = held, !.reload = reload] = [t EXCEPT !.reload = reload]
  BY <1>4, <1>6, <1>8
<1> QED BY <1>1, <1>2, <1>10, <1>11, Zenon DEF Command

\* A command that begins changes the copy of a file that it read to one of settings
\* that the file may hold; without a reload, to one with the same settings of the
\* registry.
Opens(c) ==
    \E target \in Venvs \cup {None}, reload \in BOOLEAN : \E held :
        /\ Sound(held) /\ DOMAIN held \subseteq Ids
        /\ ~reload => target = None /\ SameSettings(held, file["user"])
        /\ Begin(c, target, held, reload)

LEMMA Opening ==
    ASSUME Typed, NEW c \in Cmds,
           \/ \E target \in Venvs \cup {None}, choice \in Offers : UpdateSetting(c, target, choice)
           \/ \E v \in Venvs, offer \in Offers : ResetVenvSetting(c, v, offer.id)
           \/ \E id \in Dynamic : SetGuestEnv(c, id) \/ RemoveGuestEnv(c, id)
    PROVE  Opens(c)
<1>1. \A f, id, x : Sound(f) /\ DOMAIN f \subseteq Ids /\ WellTyped(x) /\ id \in Ids =>
          Sound(With(f, id, x)) /\ DOMAIN With(f, id, x) \subseteq Ids
  BY DEF Sound, With
<1>2. \A f, id : Sound(f) /\ DOMAIN f \subseteq Ids => Sound(WithoutId(f, id)) /\ DOMAIN WithoutId(f, id) \subseteq Ids
  BY DEF Sound, WithoutId
<1>3. ASSUME NEW f, NEW id \in Dynamic PROVE SameSettings(WithoutId(f, id), f) /\ \A x : SameSettings(With(f, id, x), f)
  <2>1. id \notin Range(Order)
    BY RegistryAssumption DEF Range
  <2>2. ASSUME NEW i \in Range(Order) 
        PROVE  /\ (i \in DOMAIN WithoutId(f, id)) = (i \in DOMAIN f) /\ (i \in DOMAIN f => WithoutId(f, id)[i] = f[i])
               /\ \A x : (i \in DOMAIN With(f, id, x)) = (i \in DOMAIN f) /\ (i \in DOMAIN f => With(f, id, x)[i] = f[i])
    BY <2>1 DEF With, WithoutId
  <2> QED BY <2>2, Zenon DEF SameSettings, Stored
<1>4. \A v \in Venvs : Sound(file[v]) /\ DOMAIN file[v] \subseteq Ids
  BY RegistryAssumption DEF Typed, FilesTyped, Files
<1>5. Sound(file["user"]) /\ DOMAIN file["user"] \subseteq Ids
  BY DEF Typed, FilesTyped, Files
<1>6. ASSUME NEW target \in Venvs \cup {None}, NEW choice \in Offers, UpdateSetting(c, target, choice) PROVE Opens(c)
  <2>1. PICK held : held = With(FileOf(target), choice.id, choice.value)
    OBVIOUS
  <2>2. Begin(c, target, held, TRUE)
    BY <1>6, <2>1, Zenon DEF UpdateSetting
  <2>3. Sound(FileOf(target)) /\ DOMAIN FileOf(target) \subseteq Ids
    BY <1>4, <1>5 DEF FileOf
  <2>4. Sound(held) /\ DOMAIN held \subseteq Ids
    BY <1>1, <2>1, <2>3, FilesAssumption DEF Ids
  <2>5. TRUE \in BOOLEAN /\ ~~TRUE
    OBVIOUS
  <2> QED BY <2>2, <2>4, <2>5, Zenon DEF Opens
<1>7. ASSUME NEW v \in Venvs, NEW offer \in Offers, ResetVenvSetting(c, v, offer.id) PROVE Opens(c)
  <2>1. PICK held : held = WithoutId(file[v], offer.id)
    OBVIOUS
  <2>2. Begin(c, v, held, TRUE)
    BY <1>7, <2>1, Zenon DEF ResetVenvSetting
  <2>3. Sound(held) /\ DOMAIN held \subseteq Ids
    BY <1>2, <1>4, <2>1
  <2>4. TRUE \in BOOLEAN /\ ~~TRUE /\ v \in Venvs \cup {None}
    OBVIOUS
  <2> QED BY <2>2, <2>3, <2>4, Zenon DEF Opens
<1>8. ASSUME NEW id \in Dynamic, SetGuestEnv(c, id) PROVE Opens(c)
  <2>1. PICK held : held = With(file["user"], id, [t |-> "text", v |-> "x"])
    OBVIOUS
  <2>2. Begin(c, None, held, FALSE)
    BY <1>8, <2>1, Zenon DEF SetGuestEnv
  <2>3. WellTyped([t |-> "text", v |-> "x"])
    BY DEF WellTyped
  <2>4. Sound(held) /\ DOMAIN held \subseteq Ids /\ SameSettings(held, file["user"])
    BY <1>1, <1>3, <1>5, <2>1, <2>3 DEF Ids
  <2>5. FALSE \in BOOLEAN /\ None \in Venvs \cup {None}
    OBVIOUS
  <2> QED BY <2>2, <2>4, <2>5, Zenon DEF Opens
<1>9. ASSUME NEW id \in Dynamic, RemoveGuestEnv(c, id) PROVE Opens(c)
  <2>1. PICK held : held = WithoutId(file["user"], id)
    OBVIOUS
  <2>2. Begin(c, None, held, FALSE)
    BY <1>9, <2>1, Zenon DEF RemoveGuestEnv
  <2>3. Sound(held) /\ DOMAIN held \subseteq Ids /\ SameSettings(held, file["user"])
    BY <1>2, <1>3, <1>5, <2>1
  <2>4. FALSE \in BOOLEAN /\ None \in Venvs \cup {None}
    OBVIOUS
  <2> QED BY <2>2, <2>3, <2>4, Zenon DEF Opens
<1> QED BY <1>6, <1>7, <1>8, <1>9

------------------------------------------------------------------------------
(* What each action does.                                                  *)

CmdsAfter(c, k) == cmd' = [d \in Cmds |-> IF d = c THEN k ELSE cmd[d]]
FilesAfter(n, x) == file' = [f \in Files |-> IF f = n THEN x ELSE file[f]]
MachinesAfter(v, m) == vm' = [w \in Venvs |-> IF w = v THEN m ELSE vm[w]]

LEMMA ExceptIs ==
    ASSUME NEW S, NEW f, f = [d \in S |-> f[d]], NEW c \in S, NEW x
    PROVE  [f EXCEPT ![c] = x] = [d \in S |-> IF d = c THEN x ELSE f[d]]
  OBVIOUS

LEMMA Named == ASSUME NEW t \in Venvs \cup {None} PROVE Name(t) \in Files /\ Name(t) # "corp"
  BY RegistryAssumption DEF Name, Files

LEMMA OpenEffect ==
    ASSUME Typed, NEW c \in Cmds, NEW target, NEW held, NEW reload, Begin(c, target, held, reload)
    PROVE  /\ cmd[c].pc = "idle" /\ updates < MaxUpdates /\ updates' = updates + 1
           /\ CmdsAfter(c, Command("write", target, held, Off.net, Off.dom, reload))
           /\ raced' = (raced \/ Busy \/ Booting \/ (reload /\ ~Aimed(target)))
           /\ UNCHANGED <<file, focus, vm, boot, mixed>>
<1>1. PICK k : k = Command("write", target, held, Off.net, Off.dom, reload)
  OBVIOUS
<1>2. cmd' = [cmd EXCEPT ![c] = k]
  <2>1. cmd' = [cmd EXCEPT ![c] = [Idle EXCEPT !.pc = "write", !.target = target, !.held = held, !.reload = reload]]
    BY Zenon DEF Begin
  <2>2. [Idle EXCEPT !.pc = "write", !.target = target, !.held = held, !.reload = reload] = k
    BY <1>1, Begins
  <2> QED BY ONLY <2>1, <2>2, Zenon
<1>3. cmd' = [d \in Cmds |-> IF d = c THEN k ELSE cmd[d]]
  BY <1>2, ExceptIs DEF Typed, CmdsTyped
<1> QED BY <1>1, <1>3 DEF Begin, CmdsAfter

LEMMA TruncateEffect ==
    ASSUME Typed, NEW c \in Cmds, Truncate(c), NEW k, k = cmd[c]
    PROVE  /\ k.pc = "write" /\ FilesAfter(Name(k.target), << >>)
           /\ CmdsAfter(c, Command("fill", k.target, k.held, k.net, k.dom, k.reload))
           /\ UNCHANGED <<focus, vm, boot, updates, raced>> /\ mixed' = (mixed \/ Halfway)
<1>1. CmdTyped(k) /\ Name(k.target) \in Files
  BY Named DEF Typed, CmdsTyped, CmdTyped
<1>2. PICK r, n : n \in Files /\ r = Command("fill", k.target, k.held, k.net, k.dom, k.reload) /\ n = Name(k.target)
  BY <1>1
<1>3. cmd' = [cmd EXCEPT ![c] = r]
  <2>1. [k EXCEPT !.pc = "fill"] = r
    BY <1>1, <1>2, Replaced, Zenon
  <2>2. cmd' = [cmd EXCEPT ![c] = [k EXCEPT !.pc = "fill"]]
    BY Zenon DEF Truncate
  <2> QED BY ONLY <2>1, <2>2, Zenon
<1>4. cmd' = [d \in Cmds |-> IF d = c THEN r ELSE cmd[d]]
  BY <1>3, ExceptIs DEF Typed, CmdsTyped
<1>5. file' = [f \in Files |-> IF f = n THEN << >> ELSE file[f]]
  BY <1>2, ExceptIs DEF Truncate, Typed, FilesTyped
<1> QED BY <1>2, <1>4, <1>5 DEF Truncate, CmdsAfter, FilesAfter

LEMMA FillEffect ==
    ASSUME Typed, NEW c \in Cmds, Fill(c), NEW k, k = cmd[c]
    PROVE  /\ k.pc = "fill" /\ FilesAfter(Name(k.target), k.held)
           /\ k.reload => CmdsAfter(c, Command("net", k.target, << >>, k.net, k.dom, k.reload))
           /\ ~k.reload => CmdsAfter(c, Idle)
           /\ UNCHANGED <<focus, vm, boot, updates, raced>> /\ mixed' = (mixed \/ Halfway)
<1>1. CmdTyped(k) /\ Name(k.target) \in Files
  BY Named DEF Typed, CmdsTyped, CmdTyped
<1>2. PICK r, i, n :
          n \in Files /\ r = Command("net", k.target, << >>, k.net, k.dom, k.reload) /\ i = Idle /\ n = Name(k.target)
  BY <1>1
<1>3. (k.reload => cmd' = [cmd EXCEPT ![c] = r]) /\ (~k.reload => cmd' = [cmd EXCEPT ![c] = i])
  <2>1. PICK j : j = [k EXCEPT !.pc = "net"]
    OBVIOUS
  <2>2. j = Command("net", k.target, k.held, k.net, k.dom, k.reload)
    BY <1>1, <2>1, Replaced
  <2>3. CmdTyped(j) /\ j.target = k.target /\ j.held = k.held /\ j.net = k.net /\ j.dom = k.dom /\ j.reload = k.reload /\ j.pc = "net"
    BY <1>1, <2>2 DEF Command, CmdTyped
  <2>4. [j EXCEPT !.held = << >>] = r
    <3>1. [j EXCEPT !.held = << >>] = Command(j.pc, j.target, << >>, j.net, j.dom, j.reload)
      BY ONLY <2>3, Replaced, Zenon
    <3> QED BY ONLY <1>2, <2>3, <3>1, Zenon
  <2>5. [k EXCEPT !.pc = "net", !.held = << >>] = [j EXCEPT !.held = << >>]
    BY <2>1
  <2>6. cmd' = IF k.reload THEN [cmd EXCEPT ![c] = [k EXCEPT !.pc = "net", !.held = << >>]] ELSE [cmd EXCEPT ![c] = i]
    BY <1>2, Zenon DEF Fill
  <2> QED BY ONLY <2>4, <2>5, <2>6
<1>4. /\ k.reload => cmd' = [d \in Cmds |-> IF d = c THEN r ELSE cmd[d]]
      /\ ~k.reload => cmd' = [d \in Cmds |-> IF d = c THEN i ELSE cmd[d]]
  BY <1>3, ExceptIs DEF Typed, CmdsTyped
<1>5. file' = [f \in Files |-> IF f = n THEN k.held ELSE file[f]]
  BY <1>2, ExceptIs DEF Fill, Typed, FilesTyped
<1> QED BY <1>2, <1>4, <1>5 DEF Fill, CmdsAfter, FilesAfter

LEMMA ReloadNetEffect ==
    ASSUME Typed, NEW c \in Cmds, ReloadNet(c), NEW k, k = cmd[c]
    PROVE  /\ k.pc = "net"
           /\ CmdsAfter(c, Command("dom", k.target, k.held, NetworkPolicy(Merged(k.target)), k.dom, k.reload))
           /\ UNCHANGED <<file, focus, vm, boot, updates, raced, mixed>>
<1>1. CmdTyped(k)
  BY DEF Typed, CmdsTyped
<1>2. PICK net : net = NetworkPolicy(Merged(k.target))
  OBVIOUS
<1>3. PICK r : r = Command("dom", k.target, k.held, net, k.dom, k.reload)
  OBVIOUS
<1>4. cmd' = [cmd EXCEPT ![c] = r]
  <2>1. cmd' = [cmd EXCEPT ![c] = [k EXCEPT !.pc = "dom", !.net = net]]
    BY <1>2, Zenon DEF ReloadNet
  <2>2. PICK j : j = [k EXCEPT !.pc = "dom"]
    OBVIOUS
  <2>3. j = Command("dom", k.target, k.held, k.net, k.dom, k.reload)
    BY <1>1, <2>2, Replaced
  <2>4. CmdTyped(j) /\ j.target = k.target /\ j.held = k.held /\ j.net = k.net /\ j.dom = k.dom /\ j.reload = k.reload /\ j.pc = "dom"
    BY <1>1, <2>3 DEF Command, CmdTyped
  <2>5. [j EXCEPT !.net = net] = r
    <3>1. [j EXCEPT !.net = net] = Command(j.pc, j.target, j.held, net, j.dom, j.reload)
      BY ONLY <2>4, Replaced, Zenon
    <3> QED BY ONLY <1>3, <2>4, <3>1, Zenon
  <2>6. [k EXCEPT !.pc = "dom", !.net = net] = [j EXCEPT !.net = net]
    BY <2>2
  <2> QED BY ONLY <2>1, <2>5, <2>6, Zenon
<1>5. cmd' = [d \in Cmds |-> IF d = c THEN r ELSE cmd[d]]
  BY <1>4, ExceptIs DEF Typed, CmdsTyped
<1> QED BY <1>2, <1>3, <1>5 DEF ReloadNet, CmdsAfter

LEMMA ReloadDomainEffect ==
    ASSUME Typed, NEW c \in Cmds, ReloadDomain(c), NEW k, k = cmd[c]
    PROVE  /\ k.pc = "dom"
           /\ CmdsAfter(c, Command("swap", k.target, k.held, k.net, DomainPolicy(Merged(k.target)), k.reload))
           /\ UNCHANGED <<file, focus, vm, boot, updates, raced, mixed>>
<1>1. CmdTyped(k)
  BY DEF Typed, CmdsTyped
<1>2. PICK dom : dom = DomainPolicy(Merged(k.target))
  OBVIOUS
<1>3. PICK r : r = Command("swap", k.target, k.held, k.net, dom, k.reload)
  OBVIOUS
<1>4. cmd' = [cmd EXCEPT ![c] = r]
  <2>1. cmd' = [cmd EXCEPT ![c] = [k EXCEPT !.pc = "swap", !.dom = dom]]
    BY <1>2, Zenon DEF ReloadDomain
  <2>2. PICK j : j = [k EXCEPT !.pc = "swap"]
    OBVIOUS
  <2>3. j = Command("swap", k.target, k.held, k.net, k.dom, k.reload)
    BY <1>1, <2>2, Replaced
  <2>4. CmdTyped(j) /\ j.target = k.target /\ j.held = k.held /\ j.net = k.net /\ j.dom = k.dom /\ j.reload = k.reload /\ j.pc = "swap"
    BY <1>1, <2>3 DEF Command, CmdTyped
  <2>5. [j EXCEPT !.dom = dom] = r
    <3>1. [j EXCEPT !.dom = dom] = Command(j.pc, j.target, j.held, j.net, dom, j.reload)
      BY ONLY <2>4, Replaced, Zenon
    <3> QED BY ONLY <1>3, <2>4, <3>1, Zenon
  <2>6. [k EXCEPT !.pc = "swap", !.dom = dom] = [j EXCEPT !.dom = dom]
    BY <2>2
  <2> QED BY ONLY <2>1, <2>5, <2>6, Zenon
<1>5. cmd' = [d \in Cmds |-> IF d = c THEN r ELSE cmd[d]]
  BY <1>4, ExceptIs DEF Typed, CmdsTyped
<1> QED BY <1>2, <1>3, <1>5 DEF ReloadDomain, CmdsAfter

LEMMA SwapEffect ==
    ASSUME Typed, NEW c \in Cmds, Swap(c), NEW k, k = cmd[c]
    PROVE  /\ k.pc = "swap" /\ CmdsAfter(c, Idle)
           /\ vm' = [v \in Venvs |-> IF v \in Active THEN [on |-> vm[v].on, net |-> k.net, dom |-> k.dom] ELSE vm[v]]
           /\ UNCHANGED <<file, focus, boot, updates, raced, mixed>>
<1>1. PICK i : i = Idle
  OBVIOUS
<1>2. cmd' = [d \in Cmds |-> IF d = c THEN i ELSE cmd[d]]
  BY <1>1, ExceptIs DEF Swap, Typed, CmdsTyped
<1>3. ASSUME NEW v \in Venvs
      PROVE  [vm[v] EXCEPT !.net = k.net, !.dom = k.dom] = [on |-> vm[v].on, net |-> k.net, dom |-> k.dom]
  <2>1. PICK on, net, dom, m : m = vm[v] /\ m = [on |-> on, net |-> net, dom |-> dom]
    BY DEF Typed, MachinesTyped, MachineTyped
  <2>2. PICK r : r = [m EXCEPT !.net = k.net]
    OBVIOUS
  <2>3. r = [on |-> on, net |-> k.net, dom |-> dom]
    BY <2>1, <2>2
  <2>4. [r EXCEPT !.dom = k.dom] = [on |-> on, net |-> k.net, dom |-> k.dom]
    BY <2>3
  <2>5. [m EXCEPT !.net = k.net, !.dom = k.dom] = [r EXCEPT !.dom = k.dom]
    BY <2>2
  <2>6. m.on = on
    BY <2>1
  <2> QED BY <2>1, <2>4, <2>5, <2>6, Zenon
<1>4. vm' = [v \in Venvs |-> IF v \in Active THEN [on |-> vm[v].on, net |-> k.net, dom |-> k.dom] ELSE vm[v]]
  BY <1>3, Zenon DEF Swap
<1> QED BY <1>1, <1>2, <1>4 DEF Swap, CmdsAfter

LEMMA BootNetEffect ==
    ASSUME NEW v \in Venvs, BootNet(v)
    PROVE  /\ ~Booting /\ ~vm[v].on /\ raced' = (raced \/ Busy)
           /\ focus' = v /\ boot'.v = v /\ boot'.net = NetworkPolicy(Merged(v)) /\ UNCHANGED <<file, vm, cmd, updates, mixed>>
<1>1. PICK b, x : b = [v |-> v, net |-> x] /\ x = NetworkPolicy(Merged(v)) /\ boot' = b
  BY DEF BootNet
<1>2. b.v = v /\ b.net = x
  BY <1>1
<1> QED BY <1>1, <1>2, Zenon DEF BootNet

LEMMA BootDoneEffect ==
    ASSUME Typed, BootDone
    PROVE  /\ boot.v \in Venvs /\ boot' = NoBoot /\ UNCHANGED <<file, focus, cmd, updates, raced, mixed>>
           /\ MachinesAfter(boot.v, [on |-> TRUE, net |-> boot.net, dom |-> DomainPolicy(Merged(boot.v))])
<1>1. PICK m, v : v = boot.v /\ m = [on |-> TRUE, net |-> boot.net, dom |-> DomainPolicy(Merged(boot.v))]
  OBVIOUS
<1>2. v \in Venvs
  BY <1>1 DEF BootDone, Booting, Typed, OthersTyped
<1>3. vm' = [vm EXCEPT ![v] = m]
  BY <1>1, Zenon DEF BootDone
<1>4. vm' = [w \in Venvs |-> IF w = v THEN m ELSE vm[w]]
  BY <1>2, <1>3, ExceptIs DEF Typed, MachinesTyped
<1> QED BY <1>1, <1>2, <1>4 DEF BootDone, MachinesAfter

LEMMA StopEffect ==
    ASSUME Typed, NEW v \in Venvs, Stop(v)
    PROVE  /\ ~Booting /\ vm[v].on /\ raced' = (raced \/ Busy) /\ MachinesAfter(v, Off)
           /\ UNCHANGED <<file, focus, boot, cmd, updates, mixed>>
<1>1. PICK m : m = Off
  OBVIOUS
<1>2. vm' = [w \in Venvs |-> IF w = v THEN m ELSE vm[w]]
  BY <1>1, ExceptIs DEF Stop, Typed, MachinesTyped
<1> QED BY <1>1, <1>2 DEF Stop, MachinesAfter

\* The steps, the commands that begin taken together.
LEMMA Steps ==
    ASSUME Typed, [Next]_vars
    PROVE  \/ \E c \in Cmds : Opens(c) \/ Truncate(c) \/ Fill(c) \/ ReloadNet(c) \/ ReloadDomain(c) \/ Swap(c)
           \/ \E v \in Venvs : BootNet(v) \/ Stop(v)
           \/ BootDone
           \/ \E v \in Venvs \cup {None} : Focus(v)
           \/ Crash
           \/ UNCHANGED vars
<1>1. CASE \E c \in Cmds : Step(c)
  <2>1. PICK c \in Cmds : Step(c)
    BY <1>1
  <2>2. \/ \/ \E target \in Venvs \cup {None}, choice \in Offers : UpdateSetting(c, target, choice)
           \/ \E v \in Venvs, offer \in Offers : ResetVenvSetting(c, v, offer.id)
           \/ \E id \in Dynamic : SetGuestEnv(c, id) \/ RemoveGuestEnv(c, id)
        \/ Truncate(c) \/ Fill(c) \/ ReloadNet(c) \/ ReloadDomain(c) \/ Swap(c)
    BY <2>1, Zenon DEF Step
  <2> QED BY <2>2, Opening, Zenon
<1>2. CASE ~\E c \in Cmds : Step(c)
  BY <1>2, Zenon DEF Next
<1> QED BY <1>1, <1>2

\* What the files give a machine.
LEMMA MergedFacts ==
    ASSUME Typed, NEW t \in Venvs \cup {None}
    PROVE  /\ NetworkPolicy(Merged(t)) \in Policies
           /\ NetBlocks(NetworkPolicy(Merged(t)), file["corp"]) /\ DomBlocks(DomainPolicy(Merged(t)), file["corp"])
           /\ Agree(NetworkPolicy(Merged(t)), DomainPolicy(Merged(t)))
<1>1. PICK u, w, c : u = file["user"] /\ w = (IF t = None THEN << >> ELSE file[t]) /\ c = file["corp"]
  OBVIOUS
<1>2. Sound(<< >>) /\ \A f \in Files : Sound(file[f])
  BY DEF Sound, Typed, FilesTyped
<1>3. Sound(u) /\ Sound(w) /\ Sound(c)
  BY <1>1, <1>2 DEF Files
<1>4. Merged(t) = Resolve(u, w, c)
  BY <1>1, Zenon DEF Merged
<1>5. Agree(NetworkPolicy(Merged(t)), DomainPolicy(Merged(t)))
  <2>1. PICK R : R = Merged(t)
    OBVIOUS
  <2>2. \A id \in Range(Order) : WellTyped(R[id].value)
    BY <1>3, <1>4, <2>1, ResolvedIs
  <2> QED BY <2>1, <2>2, PolicyAgrees
<1> QED BY <1>1, <1>3, <1>4, <1>5, CorpBlocks, PolicyTyped

LEMMA CmdsKept ==
    ASSUME CmdsTyped, NEW c \in Cmds, NEW k, CmdTyped(k), CmdsAfter(c, k) PROVE CmdsTyped'
<1>1. cmd' = [d \in Cmds |-> cmd'[d]] /\ \A d \in Cmds : cmd'[d] = IF d = c THEN k ELSE cmd[d]
  BY DEF CmdsAfter
<1> QED BY <1>1 DEF CmdsTyped

LEMMA FilesKept ==
    ASSUME FilesTyped, NEW n \in Files, n # "corp", NEW x, Sound(x), DOMAIN x \subseteq Ids, FilesAfter(n, x)
    PROVE  FilesTyped'
<1>1. file' = [f \in Files |-> file'[f]] /\ \A f \in Files : file'[f] = IF f = n THEN x ELSE file[f]
  BY DEF FilesAfter
<1> QED BY <1>1 DEF FilesTyped

LEMMA MachinesKept ==
    ASSUME MachinesTyped, NEW v \in Venvs, NEW m, MachineTyped(m), MachinesAfter(v, m) PROVE MachinesTyped'
<1>1. vm' = [w \in Venvs |-> vm'[w]] /\ \A w \in Venvs : vm'[w] = IF w = v THEN m ELSE vm[w]
  BY DEF MachinesAfter
<1> QED BY <1>1 DEF MachinesTyped

LEMMA InitTyped == ASSUME Init PROVE Typed
<1>1. FilesTyped
  <2>1. PICK c \in CorpFiles : file = [f \in {"user", "corp"} \cup Venvs |-> IF f = "corp" THEN c ELSE << >>]
    BY DEF Init
  <2>2. Sound(c) /\ Sound(<< >>) /\ DOMAIN << >> \subseteq Ids
    BY FilesAssumption DEF Sound
  <2>3. file = [f \in Files |-> file[f]] /\ \A f \in Files : file[f] = IF f = "corp" THEN c ELSE << >>
    BY <2>1 DEF Files
  <2> QED BY <2>2, <2>3 DEF FilesTyped
<1>2. CmdsTyped
  <2>1. PICK i : i = Idle
    OBVIOUS
  <2>2. CmdTyped(i) /\ cmd = [c \in Cmds |-> i]
    BY <2>1, OffTyped DEF Init
  <2> QED BY <2>2 DEF CmdsTyped
<1>3. MachinesTyped
  <2>1. PICK m : m = Off
    OBVIOUS
  <2>2. MachineTyped(m) /\ vm = [v \in Venvs |-> m]
    BY <2>1, OffTyped DEF Init
  <2> QED BY <2>2 DEF MachinesTyped
<1>4. OthersTyped
  <2>1. MaxUpdates \in Nat
    BY FilesAssumption
  <2>2. updates = 0 /\ focus = None /\ raced = FALSE /\ mixed = FALSE /\ boot = NoBoot
    BY DEF Init
  <2>3. updates \in 0..MaxUpdates
    BY <2>1, <2>2
  <2>4. focus \in Venvs \cup {None} /\ raced \in BOOLEAN /\ mixed \in BOOLEAN
    BY <2>2
  <2>5. boot.v \in Venvs \cup {None} /\ boot.net \in Policies
    BY <2>2, OffTyped, Zenon
  <2> QED BY <2>3, <2>4, <2>5, Zenon DEF OthersTyped
<1> QED BY <1>1, <1>2, <1>3, <1>4 DEF Typed

LEMMA TypedStep == ASSUME Typed, [Next]_vars PROVE Typed'
<1> USE DEF Typed
<1>1. \A c \in Cmds : CmdTyped(cmd[c]) /\ Name(cmd[c].target) \in Files /\ Name(cmd[c].target) # "corp"
  BY Named DEF CmdsTyped, CmdTyped
<1>2. Sound(<< >>) /\ DOMAIN << >> \subseteq Ids
  BY DEF Sound
<1>3. Busy \in BOOLEAN /\ Booting \in BOOLEAN /\ Halfway \in BOOLEAN /\ \A t : Aimed(t) \in BOOLEAN
  BY DEF Busy, Booting, Halfway, Aimed
<1>4. PICK net, dom : net \in Policies /\ net = Off.net /\ dom = Off.dom
  BY OffTyped DEF CmdTyped, Command
<1>5. ASSUME NEW c \in Cmds, Opens(c) PROVE Typed'
  <2>1. PICK target \in Venvs \cup {None}, reload \in BOOLEAN :
            \E held : Sound(held) /\ DOMAIN held \subseteq Ids /\ Begin(c, target, held, reload)
    BY <1>5, Zenon DEF Opens
  <2>2. PICK held : Sound(held) /\ DOMAIN held \subseteq Ids /\ Begin(c, target, held, reload)
    BY <2>1
  <2>3. PICK k : k = Command("write", target, held, net, dom, reload)
    OBVIOUS
  <2>4. CmdTyped(k)
    BY <1>4, <2>2, <2>3 DEF CmdTyped, Command
  <2>5. /\ updates < MaxUpdates /\ updates' = updates + 1
        /\ CmdsAfter(c, k)
        /\ raced' = (raced \/ Busy \/ Booting \/ (reload /\ ~Aimed(target)))
        /\ UNCHANGED <<file, focus, vm, boot, mixed>>
    BY <1>4, <2>2, <2>3, OpenEffect
  <2>6. CmdsTyped'
    BY <2>4, <2>5, CmdsKept
  <2>7. OthersTyped'
    BY <1>3, <2>5, FilesAssumption DEF OthersTyped
  <2> QED BY <2>5, <2>6, <2>7 DEF FilesTyped, MachinesTyped
<1>6. ASSUME NEW c \in Cmds, Truncate(c) PROVE Typed'
  <2>1. PICK k, r : k = cmd[c] /\ r = Command("fill", k.target, k.held, k.net, k.dom, k.reload)
    OBVIOUS
  <2>2. CmdTyped(r)
    BY <1>1, <2>1 DEF CmdTyped, Command
  <2>3. PICK n \in Files : n # "corp" /\ n = Name(k.target)
    BY <1>1, <2>1
  <2>4. FilesAfter(n, << >>) /\ CmdsAfter(c, r) /\ UNCHANGED <<focus, vm, boot, updates, raced>> /\ mixed' = (mixed \/ Halfway)
    BY <1>6, <2>1, <2>3, TruncateEffect
  <2>5. CmdsTyped' /\ FilesTyped'
    BY <1>2, <2>2, <2>3, <2>4, CmdsKept, FilesKept
  <2> QED BY <1>3, <2>4, <2>5 DEF MachinesTyped, OthersTyped
<1>7. ASSUME NEW c \in Cmds, Fill(c) PROVE Typed'
  <2>1. PICK k, r, i : k = cmd[c] /\ r = Command("net", k.target, << >>, k.net, k.dom, k.reload) /\ i = Idle
    OBVIOUS
  <2>2. CmdTyped(r) /\ CmdTyped(i) /\ Sound(k.held) /\ DOMAIN k.held \subseteq Ids /\ k.reload \in BOOLEAN
    BY <1>1, <1>2, <2>1, OffTyped DEF CmdTyped, Command
  <2>3. PICK n \in Files : n # "corp" /\ n = Name(k.target)
    BY <1>1, <2>1
  <2>4. FilesAfter(n, k.held) /\ (CmdsAfter(c, r) \/ CmdsAfter(c, i)) /\ UNCHANGED <<focus, vm, boot, updates, raced>> /\ mixed' = (mixed \/ Halfway)
    BY <1>7, <2>1, <2>2, <2>3, FillEffect
  <2>5. CmdsTyped'
    BY <2>2, <2>4, CmdsKept
  <2>6. FilesTyped'
    BY <2>2, <2>3, <2>4, FilesKept
  <2> QED BY <1>3, <2>4, <2>5, <2>6 DEF MachinesTyped, OthersTyped
<1>8. ASSUME NEW c \in Cmds, ReloadNet(c) PROVE Typed'
  <2>1. PICK k : k = cmd[c]
    OBVIOUS
  <2>2. PICK x \in Policies : x = NetworkPolicy(Merged(k.target))
    BY <1>1, <2>1, MergedFacts DEF CmdTyped
  <2>3. PICK r : r = Command("dom", k.target, k.held, x, k.dom, k.reload)
    OBVIOUS
  <2>4. CmdTyped(r)
    BY <1>1, <2>1, <2>3 DEF CmdTyped, Command
  <2>5. CmdsAfter(c, r) /\ UNCHANGED <<file, focus, vm, boot, updates, raced, mixed>>
    BY <1>8, <2>1, <2>2, <2>3, ReloadNetEffect
  <2> QED BY <2>4, <2>5, CmdsKept DEF MachinesTyped, OthersTyped, FilesTyped
<1>9. ASSUME NEW c \in Cmds, ReloadDomain(c) PROVE Typed'
  <2>1. PICK k, x : k = cmd[c] /\ x = DomainPolicy(Merged(k.target))
    OBVIOUS
  <2>2. PICK r : r = Command("swap", k.target, k.held, k.net, x, k.reload)
    OBVIOUS
  <2>3. CmdTyped(r)
    BY <1>1, <2>1, <2>2 DEF CmdTyped, Command
  <2>4. CmdsAfter(c, r) /\ UNCHANGED <<file, focus, vm, boot, updates, raced, mixed>>
    BY <1>9, <2>1, <2>2, ReloadDomainEffect
  <2> QED BY <2>3, <2>4, CmdsKept DEF MachinesTyped, OthersTyped, FilesTyped
<1>10. ASSUME NEW c \in Cmds, Swap(c) PROVE Typed'
  <2>1. PICK k, i : k = cmd[c] /\ i = Idle
    OBVIOUS
  <2>2. /\ CmdsAfter(c, i) /\ UNCHANGED <<file, focus, boot, updates, raced, mixed>>
        /\ vm' = [v \in Venvs |-> IF v \in Active THEN [on |-> vm[v].on, net |-> k.net, dom |-> k.dom] ELSE vm[v]]
    BY <1>10, <2>1, SwapEffect
  <2>3. CmdsTyped'
    BY <2>1, <2>2, OffTyped, CmdsKept
  <2>4. \A v \in Active : v \in Venvs /\ vm[v].on = TRUE
    BY DEF Active, Running, MachinesTyped, MachineTyped
  <2>5. \A v \in Active : MachineTyped([on |-> vm[v].on, net |-> k.net, dom |-> k.dom])
    BY <1>1, <2>1, <2>4 DEF MachineTyped, CmdTyped
  <2>6. vm' = [v \in Venvs |-> vm'[v]] /\ \A v \in Venvs : MachineTyped(vm'[v])
    BY <2>2, <2>5 DEF MachinesTyped
  <2> QED BY <2>2, <2>3, <2>6 DEF MachinesTyped, OthersTyped, FilesTyped
<1>11. ASSUME NEW v \in Venvs, BootNet(v) PROVE Typed'
  <2>1. PICK x \in Policies : x = NetworkPolicy(Merged(v))
    BY MergedFacts
  <2>2. raced' = (raced \/ Busy) /\ focus' = v /\ boot'.v = v /\ boot'.net = x /\ UNCHANGED <<file, vm, cmd, updates, mixed>>
    BY <1>11, <2>1, BootNetEffect
  <2> QED BY <1>3, <2>2 DEF CmdsTyped, OthersTyped, FilesTyped, MachinesTyped
<1>16. ASSUME BootDone PROVE Typed'
  <2>1. PICK x, y, v : v = boot.v /\ x = boot.net /\ y = DomainPolicy(Merged(boot.v))
    OBVIOUS
  <2>2. PICK m, b : m = [on |-> TRUE, net |-> x, dom |-> y] /\ b = NoBoot
    OBVIOUS
  <2>3. MachineTyped(m)
    BY <2>1, <2>2 DEF MachineTyped, OthersTyped
  <2>4. v \in Venvs /\ MachinesAfter(v, m) /\ boot' = b /\ UNCHANGED <<file, focus, cmd, updates, raced, mixed>>
    BY <1>16, <2>1, <2>2, BootDoneEffect
  <2>5. b.v \in Venvs \cup {None} /\ b.net \in Policies
    BY <2>2, OffTyped
  <2> QED BY <2>3, <2>4, <2>5, MachinesKept DEF CmdsTyped, OthersTyped, FilesTyped
<1>12. ASSUME NEW v \in Venvs, Stop(v) PROVE Typed'
  <2>1. PICK m : m = Off
    OBVIOUS
  <2>2. MachinesAfter(v, m) /\ raced' = (raced \/ Busy) /\ UNCHANGED <<file, focus, boot, cmd, updates, mixed>>
    BY <1>12, <2>1, StopEffect
  <2> QED BY <1>3, <2>1, <2>2, OffTyped, MachinesKept DEF CmdsTyped, OthersTyped, FilesTyped
<1>13. ASSUME NEW v \in Venvs \cup {None}, Focus(v) PROVE Typed'
  BY <1>3, <1>13 DEF Focus, CmdsTyped, OthersTyped, FilesTyped, MachinesTyped
<1>14. ASSUME Crash PROVE Typed'
  <2>1. PICK m, i, b : m = Off /\ i = Idle /\ b = NoBoot
    OBVIOUS
  <2>2. MachineTyped(m) /\ CmdTyped(i) /\ b.v \in Venvs \cup {None} /\ b.net \in Policies
    BY <2>1, OffTyped
  <2>3. /\ vm' = [v \in Venvs |-> m] /\ cmd' = [c \in Cmds |-> i] /\ focus' = None /\ raced' = FALSE
        /\ mixed' = FALSE /\ boot' = b /\ UNCHANGED <<file, updates>>
    BY <1>14, <2>1, Zenon DEF Crash
  <2> QED BY <2>2, <2>3 DEF CmdsTyped, OthersTyped, FilesTyped, MachinesTyped
<1>15. ASSUME UNCHANGED vars PROVE Typed'
  BY <1>15 DEF vars, CmdsTyped, OthersTyped, FilesTyped, MachinesTyped
<1> QED BY <1>5, <1>6, <1>7, <1>8, <1>9, <1>10, <1>11, <1>12, <1>13, <1>14, <1>15, <1>16, Steps, Zenon

\* The files, the machines and the commands keep their types.
THEOREM FilesKeepTypes == Spec => []TypeOK
<1>1. Typed => TypeOK
  <2>1. Typed => \A f \in {"user"} \cup Venvs : f \in Files \ {"corp"}
    BY RegistryAssumption DEF Files
  <2> QED BY <2>1 DEF Typed, TypeOK, FilesTyped, MachinesTyped, CmdsTyped, OthersTyped, MachineTyped, CmdTyped, Ids
<1> QED BY <1>1, InitTyped, TypedStep, PTL DEF Spec

------------------------------------------------------------------------------
(* The administrator's block.                                              *)

\* The policies that a machine has, and those a reload is about to put into one,
\* refuse what corp.toml switched off.
MachineRefuses(m, corp) == m.on => NetBlocks(m.net, corp) /\ DomBlocks(m.dom, corp)
ReloadRefuses(k, corp) ==
    (k.pc \in {"dom", "swap"} => NetBlocks(k.net, corp)) /\ (k.pc = "swap" => DomBlocks(k.dom, corp))

Refusing == /\ \A v \in Venvs : MachineRefuses(vm[v], file["corp"])
            /\ \A c \in Cmds : ReloadRefuses(cmd[c], file["corp"])
            /\ Booting => NetBlocks(boot.net, file["corp"])

LEMMA CorpKept ==
    ASSUME Typed, Typed', [Next]_vars PROVE file'["corp"] = file["corp"]
<1>1. \A c \in Cmds : Name(cmd[c].target) # "corp"
  BY Named DEF Typed, CmdsTyped, CmdTyped
<1>2. ASSUME NEW c \in Cmds, Truncate(c) \/ Fill(c) PROVE file'["corp"] = file["corp"]
  <2>1. PICK n, x : n # "corp" /\ FilesAfter(n, x)
    BY <1>1, <1>2, TruncateEffect, FillEffect
  <2> QED BY <2>1 DEF FilesAfter, Files
<1>3. ASSUME NEW c \in Cmds, Opens(c) \/ ReloadNet(c) \/ ReloadDomain(c) \/ Swap(c) PROVE file' = file
  BY <1>3 DEF Opens, Begin, ReloadNet, ReloadDomain, Swap
<1>4. (\E v \in Venvs : BootNet(v) \/ Stop(v)) \/ BootDone \/ (\E v \in Venvs \cup {None} : Focus(v)) \/ Crash \/ UNCHANGED vars => file' = file
  BY DEF BootNet, BootDone, Stop, Focus, Crash, vars
<1> QED BY <1>2, <1>3, <1>4, Steps, Zenon

LEMMA ReloadsRefuse ==
    ASSUME NEW corp, \A c \in Cmds : ReloadRefuses(cmd[c], corp), NEW c \in Cmds, NEW k, ReloadRefuses(k, corp), CmdsAfter(c, k)
    PROVE  \A d \in Cmds : ReloadRefuses(cmd'[d], corp)
  BY DEF CmdsAfter

LEMMA EarlyRefuses ==
    ASSUME NEW corp, NEW target, NEW held, NEW net, NEW dom, NEW reload,
           NEW pc \in {"write", "fill", "net"}
    PROVE  ReloadRefuses(Command(pc, target, held, net, dom, reload), corp)
  BY DEF Command, ReloadRefuses

LEMMA RefusingStep == ASSUME Typed, Typed', Refusing, [Next]_vars PROVE Refusing'
<1>1. PICK corp : corp = file["corp"] /\ corp = file'["corp"]
  BY CorpKept
<1>2. /\ \A v \in Venvs : MachineRefuses(vm[v], corp)
      /\ \A c \in Cmds : ReloadRefuses(cmd[c], corp)
      /\ Booting => NetBlocks(boot.net, corp)
  BY <1>1, Zenon DEF Refusing
<1>3. /\ \A v \in Venvs : MachineRefuses(vm'[v], corp)
      /\ \A c \in Cmds : ReloadRefuses(cmd'[c], corp)
      /\ Booting' => NetBlocks(boot'.net, corp)
      => Refusing'
  BY <1>1, Zenon DEF Refusing
<1>16. boot' = boot => (Booting' => NetBlocks(boot'.net, corp))
  BY <1>2 DEF Booting
<1>4. \A c \in Cmds : CmdTyped(cmd[c])
  BY DEF Typed, CmdsTyped
<1>5. ASSUME NEW k, k = Idle PROVE ReloadRefuses(k, corp)
  <2>1. k.pc = "idle"
    BY <1>5, OffTyped DEF Command
  <2> QED BY <2>1 DEF ReloadRefuses
<1>6. ASSUME NEW c \in Cmds, Opens(c) PROVE Refusing'
  <2>1. PICK target, held, reload : Begin(c, target, held, reload)
    BY <1>6, Zenon DEF Opens
  <2>2. PICK net, dom : net = Off.net /\ dom = Off.dom
    OBVIOUS
  <2>3. PICK k : k = Command("write", target, held, net, dom, reload)
    OBVIOUS
  <2>4. CmdsAfter(c, k) /\ vm' = vm /\ boot' = boot
    BY <2>1, <2>2, <2>3, OpenEffect
  <2>5. ReloadRefuses(k, corp)
    BY <2>3, EarlyRefuses
  <2> QED BY <1>2, <1>3, <1>16, <2>4, <2>5, ReloadsRefuse
<1>7. ASSUME NEW c \in Cmds, Truncate(c) PROVE Refusing'
  <2>1. PICK k, r : k = cmd[c] /\ r = Command("fill", k.target, k.held, k.net, k.dom, k.reload)
    OBVIOUS
  <2>2. CmdsAfter(c, r) /\ vm' = vm /\ boot' = boot
    BY <1>7, <2>1, TruncateEffect
  <2>3. ReloadRefuses(r, corp)
    BY <2>1, EarlyRefuses
  <2> QED BY <1>2, <1>3, <1>16, <2>2, <2>3, ReloadsRefuse
<1>8. ASSUME NEW c \in Cmds, Fill(c) PROVE Refusing'
  <2>1. PICK k, r, i : k = cmd[c] /\ r = Command("net", k.target, << >>, k.net, k.dom, k.reload) /\ i = Idle
    OBVIOUS
  <2>2. (CmdsAfter(c, r) \/ CmdsAfter(c, i)) /\ vm' = vm /\ boot' = boot
    <3>1. k.reload \in BOOLEAN
      BY <1>4, <2>1 DEF CmdTyped
    <3> QED BY <1>8, <2>1, <3>1, FillEffect
  <2>3. ReloadRefuses(r, corp) /\ ReloadRefuses(i, corp)
    BY <1>5, <2>1, EarlyRefuses
  <2> QED BY <1>2, <1>3, <1>16, <2>2, <2>3, ReloadsRefuse
<1>9. ASSUME NEW c \in Cmds, ReloadNet(c) PROVE Refusing'
  <2>1. PICK k : k = cmd[c]
    OBVIOUS
  <2>2. PICK x : x = NetworkPolicy(Merged(k.target)) /\ NetBlocks(x, corp)
    BY <1>1, <1>4, <2>1, MergedFacts DEF CmdTyped
  <2>3. PICK r : r = Command("dom", k.target, k.held, x, k.dom, k.reload)
    OBVIOUS
  <2>4. CmdsAfter(c, r) /\ vm' = vm /\ boot' = boot
    BY <1>9, <2>1, <2>2, <2>3, ReloadNetEffect
  <2>5. ReloadRefuses(r, corp)
    BY <2>2, <2>3 DEF ReloadRefuses, Command
  <2> QED BY <1>2, <1>3, <1>16, <2>4, <2>5, ReloadsRefuse
<1>10. ASSUME NEW c \in Cmds, ReloadDomain(c) PROVE Refusing'
  <2>1. PICK k : k = cmd[c]
    OBVIOUS
  <2>2. PICK x : x = DomainPolicy(Merged(k.target)) /\ DomBlocks(x, corp)
    BY <1>1, <1>4, <2>1, MergedFacts DEF CmdTyped
  <2>3. PICK r : r = Command("swap", k.target, k.held, k.net, x, k.reload)
    OBVIOUS
  <2>4. CmdsAfter(c, r) /\ vm' = vm /\ boot' = boot /\ k.pc = "dom"
    BY <1>10, <2>1, <2>2, <2>3, ReloadDomainEffect
  <2>5. NetBlocks(k.net, corp)
    BY <1>2, <2>1, <2>4 DEF ReloadRefuses
  <2>6. ReloadRefuses(r, corp)
    BY <2>2, <2>3, <2>5 DEF ReloadRefuses, Command
  <2> QED BY <1>2, <1>3, <1>16, <2>4, <2>6, ReloadsRefuse
<1>11. ASSUME NEW c \in Cmds, Swap(c) PROVE Refusing'
  <2>1. PICK k, i : k = cmd[c] /\ i = Idle
    OBVIOUS
  <2>2. /\ k.pc = "swap" /\ CmdsAfter(c, i) /\ boot' = boot
        /\ vm' = [v \in Venvs |-> IF v \in Active THEN [on |-> vm[v].on, net |-> k.net, dom |-> k.dom] ELSE vm[v]]
    BY <1>11, <2>1, SwapEffect
  <2>3. NetBlocks(k.net, corp) /\ DomBlocks(k.dom, corp)
    BY <1>2, <2>1, <2>2 DEF ReloadRefuses
  <2>4. \A on : MachineRefuses([on |-> on, net |-> k.net, dom |-> k.dom], corp)
    BY <2>3 DEF MachineRefuses
  <2>5. \A v \in Venvs : MachineRefuses(vm'[v], corp)
    BY <1>2, <2>2, <2>4
  <2>6. ReloadRefuses(i, corp)
    BY <1>5, <2>1
  <2> QED BY <1>2, <1>3, <1>16, <2>2, <2>5, <2>6, ReloadsRefuse
<1>12. ASSUME NEW v \in Venvs, BootNet(v) PROVE Refusing'
  <2>1. PICK x : x = NetworkPolicy(Merged(v)) /\ NetBlocks(x, corp)
    BY <1>1, MergedFacts
  <2>2. boot'.net = x /\ vm' = vm /\ cmd' = cmd
    BY <1>12, <2>1, BootNetEffect
  <2> QED BY <1>2, <1>3, <2>1, <2>2
<1>17. ASSUME BootDone PROVE Refusing'
  <2>1. PICK v, x, y, b : v = boot.v /\ x = boot.net /\ y = DomainPolicy(Merged(v)) /\ b = NoBoot
    OBVIOUS
  <2>2. PICK m : m = [on |-> TRUE, net |-> x, dom |-> y]
    OBVIOUS
  <2>3. v \in Venvs /\ MachinesAfter(v, m) /\ cmd' = cmd /\ boot' = b
    BY <1>17, <2>1, <2>2, BootDoneEffect
  <2>4. NetBlocks(x, corp) /\ DomBlocks(y, corp)
    <3>1. DomBlocks(y, corp)
      BY <1>1, <2>1, <2>3, MergedFacts
    <3> QED BY <1>2, <1>17, <2>1, <3>1 DEF BootDone
  <2>5. MachineRefuses(m, corp)
    BY <2>2, <2>4 DEF MachineRefuses
  <2>6. ~Booting'
    BY <2>1, <2>3, OffTyped DEF Booting
  <2> QED BY <1>2, <1>3, <2>3, <2>5, <2>6 DEF MachinesAfter
<1>13. ASSUME NEW v \in Venvs, Stop(v) PROVE Refusing'
  <2>1. PICK m : m = Off
    OBVIOUS
  <2>2. MachinesAfter(v, m) /\ cmd' = cmd /\ boot' = boot
    BY <1>13, <2>1, StopEffect
  <2>3. MachineRefuses(m, corp)
    BY <2>1 DEF MachineRefuses, Off
  <2> QED BY <1>2, <1>3, <1>16, <2>2, <2>3 DEF MachinesAfter
<1>14. ASSUME Crash PROVE Refusing'
  <2>1. PICK m, i, b : m = Off /\ i = Idle /\ b = NoBoot
    OBVIOUS
  <2>2. vm' = [v \in Venvs |-> m] /\ cmd' = [c \in Cmds |-> i] /\ boot' = b
    BY <1>14, <2>1, Zenon DEF Crash
  <2>4. ~Booting'
    BY <2>1, <2>2, OffTyped DEF Booting
  <2>3. MachineRefuses(m, corp) /\ ReloadRefuses(i, corp)
    BY <1>5, <2>1 DEF MachineRefuses, Off
  <2> QED BY <1>3, <2>2, <2>3, <2>4
<1>15. ASSUME (\E v \in Venvs \cup {None} : Focus(v)) \/ UNCHANGED vars PROVE Refusing'
  BY <1>2, <1>3, <1>15, <1>16 DEF Focus, vars
<1> QED BY <1>6, <1>7, <1>8, <1>9, <1>10, <1>11, <1>12, <1>13, <1>14, <1>15, <1>17, Steps, Zenon

LEMMA InitRefusing == ASSUME Init PROVE Refusing
<1>1. PICK m, i : m = Off /\ i = Idle
  OBVIOUS
<1>2. vm = [v \in Venvs |-> m] /\ cmd = [c \in Cmds |-> i]
  BY <1>1, Zenon DEF Init
<1>3. m.on = FALSE /\ i.pc = "idle"
  BY <1>1, OffTyped DEF Off, Command
<1>4. ~Booting
  BY OffTyped, Zenon DEF Init, Booting
<1> QED BY <1>2, <1>3, <1>4 DEF Refusing, MachineRefuses, ReloadRefuses

\* A domain in the default list of a provider that corp.toml switched off stays
\* refused to every running machine, by the proxy's policy and by the gateway's,
\* whatever updates, half-written files, focus changes and reloads there are.
THEOREM AdminBlockStays == Spec => []CorpBlockHolds
<1>1. Refusing => CorpBlockHolds
  <2>1. Refusing => \A v \in Running : NetBlocks(vm[v].net, file["corp"]) /\ DomBlocks(vm[v].dom, file["corp"])
    BY DEF Refusing, MachineRefuses, Running
  <2> QED BY <2>1, Zenon DEF CorpBlockHolds, NetBlocks, DomBlocks, Stored
<1> QED BY <1>1, InitTyped, TypedStep, InitRefusing, RefusingStep, PTL DEF Spec

------------------------------------------------------------------------------
(* The policies of the running machines are those of the files.            *)

Fits(m, R) == m.net = NetworkPolicy(R) /\ m.dom = DomainPolicy(R)

\* A command that nothing overlapped and whose file is for the machine that its
\* reload goes to: the other machines have their policies, and the ones that are
\* built are of the files.  A command without a reload changes no setting of the
\* registry.
Following(c) ==
    /\ \A d \in Cmds \ {c} : cmd[d].pc = "idle"
    /\ cmd[c].reload => Aimed(cmd[c].target) /\ \A v \in Running \ Active : Fits(vm[v], Merged(v))
    /\ ~cmd[c].reload => /\ cmd[c].target = None /\ cmd[c].pc \in {"write", "fill"}
                         /\ \A v \in Running : Fits(vm[v], Resolve(cmd[c].held, file[v], file["corp"]))
    /\ cmd[c].pc = "write" => \A v \in Running : Fits(vm[v], Merged(v))
    /\ cmd[c].pc \in {"dom", "swap"} => cmd[c].net = NetworkPolicy(Merged(cmd[c].target))
    /\ cmd[c].pc = "swap" => cmd[c].dom = DomainPolicy(Merged(cmd[c].target))

Undisturbed ==
    /\ ~Busy => \A v \in Running : Fits(vm[v], Merged(v))
    /\ \A c \in Cmds : cmd[c].pc # "idle" => Following(c)
    /\ Booting => ~Busy /\ boot.net = NetworkPolicy(Merged(boot.v))

Followed == ~raced => Undisturbed

LEMMA MergedSame ==
    ASSUME NEW t \in Venvs \cup {None}, file'["user"] = file["user"], file'["corp"] = file["corp"],
           t \in Venvs => file'[t] = file[t]
    PROVE  Merged(t)' = Merged(t)
<1>1. CASE t = None
  BY <1>1, Zenon DEF Merged
<1>2. CASE t # None
  BY <1>2, Zenon DEF Merged
<1> QED BY <1>1, <1>2

\* Nothing is in flight after a step: it is enough that the machines have their policies.
LEMMA Rests ==
    ASSUME \A c \in Cmds : cmd'[c].pc = "idle", \A v \in Running' : Fits(vm'[v], Merged(v)'),
           (Booting => boot.net = NetworkPolicy(Merged(boot.v)))'
    PROVE  Undisturbed'
<1>1. \A c \in Cmds : ~(cmd'[c].pc # "idle")
  OBVIOUS
<1>2. (\A v \in Running : Fits(vm[v], Merged(v)))'
  OBVIOUS
<1>3. ~Busy'
  BY <1>1 DEF Busy
<1> QED BY <1>1, <1>2, <1>3, Zenon DEF Undisturbed

\* One command is in flight after a step, and it is followed.
LEMMA Continues ==
    ASSUME NEW c \in Cmds, cmd'[c].pc # "idle", \A d \in Cmds \ {c} : cmd'[d].pc = "idle", Following(c)',
           ~Booting'
    PROVE  Undisturbed'
<1>1. \A d \in Cmds : cmd'[d].pc # "idle" => d = c
  OBVIOUS
<1>2. Busy'
  BY DEF Busy
<1> QED BY <1>1, <1>2, Zenon DEF Undisturbed

\* Nor does one of the user's file, when the policies are of the copy that is written.
LEMMA UserFile ==
    ASSUME Typed, NEW x, NEW held, FilesAfter(Name(None), x), UNCHANGED <<focus, vm, boot>>,
           \A v \in Running : Fits(vm[v], Resolve(held, file[v], file["corp"]))
    PROVE  /\ \A v \in Running' : Fits(vm'[v], Resolve(held, file'[v], file'["corp"]))
           /\ file'["user"] = x /\ Running' = Running
<1>1. Running' = Running /\ Running \subseteq Venvs
  BY DEF Running
<1>2. Name(None) = "user" /\ \A v \in Venvs : v # "user" /\ v \in Files
  BY RegistryAssumption DEF Name, Files
<1>3. \A f \in Files : file'[f] = IF f = "user" THEN x ELSE file[f]
  BY <1>2 DEF FilesAfter
<1>4. file'["user"] = x /\ file'["corp"] = file["corp"] /\ \A v \in Venvs : file'[v] = file[v]
  BY <1>2, <1>3 DEF Files
<1> QED BY <1>1, <1>4

\* Truncate or Fill, of a command that is followed, changes the settings of no machine
\* but the active one.
LEMMA OtherFiles ==
    ASSUME Typed, NEW t \in Venvs \cup {None}, NEW x, FilesAfter(Name(t), x), UNCHANGED <<focus, vm, boot>>, Aimed(t),
           \A v \in Running \ Active : Fits(vm[v], Merged(v))
    PROVE  Aimed(t)' /\ \A v \in Running' \ Active' : Fits(vm'[v], Merged(v)')
<1>1. Running' = Running /\ Active' = Active
  BY Zenon DEF Running, Counted, Active
<1>2. Active \subseteq Venvs /\ Running \subseteq Venvs
  BY DEF Active, Running
<1>3. PICK n : n = Name(t)
  OBVIOUS
<1>4. \A f \in Files : file'[f] = IF f = n THEN x ELSE file[f]
  BY <1>3 DEF FilesAfter
<1>5. CASE {t} = Active
  <2>1. t \in Venvs /\ t # None /\ n = t /\ t # "user" /\ t # "corp"
    BY <1>2, <1>3, <1>5, RegistryAssumption DEF Name
  <2>2. Aimed(t)'
    BY <1>1, <1>5 DEF Aimed
  <2>3. \A v \in Venvs \ {t} : file'[v] = file[v]
    BY <1>4, <2>1 DEF Files
  <2>4. file'["user"] = file["user"] /\ file'["corp"] = file["corp"]
    BY <1>4, <2>1 DEF Files
  <2>5. \A v \in Venvs \ {t} : Merged(v)' = Merged(v)
    BY <2>3, <2>4, MergedSame
  <2>6. \A v \in Running \ Active : Fits(vm'[v], Merged(v)')
    BY <1>2, <1>5, <2>5
  <2> QED BY <1>1, <2>2, <2>6
<1>6. CASE {t} # Active
  <2>1. t = None /\ Running = Active /\ \A v \in Active : file[v] = << >>
    BY <1>6 DEF Aimed
  <2>2. n = "user" /\ \A v \in Venvs : v # "user" /\ v \in Files
    BY <1>3, <2>1, RegistryAssumption DEF Name, Files
  <2>3. \A v \in Active : file'[v] = << >>
    BY <1>2, <1>4, <2>1, <2>2
  <2>4. Aimed(t)'
    BY <1>1, <2>1, <2>3 DEF Aimed
  <2> QED BY <1>1, <2>1, <2>4
<1> QED BY <1>5, <1>6

\* A step that changes neither the files nor the machines leaves what they fit.
LEMMA StillFits ==
    ASSUME UNCHANGED <<file, focus, vm, boot>>
    PROVE  /\ Running' = Running /\ Active' = Active /\ (\A t : Aimed(t)' = Aimed(t)) /\ \A t : Merged(t)' = Merged(t)
  BY Zenon DEF Running, Counted, Active, Aimed, Merged

LEMMA OpenFollowed ==
    ASSUME Typed, Followed, NEW c \in Cmds, Opens(c) PROVE Followed'
<1>1. PICK target \in Venvs \cup {None}, reload \in BOOLEAN : \E held :
          (~reload => target = None /\ SameSettings(held, file["user"])) /\ Begin(c, target, held, reload)
  BY Zenon DEF Opens
<1>2. PICK held : (~reload => target = None /\ SameSettings(held, file["user"])) /\ Begin(c, target, held, reload)
  BY <1>1
<1>3. PICK net, dom, k : net = Off.net /\ dom = Off.dom /\ k = Command("write", target, held, net, dom, reload)
  OBVIOUS
<1>4. /\ CmdsAfter(c, k) /\ raced' = (raced \/ Busy \/ Booting \/ (reload /\ ~Aimed(target)))
      /\ UNCHANGED <<file, focus, vm, boot>>
  BY <1>2, <1>3, OpenEffect
<1>5. SUFFICES ASSUME ~raced' PROVE Undisturbed'
  BY DEF Followed
<1>6. ~Busy /\ (reload => Aimed(target)) /\ \A v \in Running : Fits(vm[v], Merged(v))
  BY <1>4, <1>5 DEF Followed, Undisturbed
<1>7. cmd'[c] = k /\ (\A d \in Cmds \ {c} : cmd'[d].pc = "idle")
  BY <1>4, <1>6 DEF CmdsAfter, Busy
<1>8. k.pc = "write" /\ k.target = target /\ k.held = held /\ k.reload = reload
  BY <1>3 DEF Command
<1>9. \A v \in Running' : Fits(vm'[v], Merged(v)')
  BY <1>4, <1>6, StillFits
<1>10. ASSUME ~reload PROVE \A v \in Running' : Fits(vm'[v], Resolve(held, file'[v], file'["corp"]))
  <2>1. ASSUME NEW v \in Running PROVE Fits(vm[v], Resolve(held, file[v], file["corp"]))
    <3>1. PICK u, w, corp : u = file["user"] /\ w = file[v] /\ corp = file["corp"]
      OBVIOUS
    <3>2. v # None
      BY RegistryAssumption DEF Running
    <3>3. Fits(vm[v], Resolve(u, w, corp))
      BY <1>6, <3>1, <3>2, Zenon DEF Merged
    <3>4. SameSettings(held, u)
      BY <1>2, <1>10, <3>1
    <3> QED BY <3>1, <3>3, <3>4, SameResolved DEF Fits
  <2> QED BY <1>4, <2>1, StillFits
<1>11. Following(c)'
  <2>1. (\A d \in Cmds \ {c} : cmd[d].pc = "idle")'
    BY <1>7
  <2>2. reload => Aimed(target)'
    BY <1>4, <1>6, StillFits
  <2>3. (cmd[c].reload => Aimed(cmd[c].target) /\ \A v \in Running \ Active : Fits(vm[v], Merged(v)))'
    BY <1>7, <1>8, <1>9, <2>2
  <2>4. (~cmd[c].reload => /\ cmd[c].target = None /\ cmd[c].pc \in {"write", "fill"}
                         /\ \A v \in Running : Fits(vm[v], Resolve(cmd[c].held, file[v], file["corp"])))'
    BY <1>2, <1>7, <1>8, <1>10
  <2>5. (cmd[c].pc = "write" => \A v \in Running : Fits(vm[v], Merged(v)))'
    BY <1>9
  <2>6. cmd'[c].pc = "write"
    BY <1>7, <1>8
  <2> QED BY <2>1, <2>3, <2>4, <2>5, <2>6 DEF Following
<1>12. cmd'[c].pc # "idle" /\ ~Booting'
  BY <1>4, <1>5, <1>7, <1>8 DEF Booting
<1> QED BY <1>7, <1>11, <1>12, Continues

LEMMA TruncateFollowed ==
    ASSUME Typed, Followed, NEW c \in Cmds, Truncate(c) PROVE Followed'
<1>1. PICK k, r : k = cmd[c] /\ r = Command("fill", k.target, k.held, k.net, k.dom, k.reload)
  OBVIOUS
<1>2. /\ k.pc = "write" /\ FilesAfter(Name(k.target), << >>)
      /\ CmdsAfter(c, r) /\ UNCHANGED <<focus, vm, boot, updates, raced>>
  BY <1>1, TruncateEffect
<1>3. SUFFICES ASSUME ~raced PROVE Undisturbed'
  BY <1>2 DEF Followed
<1>4. Following(c) /\ CmdTyped(k) /\ ~Booting
  BY <1>1, <1>2, <1>3 DEF Followed, Undisturbed, Busy, Typed, CmdsTyped
<1>5. cmd'[c] = r /\ (\A d \in Cmds \ {c} : cmd'[d].pc = "idle")
  BY <1>2, <1>4 DEF CmdsAfter, Following
<1>6. r.pc = "fill" /\ r.target = k.target /\ r.held = k.held /\ r.reload = k.reload
  BY <1>1 DEF Command
<1>7. k.reload => Aimed(k.target)' /\ \A v \in Running' \ Active' : Fits(vm'[v], Merged(v)')
  BY <1>1, <1>2, <1>4, OtherFiles DEF CmdTyped, Following
<1>8. ~k.reload => k.target = None /\ \A v \in Running' : Fits(vm'[v], Resolve(k.held, file'[v], file'["corp"]))
  BY <1>1, <1>2, <1>4, UserFile DEF Following
<1>9. Following(c)'
  <2>1. (\A d \in Cmds \ {c} : cmd[d].pc = "idle")'
    BY <1>5
  <2>2. (cmd[c].reload => Aimed(cmd[c].target) /\ \A v \in Running \ Active : Fits(vm[v], Merged(v)))'
    BY <1>5, <1>6, <1>7
  <2>3. (~cmd[c].reload => /\ cmd[c].target = None /\ cmd[c].pc \in {"write", "fill"}
                         /\ \A v \in Running : Fits(vm[v], Resolve(cmd[c].held, file[v], file["corp"])))'
    BY <1>5, <1>6, <1>8
  <2>4. cmd'[c].pc = "fill"
    BY <1>5, <1>6
  <2> QED BY <2>1, <2>2, <2>3, <2>4 DEF Following
<1>10. cmd'[c].pc # "idle" /\ ~Booting'
  BY <1>2, <1>4, <1>5, <1>6 DEF Booting
<1> QED BY <1>5, <1>9, <1>10, Continues

LEMMA FillFollowed ==
    ASSUME Typed, Followed, NEW c \in Cmds, Fill(c) PROVE Followed'
<1>1. PICK k, r, i : k = cmd[c] /\ r = Command("net", k.target, << >>, k.net, k.dom, k.reload) /\ i = Idle
  OBVIOUS
<1>2. /\ k.pc = "fill" /\ FilesAfter(Name(k.target), k.held)
      /\ (k.reload => CmdsAfter(c, r)) /\ (~k.reload => CmdsAfter(c, i)) /\ UNCHANGED <<focus, vm, boot, updates, raced>>
  BY <1>1, FillEffect
<1>3. SUFFICES ASSUME ~raced PROVE Undisturbed'
  BY <1>2 DEF Followed
<1>4. Following(c) /\ CmdTyped(k) /\ ~Booting
  BY <1>1, <1>2, <1>3 DEF Followed, Undisturbed, Busy, Typed, CmdsTyped
<1>5. CASE k.reload
  <2>1. cmd'[c] = r /\ (\A d \in Cmds \ {c} : cmd'[d].pc = "idle")
    BY <1>2, <1>4, <1>5 DEF CmdsAfter, Following
  <2>2. r.pc = "net" /\ r.target = k.target /\ r.reload = k.reload
    BY <1>1 DEF Command
  <2>3. Aimed(k.target)' /\ \A v \in Running' \ Active' : Fits(vm'[v], Merged(v)')
    BY <1>1, <1>2, <1>4, <1>5, OtherFiles DEF CmdTyped, Following
  <2>4. Following(c)'
    <3>1. (\A d \in Cmds \ {c} : cmd[d].pc = "idle")'
      BY <2>1
    <3>2. (cmd[c].reload => Aimed(cmd[c].target) /\ \A v \in Running \ Active : Fits(vm[v], Merged(v)))'
      BY <2>1, <2>2, <2>3
    <3>3. cmd'[c].pc = "net" /\ cmd'[c].reload
      BY <1>5, <2>1, <2>2
    <3> QED BY <3>1, <3>2, <3>3 DEF Following
  <2>5. cmd'[c].pc # "idle" /\ ~Booting'
    BY <1>2, <1>4, <2>1, <2>2 DEF Booting
  <2> QED BY <2>1, <2>4, <2>5, Continues
<1>6. CASE ~k.reload
  <2>1. \A d \in Cmds : cmd'[d].pc = "idle"
    <3>1. i.pc = "idle"
      BY <1>1, OffTyped DEF Command
    <3> QED BY <1>2, <1>4, <1>6, <3>1 DEF CmdsAfter, Following
  <2>2. k.target = None /\ \A v \in Running : Fits(vm[v], Resolve(k.held, file[v], file["corp"]))
    BY <1>1, <1>4, <1>6 DEF Following
  <2>3. /\ \A v \in Running' : Fits(vm'[v], Resolve(k.held, file'[v], file'["corp"]))
        /\ file'["user"] = k.held /\ Running' = Running
    BY <1>2, <2>2, UserFile
  <2>4. \A v \in Running' : Merged(v)' = Resolve(k.held, file'[v], file'["corp"])
    <3>1. \A v \in Running' : v # None
      BY <2>3, RegistryAssumption DEF Running
    <3> QED BY <2>3, <3>1, Zenon DEF Merged
  <2>5. ~Booting'
    BY <1>2, <1>4 DEF Booting
  <2> QED BY <2>1, <2>3, <2>4, <2>5, Rests
<1> QED BY <1>5, <1>6

LEMMA ReloadNetFollowed ==
    ASSUME Typed, Followed, NEW c \in Cmds, ReloadNet(c) PROVE Followed'
<1>1. PICK k, x : k = cmd[c] /\ x = NetworkPolicy(Merged(k.target))
  OBVIOUS
<1>2. PICK r : r = Command("dom", k.target, k.held, x, k.dom, k.reload)
  OBVIOUS
<1>3. k.pc = "net" /\ CmdsAfter(c, r) /\ UNCHANGED <<file, focus, vm, boot, updates, raced>>
  BY <1>1, <1>2, ReloadNetEffect
<1>4. SUFFICES ASSUME ~raced PROVE Undisturbed'
  BY <1>3 DEF Followed
<1>5. Following(c) /\ CmdTyped(k) /\ ~Booting
  BY <1>1, <1>3, <1>4 DEF Followed, Undisturbed, Busy, Typed, CmdsTyped
<1>6. cmd'[c] = r /\ (\A d \in Cmds \ {c} : cmd'[d].pc = "idle")
  BY <1>3, <1>5 DEF CmdsAfter, Following
<1>7. r.pc = "dom" /\ r.target = k.target /\ r.net = x /\ r.reload = k.reload
  BY <1>2 DEF Command
<1>8. k.reload /\ Aimed(k.target) /\ \A v \in Running \ Active : Fits(vm[v], Merged(v))
  BY <1>1, <1>3, <1>5 DEF Following, CmdTyped
<1>9. Aimed(k.target)' /\ (\A v \in Running' \ Active' : Fits(vm'[v], Merged(v)')) /\ x = NetworkPolicy(Merged(k.target)')
  BY <1>1, <1>3, <1>8, StillFits
<1>10. Following(c)'
  <2>1. (\A d \in Cmds \ {c} : cmd[d].pc = "idle")'
    BY <1>6
  <2>2. (Aimed(cmd[c].target) /\ \A v \in Running \ Active : Fits(vm[v], Merged(v)))'
    BY <1>6, <1>7, <1>9
  <2>3. cmd'[c].pc = "dom" /\ cmd'[c].reload
    BY <1>6, <1>7, <1>8
  <2>4. (cmd[c].net = NetworkPolicy(Merged(cmd[c].target)))'
    <3>1. cmd'[c].net = x /\ cmd'[c].target = k.target
      BY <1>6, <1>7
    <3> QED BY <1>9, <3>1
  <2> QED BY <2>1, <2>2, <2>3, <2>4 DEF Following
<1>11. cmd'[c].pc # "idle" /\ ~Booting'
  BY <1>3, <1>5, <1>6, <1>7 DEF Booting
<1> QED BY <1>6, <1>10, <1>11, Continues

LEMMA ReloadDomainFollowed ==
    ASSUME Typed, Followed, NEW c \in Cmds, ReloadDomain(c) PROVE Followed'
<1>1. PICK k, x : k = cmd[c] /\ x = DomainPolicy(Merged(k.target))
  OBVIOUS
<1>2. PICK r : r = Command("swap", k.target, k.held, k.net, x, k.reload)
  OBVIOUS
<1>3. k.pc = "dom" /\ CmdsAfter(c, r) /\ UNCHANGED <<file, focus, vm, boot, updates, raced>>
  BY <1>1, <1>2, ReloadDomainEffect
<1>4. SUFFICES ASSUME ~raced PROVE Undisturbed'
  BY <1>3 DEF Followed
<1>5. Following(c) /\ CmdTyped(k) /\ ~Booting
  BY <1>1, <1>3, <1>4 DEF Followed, Undisturbed, Busy, Typed, CmdsTyped
<1>6. cmd'[c] = r /\ (\A d \in Cmds \ {c} : cmd'[d].pc = "idle")
  BY <1>3, <1>5 DEF CmdsAfter, Following
<1>7. r.pc = "swap" /\ r.target = k.target /\ r.net = k.net /\ r.dom = x /\ r.reload = k.reload
  BY <1>2 DEF Command
<1>8. /\ k.reload /\ Aimed(k.target) /\ \A v \in Running \ Active : Fits(vm[v], Merged(v))
      /\ k.net = NetworkPolicy(Merged(k.target))
  BY <1>1, <1>3, <1>5 DEF Following, CmdTyped
<1>9. /\ Aimed(k.target)' /\ \A v \in Running' \ Active' : Fits(vm'[v], Merged(v)')
      /\ k.net = NetworkPolicy(Merged(k.target)') /\ x = DomainPolicy(Merged(k.target)')
  BY <1>1, <1>3, <1>8, StillFits
<1>10. Following(c)'
  <2>1. (\A d \in Cmds \ {c} : cmd[d].pc = "idle")'
    BY <1>6
  <2>2. (Aimed(cmd[c].target) /\ \A v \in Running \ Active : Fits(vm[v], Merged(v)))'
    BY <1>6, <1>7, <1>9
  <2>3. cmd'[c].pc = "swap" /\ cmd'[c].reload
    BY <1>6, <1>7, <1>8
  <2>4. (cmd[c].net = NetworkPolicy(Merged(cmd[c].target)) /\ cmd[c].dom = DomainPolicy(Merged(cmd[c].target)))'
    <3>1. cmd'[c].net = k.net /\ cmd'[c].dom = x /\ cmd'[c].target = k.target
      BY <1>6, <1>7
    <3> QED BY <1>9, <3>1
  <2> QED BY <2>1, <2>2, <2>3, <2>4 DEF Following
<1>11. cmd'[c].pc # "idle" /\ ~Booting'
  BY <1>3, <1>5, <1>6, <1>7 DEF Booting
<1> QED BY <1>6, <1>10, <1>11, Continues

LEMMA SwapFollowed ==
    ASSUME Typed, Followed, NEW c \in Cmds, Swap(c) PROVE Followed'
<1>1. PICK k, i : k = cmd[c] /\ i = Idle
  OBVIOUS
<1>2. /\ k.pc = "swap" /\ CmdsAfter(c, i) /\ UNCHANGED <<file, focus, boot, updates, raced>>
      /\ vm' = [v \in Venvs |-> IF v \in Active THEN [on |-> vm[v].on, net |-> k.net, dom |-> k.dom] ELSE vm[v]]
  BY <1>1, SwapEffect
<1>3. SUFFICES ASSUME ~raced PROVE Undisturbed'
  BY <1>2 DEF Followed
<1>4. Following(c) /\ CmdTyped(k) /\ ~Booting
  BY <1>1, <1>2, <1>3 DEF Followed, Undisturbed, Busy, Typed, CmdsTyped
<1>5. \A d \in Cmds : cmd'[d].pc = "idle"
  <2>1. i.pc = "idle"
    BY <1>1, OffTyped DEF Command
  <2> QED BY <1>2, <1>4, <2>1 DEF CmdsAfter, Following
<1>6. /\ k.reload /\ Aimed(k.target) /\ \A v \in Running \ Active : Fits(vm[v], Merged(v))
      /\ k.net = NetworkPolicy(Merged(k.target)) /\ k.dom = DomainPolicy(Merged(k.target))
  BY <1>1, <1>2, <1>4 DEF Following, CmdTyped
<1>7. Running \subseteq Venvs /\ Active \subseteq Running
  BY DEF Active, Running
<1>8. Running' = Running
  <2>1. \A v \in Venvs : vm'[v].on = vm[v].on
    BY <1>2
  <2> QED BY <2>1 DEF Running
<1>9. \A v \in Active : Merged(v) = Merged(k.target)
  <2>1. CASE {k.target} = Active
    BY <2>1
  <2>2. CASE {k.target} # Active
    <3>1. k.target = None /\ \A v \in Active : file[v] = << >>
      BY <1>6, <2>2 DEF Aimed
    <3>2. \A v \in Active : v # None
      BY <1>7, RegistryAssumption
    <3> QED BY <3>1, <3>2, Zenon DEF Merged
  <2> QED BY <2>1, <2>2
<1>10. \A v \in Venvs : Merged(v)' = Merged(v)
  BY <1>2, MergedSame
<1>11. ASSUME NEW v \in Running' PROVE Fits(vm'[v], Merged(v)')
  <2>1. CASE v \in Active
    <3>1. vm'[v] = [on |-> vm[v].on, net |-> k.net, dom |-> k.dom]
      BY <1>2, <1>7, <2>1
    <3>2. vm'[v].net = k.net /\ vm'[v].dom = k.dom
      BY <3>1
    <3>3. Merged(v)' = Merged(k.target)
      BY <1>7, <1>9, <1>10, <2>1
    <3> QED BY <1>6, <3>2, <3>3 DEF Fits
  <2>2. CASE v \notin Active
    <3>1. vm'[v] = vm[v] /\ v \in Running /\ v \in Venvs
      BY <1>2, <1>7, <1>8, <1>11, <2>2
    <3>2. Fits(vm[v], Merged(v))
      BY <1>6, <2>2, <3>1
    <3> QED BY <1>10, <3>1, <3>2
  <2> QED BY <2>1, <2>2
<1>12. ~Booting'
  BY <1>2, <1>4 DEF Booting
<1> QED BY <1>5, <1>11, <1>12, Rests

LEMMA FollowedStep == ASSUME Typed, Followed, [Next]_vars PROVE Followed'
<1>1. ASSUME ~Busy, cmd' = cmd, raced' = raced,
             ~raced => /\ \A v \in Running' : Fits(vm'[v], Merged(v)')
                       /\ (Booting => boot.net = NetworkPolicy(Merged(boot.v)))'
      PROVE  Followed'
  <2>1. \A c \in Cmds : cmd'[c].pc = "idle"
    BY <1>1 DEF Busy
  <2> QED BY <1>1, <2>1, Rests DEF Followed
<1>2. ASSUME Busy, raced' = (raced \/ Busy) PROVE Followed'
  BY <1>2 DEF Followed
<1>3. ~Busy /\ ~raced => /\ \A v \in Running : Fits(vm[v], Merged(v))
                         /\ Booting => boot.net = NetworkPolicy(Merged(boot.v))
  BY DEF Followed, Undisturbed
<1>11. raced \in BOOLEAN /\ (~Busy /\ raced' = (raced \/ Busy) => raced' = raced)
  BY DEF Typed, OthersTyped
<1>4. ASSUME NEW v \in Venvs, BootNet(v), ~Busy PROVE Followed'
  <2>1. PICK x : x = NetworkPolicy(Merged(v))
    OBVIOUS
  <2>2. raced' = (raced \/ Busy) /\ boot'.v = v /\ boot'.net = x /\ UNCHANGED <<file, vm, cmd>>
    BY <1>4, <2>1, BootNetEffect
  <2>3. \A w \in Venvs : Merged(w)' = Merged(w)
    BY <2>2, MergedSame
  <2>4. Running' = Running /\ Running \subseteq Venvs
    BY <2>2 DEF Running
  <2>5. (boot.net = NetworkPolicy(Merged(boot.v)))'
    BY <2>1, <2>2, <2>3
  <2>6. ~raced => \A w \in Running' : Fits(vm'[w], Merged(w)')
    BY <1>3, <1>4, <2>2, <2>3, <2>4
  <2> QED BY <1>1, <1>4, <1>11, <2>2, <2>5, <2>6
<1>12. ASSUME BootDone PROVE Followed'
  <2>1. PICK v, x, b : v = boot.v /\ x = boot.net /\ b = NoBoot
    OBVIOUS
  <2>2. PICK m : m = [on |-> TRUE, net |-> x, dom |-> DomainPolicy(Merged(v))]
    OBVIOUS
  <2>3. v \in Venvs /\ MachinesAfter(v, m) /\ boot' = b /\ UNCHANGED <<file, focus, cmd, raced>>
    BY <1>12, <2>1, <2>2, BootDoneEffect
  <2>4. SUFFICES ASSUME ~raced PROVE Followed'
    BY <2>3 DEF Followed
  <2>5. ~Busy /\ x = NetworkPolicy(Merged(v)) /\ \A w \in Running : Fits(vm[w], Merged(w))
    BY <1>12, <2>1, <2>4 DEF BootDone, Followed, Undisturbed
  <2>6. \A w \in Venvs : Merged(w)' = Merged(w)
    BY <2>3, MergedSame
  <2>7. Fits(m, Merged(v))
    BY <2>2, <2>5 DEF Fits
  <2>8. ASSUME NEW w \in Running' PROVE Fits(vm'[w], Merged(w)')
    <3>1. w \in Venvs /\ vm'[w].on
      BY DEF Running
    <3>2. CASE w = v
      BY <2>3, <2>6, <2>7, <3>1, <3>2 DEF MachinesAfter
    <3>3. CASE w # v
      <4>1. vm'[w] = vm[w] /\ w \in Running
        BY <2>3, <3>1, <3>3 DEF MachinesAfter, Running
      <4> QED BY <2>5, <2>6, <3>1, <4>1
    <3> QED BY <3>2, <3>3
  <2>9. ~Booting'
    BY <2>1, <2>3, OffTyped DEF Booting
  <2> QED BY <1>1, <2>3, <2>5, <2>8, <2>9
<1>5. ASSUME NEW v \in Venvs, Stop(v), ~Busy PROVE Followed'
  <2>1. PICK m : m = Off
    OBVIOUS
  <2>2. /\ ~Booting /\ MachinesAfter(v, m) /\ raced' = (raced \/ Busy)
        /\ UNCHANGED <<file, focus, boot, cmd, updates>>
    BY <1>5, <2>1, StopEffect
  <2>3. \A w \in Venvs : Merged(w)' = Merged(w)
    BY <2>2, MergedSame
  <2>4. m.on = FALSE
    BY <2>1 DEF Off
  <2>5. ASSUME ~raced, NEW w \in Running' PROVE Fits(vm'[w], Merged(w)')
    <3>1. w \in Venvs /\ vm'[w].on
      BY DEF Running
    <3>2. w # v
      BY <2>2, <2>4, <3>1 DEF MachinesAfter
    <3>3. vm'[w] = vm[w] /\ w \in Running
      BY <2>2, <3>1, <3>2 DEF MachinesAfter, Running
    <3> QED BY <1>3, <1>5, <2>3, <2>5, <3>1, <3>3
  <2>6. ~Booting'
    BY <2>2 DEF Booting
  <2> QED BY <1>1, <1>5, <1>11, <2>2, <2>5, <2>6
<1>6. ASSUME NEW v \in Venvs \cup {None}, Focus(v), ~Busy PROVE Followed'
  <2>1. raced' = (raced \/ Busy) /\ UNCHANGED <<file, vm, boot, cmd>>
    BY <1>6 DEF Focus
  <2>2. Running' = Running /\ Running \subseteq Venvs /\ boot.v \in Venvs \cup {None}
    BY <2>1 DEF Running, Typed, OthersTyped
  <2>3. \A w \in Venvs \cup {None} : Merged(w)' = Merged(w)
    BY <2>1, MergedSame
  <2>4. ~raced => \A w \in Running' : Fits(vm'[w], Merged(w)')
    BY <1>3, <1>6, <2>1, <2>2, <2>3
  <2>5. ~raced => (Booting => boot.net = NetworkPolicy(Merged(boot.v)))'
    <3>1. ASSUME NEW t \in Venvs \cup {None}, t = boot.v, ~raced, Booting PROVE boot.net = NetworkPolicy(Merged(t)')
      BY <1>3, <1>6, <2>3, <3>1
    <3> QED BY <2>1, <2>2, <3>1 DEF Booting
  <2> QED BY <1>1, <1>6, <1>11, <2>1, <2>4, <2>5
<1>7. ASSUME NEW v \in Venvs, BootNet(v) \/ Stop(v), Busy PROVE Followed'
  <2>1. raced' = (raced \/ Busy)
    BY <1>7, BootNetEffect, StopEffect
  <2> QED BY <1>2, <1>7, <2>1
<1>8. ASSUME NEW v \in Venvs \cup {None}, Focus(v), Busy PROVE Followed'
  BY <1>2, <1>8 DEF Focus
<1>9. ASSUME Crash PROVE Followed'
  <2>1. PICK m, i, b : m = Off /\ i = Idle /\ b = NoBoot
    OBVIOUS
  <2>2. vm' = [v \in Venvs |-> m] /\ cmd' = [c \in Cmds |-> i] /\ boot' = b
    BY <1>9, <2>1, Zenon DEF Crash
  <2>3. m.on = FALSE /\ i.pc = "idle"
    BY <2>1, OffTyped DEF Off, Command
  <2>4. Running' = {}
    BY <2>2, <2>3 DEF Running
  <2>5. \A c \in Cmds : cmd'[c].pc = "idle"
    BY <2>2, <2>3
  <2>6. ~Booting'
    BY <2>1, <2>2, OffTyped DEF Booting
  <2> QED BY <2>4, <2>5, <2>6, Rests DEF Followed
<1>10. ASSUME UNCHANGED vars PROVE Followed'
  <2>1. file' = file /\ focus' = focus /\ vm' = vm /\ cmd' = cmd /\ raced' = raced /\ boot' = boot
    BY <1>10 DEF vars
  <2>2. \A t : Merged(t)' = Merged(t)
    BY ONLY <2>1, Zenon DEF Merged
  <2>3. Running' = Running /\ Busy' = Busy /\ Booting' = Booting
    BY ONLY <2>1, Zenon DEF Running, Busy, Booting
  <2>4. Active' = Active
    BY ONLY <2>1, <2>3, Zenon DEF Active, Counted
  <2>5. \A t : Aimed(t)' = Aimed(t)
    BY ONLY <2>1, <2>3, <2>4, Zenon DEF Aimed
  <2>6. \A c : Following(c)' = Following(c)
    BY ONLY <2>1, <2>2, <2>3, <2>4, <2>5, Zenon DEF Following
  <2>7. (boot.net = NetworkPolicy(Merged(boot.v)))' = (boot.net = NetworkPolicy(Merged(boot.v)))
    BY ONLY <2>1, Zenon DEF Merged
  <2> QED BY ONLY <2>1, <2>2, <2>3, <2>6, <2>7, Followed, Zenon DEF Followed, Undisturbed
<1> QED BY <1>4, <1>5, <1>6, <1>7, <1>8, <1>9, <1>10, <1>12, Steps, OpenFollowed, TruncateFollowed, FillFollowed,
           ReloadNetFollowed, ReloadDomainFollowed, SwapFollowed, Zenon

LEMMA InitFollowed == ASSUME Init PROVE Followed
<1>1. PICK m, i : m = Off /\ i = Idle
  OBVIOUS
<1>2. vm = [v \in Venvs |-> m] /\ cmd = [c \in Cmds |-> i]
  BY <1>1, Zenon DEF Init
<1>3. m.on = FALSE /\ i.pc = "idle"
  BY <1>1, OffTyped DEF Off, Command
<1>4. Running = {} /\ \A c \in Cmds : ~(cmd[c].pc # "idle")
  BY <1>2, <1>3 DEF Running
<1>5. ~Booting
  BY OffTyped, Zenon DEF Init, Booting
<1> QED BY <1>4, <1>5 DEF Followed, Undisturbed

\* With no command in flight, and none that overlapped another or was for another
\* machine than the active one, every running machine has the policies that the
\* files give it.
THEOREM MachinesHaveCurrentPolicy == Spec => []CurrentPolicy
<1>1. Followed => CurrentPolicy
  BY Zenon DEF Followed, Undisturbed, CurrentPolicy, Fits
<1> QED BY <1>1, InitTyped, TypedStep, InitFollowed, FollowedStep, PTL DEF Spec

------------------------------------------------------------------------------
(* The two policies of a machine.                                          *)

\* The policies of a machine agree, and so do those a reload is about to put into one.
MachineAgrees(m) == m.on => Agree(m.net, m.dom)
ReloadAgrees(k) == k.pc = "swap" => Agree(k.net, k.dom)

\* A policy that is built first is still the one of the files.
FirstIsCurrent(k) == k.pc = "dom" => k.net = NetworkPolicy(Merged(k.target))

Pairs == /\ \A v \in Venvs : MachineAgrees(vm[v])
         /\ \A c \in Cmds : ReloadAgrees(cmd[c]) /\ FirstIsCurrent(cmd[c])
         /\ Booting => boot.net = NetworkPolicy(Merged(boot.v))

Paired == ~mixed => Pairs

\* A command that is not between its two policies has none that could be old.
LEMMA EarlyAgrees ==
    ASSUME NEW target, NEW held, NEW net, NEW dom, NEW reload, NEW pc \in {"write", "fill", "net"}
    PROVE  Command(pc, target, held, net, dom, reload).pc = pc
  BY DEF Command

\* One command of a step, the machines, the files and the boot as they were.
LEMMA CommandPairs ==
    ASSUME Pairs, UNCHANGED <<file, vm, boot>>, NEW c \in Cmds, NEW k, CmdsAfter(c, k), ReloadAgrees(k),
           k.pc = "dom" => k.net = NetworkPolicy(Merged(k.target))
    PROVE  Pairs'
<1>1. \A t : Merged(t)' = Merged(t)
  BY Zenon DEF Merged
<1>2. \A v \in Venvs : MachineAgrees(vm'[v])
  BY DEF Pairs
<1>3. \A d \in Cmds : ReloadAgrees(cmd'[d]) /\ (cmd'[d].pc = "dom" => cmd'[d].net = NetworkPolicy(Merged(cmd'[d].target)))
  BY DEF Pairs, CmdsAfter, FirstIsCurrent
<1>4. \A d \in Cmds : FirstIsCurrent(cmd[d])'
  BY <1>1, <1>3 DEF FirstIsCurrent
<1>5. (Booting => boot.net = NetworkPolicy(Merged(boot.v)))'
  <2>1. Booting => boot.net = NetworkPolicy(Merged(boot.v))
    BY DEF Pairs
  <2>2. boot' = boot /\ Booting' = Booting
    BY DEF Booting
  <2> QED BY <1>1, <2>1, <2>2, Zenon
<1>6. (\A v \in Venvs : MachineAgrees(vm[v]))' /\ (\A d \in Cmds : ReloadAgrees(cmd[d]) /\ FirstIsCurrent(cmd[d]))'
  BY <1>2, <1>3, <1>4
<1> QED BY <1>5, <1>6 DEF Pairs

\* A file is written while nothing is between its two policies.
LEMMA WritePairs ==
    ASSUME Pairs, ~Halfway, UNCHANGED <<vm, boot>>, NEW c \in Cmds, NEW k, CmdsAfter(c, k), k.pc \notin {"dom", "swap"}
    PROVE  Pairs'
<1>1. \A d \in Cmds : cmd[d].pc # "dom"
  BY DEF Halfway
<1>2. ~Booting'
  BY DEF Halfway, Booting
<1>3. \A d \in Cmds : cmd'[d].pc # "dom" /\ ReloadAgrees(cmd'[d])
  BY <1>1 DEF Pairs, CmdsAfter, ReloadAgrees
<1>4. \A d \in Cmds : FirstIsCurrent(cmd[d])'
  BY <1>3 DEF FirstIsCurrent
<1>5. (\A v \in Venvs : MachineAgrees(vm[v]))' /\ (\A d \in Cmds : ReloadAgrees(cmd[d]) /\ FirstIsCurrent(cmd[d]))'
  BY <1>3, <1>4 DEF Pairs
<1> QED BY <1>2, <1>5 DEF Pairs

LEMMA PairedStep == ASSUME Typed, Paired, [Next]_vars PROVE Paired'
<1>1. \A c \in Cmds : CmdTyped(cmd[c])
  BY DEF Typed, CmdsTyped
<1>2. PICK i : i = Idle /\ i.pc = "idle"
  BY OffTyped DEF Command
<1>3. ASSUME NEW c \in Cmds, Opens(c) PROVE Paired'
  <2>1. PICK target, held, reload : Begin(c, target, held, reload)
    BY <1>3, Zenon DEF Opens
  <2>2. PICK net, dom : net = Off.net /\ dom = Off.dom
    OBVIOUS
  <2>3. PICK k : k = Command("write", target, held, net, dom, reload)
    OBVIOUS
  <2>4. CmdsAfter(c, k) /\ UNCHANGED <<file, vm, boot, mixed>>
    BY <2>1, <2>2, <2>3, OpenEffect
  <2>5. k.pc = "write"
    BY <2>3, EarlyAgrees
  <2> QED BY <2>4, <2>5, CommandPairs DEF Paired, ReloadAgrees
<1>4. ASSUME NEW c \in Cmds, Truncate(c) PROVE Paired'
  <2>1. PICK k, r : k = cmd[c] /\ r = Command("fill", k.target, k.held, k.net, k.dom, k.reload)
    OBVIOUS
  <2>2. CmdsAfter(c, r) /\ UNCHANGED <<vm, boot>> /\ mixed' = (mixed \/ Halfway)
    BY <1>4, <2>1, TruncateEffect
  <2>3. r.pc = "fill"
    BY <2>1, EarlyAgrees
  <2> QED BY <2>2, <2>3, WritePairs DEF Paired
<1>5. ASSUME NEW c \in Cmds, Fill(c) PROVE Paired'
  <2>1. PICK k, r : k = cmd[c] /\ r = Command("net", k.target, << >>, k.net, k.dom, k.reload)
    OBVIOUS
  <2>2. (CmdsAfter(c, r) \/ CmdsAfter(c, i)) /\ UNCHANGED <<vm, boot>> /\ mixed' = (mixed \/ Halfway)
    <3>1. k.reload \in BOOLEAN
      BY <1>1, <2>1 DEF CmdTyped
    <3> QED BY <1>2, <1>5, <2>1, <3>1, FillEffect
  <2>3. r.pc = "net"
    BY <2>1, EarlyAgrees
  <2> QED BY <1>2, <2>2, <2>3, WritePairs DEF Paired
<1>6. ASSUME NEW c \in Cmds, ReloadNet(c) PROVE Paired'
  <2>1. PICK k, x : k = cmd[c] /\ x = NetworkPolicy(Merged(k.target))
    OBVIOUS
  <2>2. PICK r : r = Command("dom", k.target, k.held, x, k.dom, k.reload)
    OBVIOUS
  <2>3. CmdsAfter(c, r) /\ UNCHANGED <<file, vm, boot, mixed>>
    BY <1>6, <2>1, <2>2, ReloadNetEffect
  <2>4. r.pc = "dom" /\ r.net = x /\ r.target = k.target
    BY <2>2 DEF Command
  <2> QED BY <2>1, <2>3, <2>4, CommandPairs DEF Paired, ReloadAgrees
<1>7. ASSUME NEW c \in Cmds, ReloadDomain(c) PROVE Paired'
  <2>1. PICK k, x : k = cmd[c] /\ x = DomainPolicy(Merged(k.target))
    OBVIOUS
  <2>2. PICK r : r = Command("swap", k.target, k.held, k.net, x, k.reload)
    OBVIOUS
  <2>3. k.pc = "dom" /\ CmdsAfter(c, r) /\ UNCHANGED <<file, vm, boot, mixed>>
    BY <1>7, <2>1, <2>2, ReloadDomainEffect
  <2>4. r.pc = "swap" /\ r.net = k.net /\ r.dom = x
    BY <2>2 DEF Command
  <2>5. Paired /\ ~mixed => ReloadAgrees(r)
    <3>1. SUFFICES ASSUME ~mixed PROVE Agree(k.net, x)
      BY <2>4 DEF ReloadAgrees
    <3>2. k.net = NetworkPolicy(Merged(k.target))
      BY <2>1, <2>3, <3>1 DEF Paired, Pairs, FirstIsCurrent
    <3>3. k.target \in Venvs \cup {None}
      BY <1>1, <2>1 DEF CmdTyped
    <3> QED BY <2>1, <3>2, <3>3, MergedFacts
  <2> QED BY <2>3, <2>4, <2>5, CommandPairs DEF Paired
<1>8. ASSUME NEW c \in Cmds, Swap(c) PROVE Paired'
  <2>1. PICK k : k = cmd[c]
    OBVIOUS
  <2>2. /\ k.pc = "swap" /\ CmdsAfter(c, i) /\ UNCHANGED <<file, boot, mixed>>
        /\ vm' = [v \in Venvs |-> IF v \in Active THEN [on |-> vm[v].on, net |-> k.net, dom |-> k.dom] ELSE vm[v]]
    BY <1>2, <1>8, <2>1, SwapEffect
  <2>3. SUFFICES ASSUME Pairs PROVE Pairs'
    BY <2>2 DEF Paired
  <2>4. Agree(k.net, k.dom)
    BY <2>1, <2>2, <2>3 DEF Pairs, ReloadAgrees
  <2>5. \A on : MachineAgrees([on |-> on, net |-> k.net, dom |-> k.dom])
    BY <2>4 DEF MachineAgrees
  <2>6. \A v \in Venvs : MachineAgrees(vm'[v])
    BY <2>2, <2>3, <2>5 DEF Pairs
  <2>7. \A t : Merged(t)' = Merged(t)
    BY <2>2, Zenon DEF Merged
  <2>8. \A d \in Cmds : ReloadAgrees(cmd'[d]) /\ (cmd'[d].pc = "dom" => cmd'[d].net = NetworkPolicy(Merged(cmd'[d].target)))
    BY <1>2, <2>2, <2>3 DEF Pairs, CmdsAfter, FirstIsCurrent, ReloadAgrees
  <2>9. \A d \in Cmds : FirstIsCurrent(cmd[d])'
    BY <2>7, <2>8 DEF FirstIsCurrent
  <2>10. (Booting => boot.net = NetworkPolicy(Merged(boot.v)))'
    <3>1. Booting => boot.net = NetworkPolicy(Merged(boot.v))
      BY <2>3 DEF Pairs
    <3>2. boot' = boot /\ Booting' = Booting
      BY <2>2 DEF Booting
    <3> QED BY <2>7, <3>1, <3>2, Zenon
  <2>11. (\A v \in Venvs : MachineAgrees(vm[v]))' /\ (\A d \in Cmds : ReloadAgrees(cmd[d]) /\ FirstIsCurrent(cmd[d]))'
    BY <2>6, <2>8, <2>9
  <2> QED BY <2>10, <2>11 DEF Pairs
<1>9. ASSUME file' = file, cmd' = cmd, mixed' = mixed,
             Pairs => (\A v \in Venvs : MachineAgrees(vm'[v])) /\ (Booting => boot.net = NetworkPolicy(Merged(boot.v)))'
      PROVE  Paired'
  <2>1. SUFFICES ASSUME Pairs PROVE Pairs'
    BY <1>9 DEF Paired
  <2>2. \A t : Merged(t)' = Merged(t)
    BY <1>9, Zenon DEF Merged
  <2>3. \A d \in Cmds : ReloadAgrees(cmd[d])' /\ FirstIsCurrent(cmd[d])'
    BY <1>9, <2>1, <2>2 DEF Pairs, FirstIsCurrent, ReloadAgrees
  <2>4. (\A v \in Venvs : MachineAgrees(vm[v]))'
    BY <1>9, <2>1
  <2>5. (\A d \in Cmds : ReloadAgrees(cmd[d]) /\ FirstIsCurrent(cmd[d]))'
    BY <2>3
  <2> QED BY <1>9, <2>1, <2>4, <2>5 DEF Pairs
<1>10. ASSUME file' = file, boot' = boot, Pairs PROVE (Booting => boot.net = NetworkPolicy(Merged(boot.v)))'
  <2>1. \A t : Merged(t)' = Merged(t)
    BY <1>10, Zenon DEF Merged
  <2>2. Booting => boot.net = NetworkPolicy(Merged(boot.v))
    BY <1>10 DEF Pairs
  <2>3. Booting' = Booting
    BY <1>10 DEF Booting
  <2> QED BY <1>10, <2>1, <2>2, <2>3, Zenon
<1>11. ASSUME NEW v \in Venvs, BootNet(v) PROVE Paired'
  <2>1. PICK x : x = NetworkPolicy(Merged(v))
    OBVIOUS
  <2>2. boot'.v = v /\ boot'.net = x /\ UNCHANGED <<file, vm, cmd, mixed>>
    BY <1>11, <2>1, BootNetEffect
  <2>3. Merged(v)' = Merged(v)
    BY <2>2, Zenon DEF Merged
  <2>4. (boot.net = NetworkPolicy(Merged(boot.v)))'
    BY <2>1, <2>2, <2>3
  <2> QED BY <1>9, <2>2, <2>4 DEF Pairs
<1>12. ASSUME BootDone PROVE Paired'
  <2>1. PICK v, x, y, b : v = boot.v /\ x = boot.net /\ y = DomainPolicy(Merged(v)) /\ b = NoBoot
    OBVIOUS
  <2>2. PICK m : m = [on |-> TRUE, net |-> x, dom |-> y]
    OBVIOUS
  <2>3. v \in Venvs /\ MachinesAfter(v, m) /\ boot' = b /\ UNCHANGED <<file, cmd, mixed>>
    BY <1>12, <2>1, <2>2, BootDoneEffect
  <2>4. ~Booting'
    BY <2>1, <2>3, OffTyped DEF Booting
  <2>5. ASSUME Pairs PROVE \A w \in Venvs : MachineAgrees(vm'[w])
    <3>1. x = NetworkPolicy(Merged(v))
      BY <1>12, <2>1, <2>5 DEF BootDone, Pairs
    <3>2. Agree(x, y)
      BY <2>1, <2>3, <3>1, MergedFacts
    <3>3. MachineAgrees(m)
      BY <2>2, <3>2 DEF MachineAgrees
    <3> QED BY <2>3, <2>5, <3>3 DEF MachinesAfter, Pairs
  <2> QED BY <1>9, <2>3, <2>4, <2>5
<1>13. ASSUME NEW v \in Venvs, Stop(v) PROVE Paired'
  <2>1. PICK m : m = Off
    OBVIOUS
  <2>2. MachinesAfter(v, m) /\ UNCHANGED <<file, boot, cmd, mixed>>
    BY <1>13, <2>1, StopEffect
  <2>3. MachineAgrees(m)
    BY <2>1 DEF MachineAgrees, Off
  <2>4. Pairs => \A w \in Venvs : MachineAgrees(vm'[w])
    BY <2>2, <2>3 DEF MachinesAfter, Pairs
  <2> QED BY <1>9, <1>10, <2>2, <2>4
<1>14. ASSUME NEW v \in Venvs \cup {None}, Focus(v) PROVE Paired'
  <2>1. UNCHANGED <<file, vm, boot, cmd, mixed>>
    BY <1>14 DEF Focus
  <2>2. Pairs => \A w \in Venvs : MachineAgrees(vm'[w])
    BY <2>1 DEF Pairs
  <2> QED BY <1>9, <1>10, <2>1, <2>2
<1>15. ASSUME UNCHANGED vars PROVE Paired'
  <2>1. UNCHANGED <<file, vm, boot, cmd, mixed>>
    BY <1>15 DEF vars
  <2>2. Pairs => \A w \in Venvs : MachineAgrees(vm'[w])
    BY <2>1 DEF Pairs
  <2> QED BY <1>9, <1>10, <2>1, <2>2
<1>16. ASSUME Crash PROVE Paired'
  <2>1. PICK m, b : m = Off /\ b = NoBoot
    OBVIOUS
  <2>2. vm' = [v \in Venvs |-> m] /\ cmd' = [c \in Cmds |-> i] /\ boot' = b
    BY <1>2, <1>16, <2>1, Zenon DEF Crash
  <2>3. MachineAgrees(m) /\ ReloadAgrees(i)
    BY <1>2, <2>1 DEF MachineAgrees, ReloadAgrees, Off
  <2>4. \A d \in Cmds : FirstIsCurrent(cmd[d])'
    BY <1>2, <2>2 DEF FirstIsCurrent
  <2>5. ~Booting'
    BY <2>1, <2>2, OffTyped DEF Booting
  <2>6. (\A v \in Venvs : MachineAgrees(vm[v]))' /\ (\A d \in Cmds : ReloadAgrees(cmd[d]) /\ FirstIsCurrent(cmd[d]))'
    BY <2>2, <2>3, <2>4
  <2> QED BY <2>5, <2>6 DEF Paired, Pairs
<1> QED BY <1>3, <1>4, <1>5, <1>6, <1>7, <1>8, <1>11, <1>12, <1>13, <1>14, <1>15, <1>16, Steps, Zenon

LEMMA InitPaired == ASSUME Init PROVE Paired
<1>1. PICK m, i : m = Off /\ i = Idle
  OBVIOUS
<1>2. vm = [v \in Venvs |-> m] /\ cmd = [c \in Cmds |-> i]
  BY <1>1, Zenon DEF Init
<1>3. m.on = FALSE /\ i.pc = "idle"
  BY <1>1, OffTyped DEF Off, Command
<1>4. ~Booting
  BY OffTyped, Zenon DEF Init, Booting
<1> QED BY <1>2, <1>3, <1>4 DEF Paired, Pairs, MachineAgrees, ReloadAgrees, FirstIsCurrent

\* Whatever reloads, boots, focus changes and deaths there are, and whatever the files
\* hold: as long as no file was written between the two policies of a reload or of a
\* boot, a domain that the gateway's policy of a machine allows is one that the proxy's
\* policy lets it read and write, unless allow_all_domains replaced the gateway's.
THEOREM GatewayStaysWithin == Spec => []GatewayWithinProxy
<1>1. Paired => GatewayWithinProxy
  <2>1. Pairs => \A v \in Running : Agree(vm[v].net, vm[v].dom)
    BY DEF Pairs, MachineAgrees, Running
  <2> QED BY <2>1, Zenon DEF Paired, GatewayWithinProxy, Agree
<1> QED BY <1>1, InitTyped, TypedStep, InitPaired, PairedStep, PTL DEF Spec

------------------------------------------------------------------------------
(* Between two commands: a setting reaches the guest or is reported.        *)

\* What lint lets pass.
LEMMA LintPasses ==
    ASSUME NEW R, NEW id, NEW x, x = R[id].value, LintErrors(R, id) = {}
    PROVE  /\ LintRange(id, x) = {} /\ AsText(x) # "nul"
           /\ x.t = "file" => x.v.path \notin {"", "a/../b", "a.json"}
<1> DEFINE Wrong(e) ==
               \/ e = "nul" /\ AsText(x) = "nul"
               \/ e = "choice" /\ Def(id).choices # {} /\ x.t = "text" /\ x.v \notin Def(id).choices
               \/ e = "path" /\ x.t = "file" /\ x.v.path \in {"", "a/../b", "a.json"}
               \/ e = "json" /\ x.t = "file" /\ x.v.path \in {"/a.json", "a.json"}
                    /\ x.v.content = "not json"
<1>1. LintErrors(R, id) = LintRange(id, x) \cup {e \in {"nul", "choice", "path", "json"} : Wrong(e)}
  BY Zenon DEF LintErrors
<1> HIDE DEF Wrong
<1>2. LintRange(id, x) = {} /\ ~Wrong("nul") /\ ~Wrong("path")
  BY <1>1
<1> QED BY <1>2, Zenon DEF Wrong

\* The text of a value.
LEMMA EnvTextIs ==
    ASSUME NEW x
    PROVE  /\ x.t = "text" => EnvText(x) = x.v /\ AsText(x) = x.v
           /\ x.t = "file" => EnvText(x) = x.v.content
           /\ x.t # "text" /\ x.t # "file" => EnvText(x) = ""
  BY Zenon DEF EnvText, AsText

\* The text for a variable that is none of those that are silently left out.
LEMMA TextGiven ==
    ASSUME NEW R, NEW id \in DOMAIN R, LintErrors(R, id) = {}, NEW k \in Variables(id), ~Silent(R, id, k)
    PROVE  id \in Givers(R, k)
<1>1. PICK x : x = R[id].value
  OBVIOUS
<1>2. AsText(x) # "nul"
  BY <1>1, LintPasses, Zenon
<1>3. GuestText(id, x) # "" /\ GuestText(id, x) # "too long" /\ ValidKey(k)
  BY <1>1, Zenon DEF Silent
<1>4. GuestText(id, x) # "nul"
  <2>1. CASE id \in Dynamic
    BY <1>2, <2>1, Zenon DEF GuestText
  <2>2. CASE id \notin Dynamic /\ Def(id).type = "bool"
    BY <2>2, Zenon DEF GuestText
  <2>3. CASE id \notin Dynamic /\ Def(id).type # "bool"
    <3>1. GuestText(id, x) = EnvText(x)
      BY <2>3, Zenon DEF GuestText
    <3>2. x.t = "file" => x.v.content # "nul"
      BY <1>1, Zenon DEF Silent
    <3> QED BY <1>2, <1>3, <3>1, <3>2, EnvTextIs, Zenon
  <2> QED BY <2>1, <2>2, <2>3
<1>5. ValidText(GuestText(id, x))
  BY <1>3, <1>4, Zenon DEF ValidText
<1> QED BY <1>1, <1>3, <1>5, Zenon DEF Givers

\* No other setting's text takes its place.
LEMMA VariableGiven ==
    ASSUME NEW R, DOMAIN R \subseteq Ids, NEW id \in DOMAIN R, LintErrors(R, id) = {},
           NEW k \in Variables(id), ~Silent(R, id, k)
    PROVE  k \in DOMAIN GuestEnv(R) /\ GuestEnv(R)[k] = GuestText(id, R[id].value)
<1>1. id \in Givers(R, k)
  BY TextGiven
<1>2. PICK S : S = Givers(R, k)
  OBVIOUS
<1> DEFINE giver == CHOOSE j \in S : S \cap Dynamic # {} => j \in S \cap Dynamic
<1>3. \A j \in S : j \in DOMAIN R /\ k \in Variables(j)
  BY <1>2, Zenon DEF Givers
<1>4. id \in Dynamic \/ S \cap Dynamic = {}
  BY <1>3, Zenon DEF Silent
<1>5. giver \in S /\ (S \cap Dynamic # {} => giver \in Dynamic)
  <2>1. \E j \in S : S \cap Dynamic # {} => j \in S \cap Dynamic
    BY <1>1, <1>2, <1>4, Zenon
  <2> QED BY <2>1
<1>6. ASSUME NEW j \in S, j \in Dynamic <=> id \in Dynamic PROVE j = id
  <2>1. CASE id \in Dynamic
    <3>1. Last(j) = k /\ Last(id) = k
      BY <1>3, <1>6, <2>1 DEF Variables
    <3> QED BY <1>6, <2>1, <3>1, RegistryAssumption, Zenon
  <2>2. CASE id \notin Dynamic
    <3>1. j \in Range(Order) /\ id \in Range(Order)
      BY <1>3, <1>6, <2>2 DEF Ids
    <3>2. k \in Def(j).env /\ k \in Def(id).env
      BY <1>3, <1>6, <2>2, Zenon DEF Variables
    <3>3. j # id => Def(j).env \cap Def(id).env = {}
      BY <3>1, RegistryAssumption, Zenon
    <3> QED BY <3>2, <3>3
  <2> QED BY <2>1, <2>2
<1>7. giver = id
  <2>1. giver \in Dynamic <=> id \in Dynamic
    BY <1>1, <1>2, <1>4, <1>5
  <2> HIDE DEF giver
  <2> QED BY <1>5, <1>6, <2>1
<1>8. k \in {i \in UNION {Variables(j) : j \in DOMAIN R} : Givers(R, i) # {}}
  BY <1>1
<1>9. GuestEnv(R)[k] = LET dynamic == Givers(R, k) \cap Dynamic
                            who == CHOOSE j \in Givers(R, k) : dynamic # {} => j \in dynamic
                        IN GuestText(who, R[who].value)
  BY <1>8, Zenon DEF GuestEnv
<1>10. GuestEnv(R)[k] = GuestText(giver, R[giver].value)
  BY <1>2, <1>9, Zenon
<1>11. k \in DOMAIN GuestEnv(R)
  BY <1>8, Zenon DEF GuestEnv
<1> HIDE DEF giver
<1> QED BY <1>7, <1>10, <1>11, Zenon

\* A file with a content: lint looks for the paths that the guest is not given.
LEMMA FileApplied ==
    ASSUME NEW R, NEW id \in DOMAIN R, LintErrors(R, id) = {},
           R[id].value.t = "file", R[id].value.v.content # "", R[id].value.v.path # "nul"
    PROVE  id \in GuestFiles(R)
<1>1. R[id].value.v.path \notin {"", "a/../b", "a.json"}
  BY LintPasses, Zenon
<1>2. ValidPath(R[id].value.v.path)
  BY <1>1, Zenon DEF ValidPath
<1> QED BY <1>2, Zenon DEF GuestFiles

\* A number: a negative one is below the limit, so that what the cast makes of it
\* is no value that lint lets pass.
LEMMA NumberApplied ==
    ASSUME NEW R, NEW id \in Range(Order), LintErrors(R, id) = {}, WellTyped(R[id].value),
           Def(id).type = "number"
    PROVE  VmSetting(R, id, Def(id).min) \in Def(id).min .. Def(id).max
<1>1. PICK x : x = R[id].value
  OBVIOUS
<1>2. PICK min \in Nat, max \in Nat : /\ min = Def(id).min /\ max = Def(id).max
                                     /\ min # None /\ max # None /\ min <= max
  BY RegistryAssumption
<1>3. VmSetting(R, id, min) = CASE x.t = "number" /\ x.v >= 0 -> x.v
                                [] x.t = "number" /\ x.v < 0 -> 2147483647
                                [] OTHER -> min
  BY <1>1 DEF VmSetting
<1>4. CASE x.t = "number"
  <2>1. LintRange(id, x) = {}
    BY <1>1, LintPasses, Zenon
  <2>2. ~(x.v < min) /\ ~(x.v > max)
    <3>1. "low" \notin LintRange(id, x) /\ "high" \notin LintRange(id, x)
      BY <2>1
    <3> QED BY <1>2, <1>4, <3>1 DEF LintRange
  <2>3. x.v \in Int
    BY <1>1, <1>4 DEF WellTyped
  <2>4. x.v >= 0 /\ x.v \in min..max
    BY <2>2, <2>3
  <2> QED BY <1>2, <1>3, <1>4, <2>4
<1>5. CASE x.t # "number"
  <2>1. VmSetting(R, id, min) = min
    BY <1>3, <1>5
  <2> QED BY <1>2, <2>1
<1> QED BY <1>4, <1>5

\* Whatever the files hold, between two commands: the guest of the next machine gets the
\* text of a setting in each of its variables and the file of a setting, or config_lint
\* has an error about the setting, or it is one of the cases that Silent and the property
\* name, which are left out without a word; and a number a machine is booted with is
\* within its limits.
THEOREM SettingsAreAppliedOrReported == Spec => []AppliedOrReported
<1>1. ASSUME Typed, NEW v \in Venvs \cup {None}, NEW R, R = Merged(v), NEW id \in Range(Order)
      PROVE  WellTyped(R[id].value)
  <2>1. PICK u, w, c : u = file["user"] /\ w = (IF v = None THEN << >> ELSE file[v]) /\ c = file["corp"]
    OBVIOUS
  <2>2. Sound(<< >>) /\ \A f \in Files : Sound(file[f])
    BY <1>1 DEF Sound, Typed, FilesTyped
  <2>3. Sound(u) /\ Sound(w) /\ Sound(c)
    BY <2>1, <2>2 DEF Files
  <2>4. R = Resolve(u, w, c)
    BY <1>1, <2>1, Zenon DEF Merged
  <2> QED BY <2>3, <2>4, ResolvedIs
<1>2. ASSUME Typed PROVE AppliedOrReported
  <2> SUFFICES ASSUME NEW v \in Venvs \cup {None}, NEW R, R = Merged(v), NEW id \in DOMAIN R,
                      LintErrors(R, id) = {}
               PROVE  /\ \A k \in Variables(id) : \/ Silent(R, id, k)
                                                  \/ /\ k \in DOMAIN GuestEnv(R)
                                                     /\ GuestEnv(R)[k] = GuestText(id, R[id].value)
                      /\ (/\ R[id].value.t = "file" /\ R[id].value.v.content # ""
                          /\ R[id].value.v.path # "nul") => id \in GuestFiles(R)
                      /\ (id \in Range(Order) /\ Def(id).type = "number") =>
                            VmSetting(R, id, Def(id).min) \in Def(id).min .. Def(id).max
    BY Zenon DEF AppliedOrReported
  <2>1. DOMAIN R \subseteq Ids
    BY Zenon DEF Merged, Resolve, DynamicKeys, Ids
  <2> QED BY <1>1, <1>2, <2>1, VariableGiven, FileApplied, NumberApplied, Zenon
<1>3. Init => Typed
  BY InitTyped
<1>4. Typed /\ [Next]_vars => Typed'
  BY TypedStep
<1> QED BY <1>2, <1>3, <1>4, PTL DEF Spec
==============================================================================
