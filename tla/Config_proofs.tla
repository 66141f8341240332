----------------------------- MODULE Config_proofs -----------------------------
(***************************************************************************)
(* What Config computes from files and flags of any size, for any number   *)
(* of ports.  The model folds over sequences built from the file, so the   *)
(* lemmas are inductions on lengths.  The induction theorems of the        *)
(* library take a predicate; here the predicate is the set of the numbers  *)
(* that have it, and such a set that has 0 and is closed under successor   *)
(* is Nat.                                                                 *)
(***************************************************************************)
EXTENDS Config, WellFoundedInduction, FiniteSetTheorems, TLAPS

-----------------------------------------------------------------------------
(* Induction *)

\* A set of naturals that is not empty has a least element.
LEMMA LeastNatural ==
  ASSUME NEW T \in SUBSET Nat, T # {}
  PROVE  \E n \in T : \A m \in T : n <= m
<1> DEFINE R == {ss \in Nat \X Nat : ss[1] < ss[2]}
<1>1. IsWellFoundedOn(R, Nat)
  BY NatLessThanWellFounded DEF OpToRel
<1> HIDE DEF R
<1>2. PICK n \in T : \A m \in T : ~ (<<m, n>> \in R)
  BY <1>1, WFMin
<1>3. \A m \in T : ~ (m < n)
  BY <1>2 DEF R
<1> QED BY <1>3

\* Induction on the naturals, for the set T of those that have a property.
LEMMA SetInduction ==
  ASSUME NEW T, 0 \in T, \A n \in Nat : n \in T => n + 1 \in T
  PROVE  Nat \subseteq T
<1> SUFFICES ASSUME Nat \ T # {} PROVE FALSE
  OBVIOUS
<1>1. PICK n \in Nat \ T : \A m \in Nat \ T : n <= m
  BY LeastNatural
<1>2. n # 0 /\ n - 1 \in Nat /\ n - 1 \in T
  BY <1>1
<1> QED BY <1>1, <1>2

-----------------------------------------------------------------------------
(* FlattenSeq *)

\* The recursive function inside FlattenSeq.
Flatten(seqs) ==
  CHOOSE flatten : flatten = [i \in 1..Len(seqs) |->
                                IF i = 1 THEN seqs[i] ELSE flatten[i - 1] \o seqs[i]]

\* There is a function that meets the equation of FlattenSeq, of any length.
LEMMA FlattenExists ==
  ASSUME NEW seqs, NEW n \in Nat
  PROVE  \E f : f = [i \in 1..n |-> IF i = 1 THEN seqs[i] ELSE f[i - 1] \o seqs[i]]
<1> DEFINE Meets(m, f) == f = [i \in 1..m |-> IF i = 1 THEN seqs[i] ELSE f[i - 1] \o seqs[i]]
           T == {m \in Nat : \E f : Meets(m, f)}
<1>1. 0 \in T
  <2>1. Meets(0, [i \in 1..0 |-> 0])
    OBVIOUS
  <2> QED BY <2>1
<1>2. ASSUME NEW m \in Nat, m \in T PROVE m + 1 \in T
  <2>1. PICK f : Meets(m, f)
    <3> HIDE DEF Meets
    <3> QED BY <1>2
  <2> DEFINE g == [i \in 1..(m + 1) |->
                     IF i = m + 1 THEN IF i = 1 THEN seqs[i] ELSE f[i - 1] \o seqs[i] ELSE f[i]]
  <2>2. \A i \in 1..m : g[i] = f[i]
    OBVIOUS
  <2>3. ASSUME NEW i \in 1..m PROVE g[i] = IF i = 1 THEN seqs[i] ELSE g[i - 1] \o seqs[i]
    <3>1. f[i] = IF i = 1 THEN seqs[i] ELSE f[i - 1] \o seqs[i]
      BY <2>1
    <3>2. i # 1 => i - 1 \in 1..m
      OBVIOUS
    <3> QED BY <2>2, <3>1, <3>2
  <2>4. g[m + 1] = IF m + 1 = 1 THEN seqs[m + 1] ELSE g[(m + 1) - 1] \o seqs[m + 1]
    <3>1. m + 1 # 1 => (m + 1) - 1 \in 1..m
      OBVIOUS
    <3> QED BY <2>2, <3>1
  <2>5. g = [i \in 1..(m + 1) |-> g[i]]
    OBVIOUS
  <2> HIDE DEF g
  <2>6. \A i \in 1..(m + 1) : i \in 1..m \/ i = m + 1
    OBVIOUS
  <2>7. Meets(m + 1, g)
    BY <2>3, <2>4, <2>5, <2>6
  <2>8. \E h : Meets(m + 1, h)
    BY <2>7
  <2> HIDE DEF Meets
  <2> QED BY <2>8
<1>3. Nat \subseteq T
  <2> HIDE DEF T
  <2> QED BY <1>1, <1>2, SetInduction
<1> QED BY <1>3

\* The concatenation of two sequences holds the elements of both.
LEMMA RangeOfConcat ==
  ASSUME NEW R, NEW s \in Seq(R), NEW t \in Seq(R)
  PROVE  s \o t \in Seq(R) /\ Range(s \o t) = Range(s) \cup Range(t)
<1>1. /\ s \o t \in Seq(R) /\ Len(s \o t) = Len(s) + Len(t)
      /\ \A i \in 1..Len(s) : (s \o t)[i] = s[i]
      /\ \A i \in 1..Len(t) : (s \o t)[Len(s) + i] = t[i]
  OBVIOUS
<1>2. \A i \in 1..(Len(s) + Len(t)) :
        i \in 1..Len(s) \/ (i - Len(s) \in 1..Len(t) /\ i = Len(s) + (i - Len(s)))
  OBVIOUS
<1>3. \A i \in 1..Len(s) : i \in 1..(Len(s) + Len(t))
  OBVIOUS
<1>4. \A i \in 1..Len(t) : Len(s) + i \in 1..(Len(s) + Len(t))
  OBVIOUS
<1>5. DOMAIN s = 1..Len(s) /\ DOMAIN t = 1..Len(t) /\ DOMAIN (s \o t) = 1..(Len(s) + Len(t))
  BY <1>1
<1>6. ASSUME NEW x \in Range(s \o t) PROVE x \in Range(s) \cup Range(t)
  <2>1. PICK i \in 1..(Len(s) + Len(t)) : x = (s \o t)[i]
    BY <1>5 DEF Range
  <2> QED BY <1>1, <1>2, <1>5, <2>1 DEF Range
<1>7. ASSUME NEW x \in Range(s) \cup Range(t) PROVE x \in Range(s \o t)
  <2>1. CASE x \in Range(s)
    BY <1>1, <1>3, <1>5, <2>1 DEF Range
  <2>2. CASE x \in Range(t)
    BY <1>1, <1>4, <1>5, <2>2 DEF Range
  <2> QED BY <2>1, <2>2
<1> QED BY <1>1, <1>6, <1>7

\* FlattenSeq gives a sequence of exactly the elements of its sequences.
LEMMA FlattenSeqCorrect ==
  ASSUME NEW R, NEW seqs \in Seq(Seq(R))
  PROVE  /\ FlattenSeq(seqs) \in Seq(R)
         /\ Range(FlattenSeq(seqs)) = UNION {Range(seqs[i]) : i \in DOMAIN seqs}
<1> DEFINE n == Len(seqs)
           f == Flatten(seqs)
           Parts(m) == UNION {Range(seqs[i]) : i \in 1..m}
           Right(m) == f[m] \in Seq(R) /\ Range(f[m]) = Parts(m)
           T == {m \in Nat : m \in 1..n => Right(m)}
<1>1. n \in Nat /\ DOMAIN seqs = 1..n /\ \A i \in 1..n : seqs[i] \in Seq(R)
  OBVIOUS
<1>2. FlattenSeq(seqs) = IF n = 0 THEN seqs ELSE f[n]
  BY DEF FlattenSeq, Flatten
<1>3. seqs = <<>> <=> n = 0
  OBVIOUS
<1>4. f = [i \in 1..n |-> IF i = 1 THEN seqs[i] ELSE f[i - 1] \o seqs[i]]
  BY <1>1, FlattenExists DEF Flatten
<1> HIDE DEF f, n
<1>5. \A m \in 1..n : f[m] = IF m = 1 THEN seqs[m] ELSE f[m - 1] \o seqs[m]
  BY <1>4
<1>6. 0 \in T
  BY <1>1
<1>7. ASSUME NEW m \in Nat, m \in T PROVE m + 1 \in T
  <2> SUFFICES ASSUME m + 1 \in 1..n PROVE Right(m + 1)
    OBVIOUS
  <2>1. seqs[m + 1] \in Seq(R)
    BY <1>1
  <2>2. Parts(m + 1) = Parts(m) \cup Range(seqs[m + 1])
    <3>1. 1..(m + 1) = 1..m \cup {m + 1}
      OBVIOUS
    <3> QED BY <3>1
  <2>3. CASE m = 0
    <3>1. Parts(0) = {} /\ f[m + 1] = seqs[m + 1]
      BY <1>5, <2>3
    <3> QED BY <2>1, <2>2, <2>3, <3>1
  <2>4. CASE m # 0
    <3>1. m \in 1..n
      BY <1>1, <2>4
    <3>2. f[m + 1] = f[m] \o seqs[m + 1]
      <4>1. (m + 1) - 1 = m /\ m + 1 # 1
        BY <2>4
      <4> QED BY <1>5, <4>1
    <3>3. f[m] \in Seq(R) /\ Range(f[m]) = Parts(m)
      BY <1>7, <3>1
    <3>4. f[m + 1] \in Seq(R) /\ Range(f[m + 1]) = Range(f[m]) \cup Range(seqs[m + 1])
      BY <2>1, <3>2, <3>3, RangeOfConcat
    <3> QED BY <2>2, <3>3, <3>4
  <2> QED BY <2>3, <2>4
<1>8. Nat \subseteq T
  <2> HIDE DEF T
  <2> QED BY <1>6, <1>7, SetInduction
<1>9. CASE n = 0
  BY <1>2, <1>3, <1>9 DEF Range
<1>10. CASE n # 0
  <2>1. n \in 1..n /\ FlattenSeq(seqs) = f[n]
    BY <1>1, <1>2, <1>10
  <2>2. Right(n)
    <3> HIDE DEF Right
    <3> QED BY <1>1, <1>8, <2>1
  <2> QED BY <1>1, <2>1, <2>2
<1> QED BY <1>9, <1>10

-----------------------------------------------------------------------------
(* Rules *)

Pair == [local : Int, remote : Int]
Rule == [id : Optional(STRING), pair : Pair]

\* The pairs that mappings and flags name, however they are written.
PairsOf(mappings, cli) ==
  (UNION {Range(MappingPairs(mappings[i])) : i \in DOMAIN mappings})
    \cup (IF cli.mapping = Unset THEN {}
          ELSE Range(ExpandPortRange(cli.mapping.local, cli.mapping.remote)))
    \cup (IF cli.local = Unset /\ cli.remote = Unset THEN {}
          ELSE Range(ExpandPortRange(cli.local, cli.remote)))

\* What is expanded is a list of pairs.
LEMMA ExpandType ==
  ASSUME NEW l \in Optional(PortSpec), NEW r \in Optional(PortSpec), Expandable(l, r)
  PROVE  ExpandPortRange(l, r) \in Seq(Pair)
<1>1. l \in PortSpec /\ r \in PortSpec /\ l.first <= l.last
  BY DEF Expandable, ValidSpec, Optional
<1>2. Size(l) \in Nat /\ l.first \in Int /\ r.first \in Int
  BY <1>1 DEF Size, PortSpec
<1>3. ExpandPortRange(l, r) \in [1..Size(l) -> Pair]
  BY <1>2 DEF ExpandPortRange, Pair
<1> QED BY <1>2, <1>3

\* So are the pairs of a mapping that is accepted.
LEMMA MappingPairsType ==
  ASSUME NEW m \in Mapping, MappingAccepted(m)
  PROVE  MappingPairs(m) \in Seq(Pair)
<1>1. /\ m.localPort \in Int /\ m.remotePort \in Int /\ m.range \in Optional(Sides)
      /\ m.localRange \in Optional(PortSpec) /\ m.remoteRange \in Optional(PortSpec)
  BY DEF Mapping
<1>2. CASE m.range # Unset
  <2>1. m.range.local \in Optional(PortSpec) /\ m.range.remote \in Optional(PortSpec)
    BY <1>1, <1>2 DEF Optional, Sides
  <2> QED BY <1>2, <2>1, ExpandType DEF MappingAccepted, MappingPairs
<1>3. CASE m.range = Unset /\ Ranged(m)
  <2>1. LocalSpec(m) \in Optional(PortSpec) /\ RemoteSpec(m) \in Optional(PortSpec)
    BY <1>1 DEF LocalSpec, RemoteSpec, SideSpec, Spec1, PortSpec, Optional
  <2> QED BY <1>3, <2>1, ExpandType DEF MappingAccepted, MappingPairs
<1>4. CASE m.range = Unset /\ ~Ranged(m)
  BY <1>1, <1>4 DEF MappingPairs, Pair
<1> QED BY <1>2, <1>3, <1>4

\* Giving pairs an ID changes none of them.
LEMMA AppendPairsKeeps ==
  ASSUME NEW id \in Optional(STRING), NEW pairs \in Seq(Pair)
  PROVE  /\ AppendPairs(id, pairs) \in Seq(Rule)
         /\ {rule.pair : rule \in Range(AppendPairs(id, pairs))} = Range(pairs)
<1>1. /\ Len(pairs) \in Nat /\ DOMAIN pairs = 1..Len(pairs)
      /\ \A i \in DOMAIN pairs : pairs[i] \in Pair
  OBVIOUS
<1>2. AppendPairs(id, pairs) \in [1..Len(pairs) -> Rule]
  BY <1>1 DEF AppendPairs, Rule, Optional
<1>3. DOMAIN AppendPairs(id, pairs) = DOMAIN pairs
  BY DEF AppendPairs
<1>4. \A i \in DOMAIN pairs : AppendPairs(id, pairs)[i].pair = pairs[i]
  BY DEF AppendPairs
<1> HIDE DEF AppendPairs
<1>5. {rule.pair : rule \in Range(AppendPairs(id, pairs))} = Range(pairs)
  BY <1>3, <1>4 DEF Range
<1> QED BY <1>1, <1>2, <1>5

\* BuildRules asks for the pairs of its input, no more and no fewer.
LEMMA AskedPairs ==
  ASSUME NEW mappings \in Seq(Mapping), NEW cli \in Flags, FlagsAccepted(mappings, cli),
         \A i \in DOMAIN mappings : MappingAccepted(mappings[i])
  PROVE  /\ Asked(mappings, cli) \in Seq(Rule)
         /\ {rule.pair : rule \in Range(Asked(mappings, cli))} = PairsOf(mappings, cli)
<1> DEFINE Given(i) == AppendPairs(mappings[i].id, MappingPairs(mappings[i]))
           lists == [i \in DOMAIN mappings |-> Given(i)]
           A == FlattenSeq(lists)
           B == IF cli.mapping = Unset THEN <<>>
                ELSE AppendPairs(cli.id, ExpandPortRange(cli.mapping.local, cli.mapping.remote))
           C == IF cli.local = Unset /\ cli.remote = Unset THEN <<>>
                ELSE AppendPairs(cli.id, ExpandPortRange(cli.local, cli.remote))
           AB == A \o B
           Pairs(rules) == {rule.pair : rule \in Range(rules)}
           fromMappings == UNION {Range(MappingPairs(mappings[i])) : i \in DOMAIN mappings}
           fromMapping == IF cli.mapping = Unset THEN {}
                          ELSE Range(ExpandPortRange(cli.mapping.local, cli.mapping.remote))
           fromSides == IF cli.local = Unset /\ cli.remote = Unset THEN {}
                        ELSE Range(ExpandPortRange(cli.local, cli.remote))
<1>1. \A i \in DOMAIN mappings : mappings[i] \in Mapping /\ mappings[i].id \in Optional(STRING)
  <2>1. \A m \in Mapping : m.id \in Optional(STRING)
    BY DEF Mapping
  <2>2. \A i \in DOMAIN mappings : mappings[i] \in Mapping
    OBVIOUS
  <2> QED BY <2>1, <2>2
<1>2. \A i \in DOMAIN mappings :
        Given(i) \in Seq(Rule) /\ Pairs(Given(i)) = Range(MappingPairs(mappings[i]))
  BY <1>1, MappingPairsType, AppendPairsKeeps
<1>3. lists \in Seq(Seq(Rule)) /\ DOMAIN lists = DOMAIN mappings
  <2>1. DOMAIN mappings = 1..Len(mappings) /\ Len(mappings) \in Nat
    OBVIOUS
  <2>2. lists \in [1..Len(mappings) -> Seq(Rule)]
    BY <1>2, <2>1
  <2> QED BY <2>1, <2>2
<1>4. A \in Seq(Rule) /\ Range(A) = UNION {Range(Given(i)) : i \in DOMAIN mappings}
  <2>1. \A i \in DOMAIN mappings : lists[i] = Given(i)
    OBVIOUS
  <2> HIDE DEF lists, Given
  <2> QED BY <1>3, <2>1, FlattenSeqCorrect
<1>5. Pairs(A) = fromMappings
  <2> HIDE DEF Given, A
  <2> QED BY <1>2, <1>4
<1>6. B \in Seq(Rule) /\ Pairs(B) = fromMapping
  <2>1. CASE cli.mapping = Unset
    BY <2>1 DEF Range
  <2>2. CASE cli.mapping # Unset
    <3>1. /\ cli.mapping.local \in Optional(PortSpec) /\ cli.mapping.remote \in Optional(PortSpec)
          /\ cli.id \in Optional(STRING)
      BY <2>2 DEF Flags, Optional, Sides
    <3>2. ExpandPortRange(cli.mapping.local, cli.mapping.remote) \in Seq(Pair)
      BY <2>2, <3>1, ExpandType DEF FlagsAccepted
    <3> QED BY <2>2, <3>1, <3>2, AppendPairsKeeps
  <2> QED BY <2>1, <2>2
<1>7. C \in Seq(Rule) /\ Pairs(C) = fromSides
  <2>1. CASE cli.local = Unset /\ cli.remote = Unset
    BY <2>1 DEF Range
  <2>2. CASE ~(cli.local = Unset /\ cli.remote = Unset)
    <3>1. /\ cli.local \in Optional(PortSpec) /\ cli.remote \in Optional(PortSpec)
          /\ cli.id \in Optional(STRING)
      BY DEF Flags
    <3>2. ExpandPortRange(cli.local, cli.remote) \in Seq(Pair)
      BY <2>2, <3>1, ExpandType DEF FlagsAccepted
    <3> QED BY <2>2, <3>1, <3>2, AppendPairsKeeps
  <2> QED BY <2>1, <2>2
<1>8. Asked(mappings, cli) = AB \o C
  BY DEF Asked
<1>9. PairsOf(mappings, cli) = fromMappings \cup fromMapping \cup fromSides
  BY DEF PairsOf
<1> HIDE DEF A, B, C, fromMappings, fromMapping, fromSides
<1>10. AB \in Seq(Rule) /\ Range(AB) = Range(A) \cup Range(B)
  BY <1>4, <1>6, RangeOfConcat
<1> HIDE DEF AB
<1>11. AB \o C \in Seq(Rule) /\ Range(AB \o C) = Range(AB) \cup Range(C)
  BY <1>7, <1>10, RangeOfConcat
<1>12. Pairs(AB \o C) = Pairs(A) \cup Pairs(B) \cup Pairs(C)
  BY <1>10, <1>11
<1>13. Pairs(AB \o C) = PairsOf(mappings, cli)
  <2> HIDE DEF Pairs
  <2> QED BY <1>5, <1>6, <1>7, <1>9, <1>12
<1> QED BY <1>8, <1>11, <1>13

\* Generated IDs change no pair.
LEMMA NamedKeeps ==
  ASSUME NEW asked \in Seq(Rule)
  PROVE  /\ Len(asked) \in Nat /\ DOMAIN Named(asked) = 1..Len(asked)
         /\ {rule.pair : rule \in Range(Named(asked))} = {rule.pair : rule \in Range(asked)}
<1>1. /\ Len(asked) \in Nat /\ DOMAIN asked = 1..Len(asked)
      /\ \A i \in DOMAIN asked : asked[i] \in Rule
  OBVIOUS
<1>2. DOMAIN Named(asked) = DOMAIN asked
  BY DEF Named
<1>3. \A i \in DOMAIN asked : Named(asked)[i].pair = asked[i].pair
  BY <1>1 DEF Named, Rule
<1> HIDE DEF Named
<1>4. {rule.pair : rule \in Range(Named(asked))} = {rule.pair : rule \in Range(asked)}
  BY <1>2, <1>3 DEF Range
<1> QED BY <1>1, <1>2, <1>4

\* With distinct IDs, the tunnel holds every rule.
LEMMA NoneIgnored ==
  ASSUME NEW rules, NEW n \in Nat, DOMAIN rules = 1..n, NoDuplicate(rules)
  PROVE  {rule.pair : rule \in Range(rules)} = Range(NewTunnelRules(rules))
<1> DEFINE ids == {rules[i].id : i \in DOMAIN rules}
           First(id) == CHOOSE i \in DOMAIN rules :
                          rules[i].id = id /\ \A j \in 1..(i - 1) : rules[j].id # id
<1>1. \A i, j \in DOMAIN rules : rules[i].id = rules[j].id => i = j
  BY DEF NoDuplicate, IsInjective
<1>2. \A i \in DOMAIN rules : First(rules[i].id) = i
  <2> SUFFICES ASSUME NEW i \in DOMAIN rules PROVE First(rules[i].id) = i
    OBVIOUS
  <2>1. \A j \in 1..(i - 1) : j \in DOMAIN rules /\ j # i
    OBVIOUS
  <2>2. \A j \in 1..(i - 1) : rules[j].id # rules[i].id
    BY <1>1, <2>1
  <2>3. /\ First(rules[i].id) \in DOMAIN rules
        /\ rules[First(rules[i].id)].id = rules[i].id
    BY <2>2
  <2> HIDE DEF First
  <2> QED BY <1>1, <2>3
<1>3. NewTunnelRules(rules) = [id \in ids |-> rules[First(id)].pair]
  BY DEF NewTunnelRules
<1> HIDE DEF First
<1>4. Range(NewTunnelRules(rules)) = {rules[First(id)].pair : id \in ids}
  BY <1>3 DEF Range
<1>5. {rules[First(id)].pair : id \in ids} = {rules[i].pair : i \in DOMAIN rules}
  BY <1>2
<1> QED BY <1>4, <1>5 DEF Range

-----------------------------------------------------------------------------
(* Rewriting the file *)

Rewritten(cfg) == [Written(Loaded(cfg)) EXCEPT !.known = TRUE]

\* A mapping keeps its meaning, for the port of a side that has a range is never read.
LEMMA MappingRewritten ==
  ASSUME NEW m \in Mapping
  PROVE  /\ WrittenMapping(m) \in Mapping
         /\ WrittenMapping(m).id = m.id
         /\ MappingAccepted(WrittenMapping(m)) <=> MappingAccepted(m)
         /\ MappingPairs(WrittenMapping(m)) = MappingPairs(m)
<1> DEFINE w == WrittenMapping(m)
<1>1. /\ w \in Mapping
      /\ w.id = m.id /\ w.range = m.range
      /\ w.localRange = m.localRange /\ w.remoteRange = m.remoteRange
      /\ w.localPort = IF m.localRange # Unset THEN 0 ELSE m.localPort
      /\ w.remotePort = IF m.remoteRange # Unset THEN 0 ELSE m.remotePort
  <2>1. /\ m.id \in Optional(STRING) /\ m.range \in Optional(Sides)
        /\ m.localPort \in Int /\ m.localRange \in Optional(PortSpec)
        /\ m.remotePort \in Int /\ m.remoteRange \in Optional(PortSpec)
    BY DEF Mapping
  <2>2. /\ w = [f \in DOMAIN m |-> w[f]]
        /\ DOMAIN m = {"id", "localPort", "localRange", "remotePort", "remoteRange", "range"}
        /\ w.id = m.id /\ w.range = m.range
        /\ w.localRange = m.localRange /\ w.remoteRange = m.remoteRange
        /\ w.localPort = IF m.localRange # Unset THEN 0 ELSE m.localPort
        /\ w.remotePort = IF m.remoteRange # Unset THEN 0 ELSE m.remotePort
    BY DEF WrittenMapping, Mapping
  <2> HIDE DEF w
  <2> QED BY <2>1, <2>2 DEF Mapping
<1> HIDE DEF w
<1>2. LocalSpec(w) = LocalSpec(m) /\ RemoteSpec(w) = RemoteSpec(m) /\ (Ranged(w) <=> Ranged(m))
  BY <1>1 DEF LocalSpec, RemoteSpec, SideSpec, Ranged
<1>3. MappingAccepted(w) <=> MappingAccepted(m)
  BY <1>1, <1>2 DEF MappingAccepted, Ranged
<1>4. MappingPairs(w) = MappingPairs(m)
  BY <1>1, <1>2 DEF MappingPairs, Ranged
<1> QED BY <1>1, <1>3, <1>4 DEF w

\* Of the file only the form of mappings, an empty list and an absent limit change.
LEMMA FileRewritten ==
  ASSUME NEW cfg \in ConfigFile
  PROVE  /\ Rewritten(cfg) \in ConfigFile
         /\ DOMAIN Rewritten(cfg).mappings = DOMAIN cfg.mappings
         /\ \A i \in DOMAIN cfg.mappings :
              Rewritten(cfg).mappings[i] = WrittenMapping(cfg.mappings[i])
         /\ Rewritten(cfg).allowedPorts = OmitEmpty(cfg.allowedPorts)
         /\ Rewritten(cfg).limit = ResolveLimit(cfg.limit)
         /\ Rewritten(cfg).sessionMode = cfg.sessionMode
         /\ Rewritten(cfg).sessions = cfg.sessions
         /\ Rewritten(cfg).stun = cfg.stun
         /\ Rewritten(cfg).platform = cfg.platform
         /\ Rewritten(cfg).versionCode = cfg.versionCode
<1> DEFINE mappings == [i \in DOMAIN cfg.mappings |-> WrittenMapping(cfg.mappings[i])]
           loaded == Loaded(cfg)
           new == Rewritten(cfg)
<1>1. /\ cfg.mappings \in Seq(Mapping) /\ cfg.allowLAN \in BOOLEAN
      /\ cfg.allowedPorts \in Optional(Seq(Int))
      /\ cfg.sessionMode \in Optional(STRING \cup {Automatic}) /\ cfg.sessions \in Int
      /\ cfg.limit \in Int /\ cfg.stun \in Optional(Seq(STRING)) /\ cfg.platform \in Int
      /\ cfg.versionCode \in Optional(STRING)
  BY DEF ConfigFile
<1>2. /\ cfg = [f \in DOMAIN cfg |-> cfg[f]]
      /\ DOMAIN cfg = {"mappings", "allowLAN", "allowedPorts", "sessionMode", "sessions",
                       "limit", "stun", "platform", "versionCode", "known"}
  BY DEF ConfigFile
<1>3. /\ loaded = [f \in DOMAIN cfg |-> loaded[f]]
      /\ loaded.limit = ResolveLimit(cfg.limit)
      /\ \A f \in DOMAIN cfg \ {"limit"} : loaded[f] = cfg[f]
  BY <1>2 DEF Loaded
<1> HIDE DEF loaded
<1>4. /\ new = [f \in DOMAIN cfg |-> new[f]]
      /\ new.mappings = mappings
      /\ new.allowedPorts = OmitEmpty(cfg.allowedPorts)
      /\ new.known = TRUE
      /\ \A f \in DOMAIN cfg \ {"mappings", "allowedPorts", "known"} : new[f] = loaded[f]
  BY <1>2, <1>3 DEF Rewritten, Written, loaded
<1> HIDE DEF new
<1>5. mappings \in Seq(Mapping)
  <2>1. Len(cfg.mappings) \in Nat /\ DOMAIN cfg.mappings = 1..Len(cfg.mappings)
        /\ \A i \in DOMAIN cfg.mappings : cfg.mappings[i] \in Mapping
    BY <1>1
  <2>2. mappings \in [1..Len(cfg.mappings) -> Mapping]
    BY <2>1, MappingRewritten
  <2> QED BY <2>1, <2>2
<1>6. OmitEmpty(cfg.allowedPorts) \in Optional(Seq(Int))
  BY <1>1 DEF OmitEmpty, Optional
<1>7. ResolveLimit(cfg.limit) \in Int
  BY <1>1, LimitsAssumption DEF ResolveLimit
<1>8. /\ DOMAIN mappings = DOMAIN cfg.mappings
      /\ \A i \in DOMAIN cfg.mappings : mappings[i] = WrittenMapping(cfg.mappings[i])
  OBVIOUS
<1> HIDE DEF mappings
<1>9. /\ new.allowLAN = cfg.allowLAN /\ new.sessionMode = cfg.sessionMode
      /\ new.sessions = cfg.sessions /\ new.limit = ResolveLimit(cfg.limit)
      /\ new.stun = cfg.stun /\ new.platform = cfg.platform
      /\ new.versionCode = cfg.versionCode
  BY <1>2, <1>3, <1>4
<1>10. new \in ConfigFile
  BY <1>1, <1>2, <1>4, <1>5, <1>6, <1>7, <1>9 DEF ConfigFile
<1> QED BY <1>4, <1>8, <1>9, <1>10 DEF new

\* Mappings that mean the same ask for the same rules.
LEMMA SameRules ==
  ASSUME NEW cfg \in ConfigFile, NEW cli
  PROVE  /\ Asked(Rewritten(cfg).mappings, cli) = Asked(cfg.mappings, cli)
         /\ RulesAccepted(Rewritten(cfg).mappings, cli) <=> RulesAccepted(cfg.mappings, cli)
<1> DEFINE mappings == cfg.mappings
           written == Rewritten(cfg).mappings
<1>1. /\ DOMAIN written = DOMAIN mappings
      /\ \A i \in DOMAIN mappings :
           mappings[i] \in Mapping /\ written[i] = WrittenMapping(mappings[i])
      /\ mappings = <<>> <=> written = <<>>
  <2>1. mappings \in Seq(Mapping) /\ written \in Seq(Mapping)
    BY FileRewritten DEF ConfigFile
  <2>2. DOMAIN written = DOMAIN mappings
    BY FileRewritten
  <2>3. \A i \in DOMAIN mappings : written[i] = WrittenMapping(mappings[i])
    BY FileRewritten
  <2> HIDE DEF mappings, written
  <2>4. \A i \in DOMAIN mappings : mappings[i] \in Mapping
    BY <2>1
  <2>5. mappings = <<>> <=> written = <<>>
    BY <2>1, <2>2
  <2> QED BY <2>2, <2>3, <2>4, <2>5
<1> HIDE DEF mappings, written
<1>2. \A i \in DOMAIN mappings :
        /\ AppendPairs(written[i].id, MappingPairs(written[i]))
             = AppendPairs(mappings[i].id, MappingPairs(mappings[i]))
        /\ MappingAccepted(written[i]) <=> MappingAccepted(mappings[i])
  <2> SUFFICES ASSUME NEW i \in DOMAIN mappings
               PROVE  /\ written[i].id = mappings[i].id
                      /\ MappingPairs(written[i]) = MappingPairs(mappings[i])
                      /\ MappingAccepted(written[i]) <=> MappingAccepted(mappings[i])
    OBVIOUS
  <2>1. mappings[i] \in Mapping /\ written[i] = WrittenMapping(mappings[i])
    BY <1>1
  <2>2. PICK m \in Mapping : m = mappings[i]
    BY <2>1
  <2>3. written[i] = WrittenMapping(m)
    BY <2>1, <2>2
  <2> QED BY <2>2, <2>3, MappingRewritten, Zenon
<1>3. Asked(written, cli) = Asked(mappings, cli)
  <2>1. [i \in DOMAIN written |-> AppendPairs(written[i].id, MappingPairs(written[i]))]
          = [i \in DOMAIN mappings |-> AppendPairs(mappings[i].id, MappingPairs(mappings[i]))]
    BY <1>1, <1>2
  <2> QED BY <2>1 DEF Asked
<1>4. FlagsAccepted(written, cli) <=> FlagsAccepted(mappings, cli)
  BY <1>1 DEF FlagsAccepted
<1>5. RulesAccepted(written, cli) <=> RulesAccepted(mappings, cli)
  BY <1>1, <1>2, <1>3, <1>4 DEF RulesAccepted
<1> QED BY <1>3, <1>5 DEF mappings, written

\* A rewritten file starts what the valid file it replaces starts.
LEMMA SameStart ==
  ASSUME NEW cfg \in ConfigFile, Valid(cfg), NEW cli
  PROVE  LET new == Rewritten(cfg)
         IN  /\ Accepted(new, cli) <=> Accepted(cfg, cli)
             /\ Rules(new, cli) = Rules(cfg, cli)
             /\ SessionTarget(new, cli, new.limit)
                  = SessionTarget(cfg, cli, ResolveLimit(cfg.limit))
<1> DEFINE new == Rewritten(cfg)
<1>1. new.limit = ResolveLimit(cfg.limit) /\ ResolveLimit(new.limit) = new.limit
      /\ new.limit \in 0..HardLimit
  BY FileRewritten, LimitsAssumption DEF ResolveLimit, Valid
<1>2. new.sessionMode = cfg.sessionMode /\ new.sessions = cfg.sessions
  BY FileRewritten
<1>3. Valid(new)
  BY <1>1, FileRewritten DEF Valid
<1>4. PolicyAccepted(new, cli) <=> PolicyAccepted(cfg, cli)
  <2>1. new.allowedPorts = OmitEmpty(cfg.allowedPorts)
    BY FileRewritten
  <2>2. Range(<<>>) = {}
    BY DEF Range
  <2> HIDE DEF new
  <2> QED BY <2>1, <2>2 DEF PolicyAccepted, OmitEmpty
<1>5. \A limit : /\ SessionTarget(new, cli, limit) = SessionTarget(cfg, cli, limit)
                 /\ SessionsAccepted(new, cli, limit) <=> SessionsAccepted(cfg, cli, limit)
  <2> HIDE DEF new
  <2> QED BY <1>2 DEF SessionTarget, SessionsAccepted, Wanted, Manual
<1>6. /\ Rules(new, cli) = Rules(cfg, cli)
      /\ RulesAccepted(new.mappings, cli) <=> RulesAccepted(cfg.mappings, cli)
  BY SameRules DEF Rules
<1> HIDE DEF new
<1>7. Accepted(new, cli) <=> Accepted(cfg, cli)
  BY <1>1, <1>3, <1>4, <1>5, <1>6 DEF Accepted
<1> QED BY <1>1, <1>5, <1>6, <1>7 DEF new

-----------------------------------------------------------------------------
(* Sorting *)

Increasing(q) == \A i, j \in DOMAIN q : i < j => q[i] < q[j]

\* The numbers of any set of ports can be put in ascending order.
LEMMA SortedExists ==
  ASSUME NEW top \in Nat, NEW ports \in SUBSET (1..top)
  PROVE  /\ IsFiniteSet(ports) /\ Cardinality(ports) \in Nat
         /\ \E q \in [1..Cardinality(ports) -> ports] : Increasing(q)
<1> DEFINE Sortable(S) == \E q \in [1..Cardinality(S) -> S] : Increasing(q)
           T == {n \in Nat : \A S \in SUBSET (1..n) : Sortable(S)}
<1>1. \A n \in Nat : \A S \in SUBSET (1..n) : IsFiniteSet(S) /\ Cardinality(S) \in Nat
  <2> SUFFICES ASSUME NEW n \in Nat, NEW S \in SUBSET (1..n)
               PROVE  IsFiniteSet(S) /\ Cardinality(S) \in Nat
    OBVIOUS
  <2>1. IsFiniteSet(1..n)
    BY FS_Interval
  <2>2. IsFiniteSet(S)
    BY <2>1, FS_Subset
  <2> QED BY <2>2, FS_CardinalityType
<1>2. 0 \in T
  <2>1. Cardinality({}) = 0
    BY FS_EmptySet
  <2>2. [i \in 1..0 |-> 0] \in [1..Cardinality({}) -> {}] /\ Increasing([i \in 1..0 |-> 0])
    BY <2>1 DEF Increasing
  <2>3. Sortable({})
    BY <2>2
  <2>4. SUBSET (1..0) = {{}}
    OBVIOUS
  <2> HIDE DEF Sortable
  <2> QED BY <2>3, <2>4
<1>3. ASSUME NEW n \in Nat, n \in T PROVE n + 1 \in T
  <2> SUFFICES ASSUME NEW S \in SUBSET (1..(n + 1)) PROVE Sortable(S)
    BY <1>3 DEF T
  <2>1. CASE n + 1 \notin S
    <3>1. S \in SUBSET (1..n)
      BY <2>1
    <3> HIDE DEF Sortable
    <3> QED BY <1>3, <3>1
  <2>2. CASE n + 1 \in S
    <3> DEFINE R == S \ {n + 1}
               c == Cardinality(R)
    <3>1. R \in SUBSET (1..n)
      OBVIOUS
    <3>2. IsFiniteSet(R) /\ c \in Nat /\ S = R \cup {n + 1} /\ n + 1 \notin R
      BY <1>1, <2>2, <3>1
    <3>3. Cardinality(S) = c + 1
      <4> HIDE DEF R
      <4>1. Cardinality(R \cup {n + 1}) = c + 1
        BY <3>2, FS_AddElement
      <4> QED BY <3>2, <4>1
    <3>4. Sortable(R)
      <4> HIDE DEF Sortable, R
      <4> QED BY <1>3, <3>1
    <3>5. PICK q \in [1..c -> R] : Increasing(q)
      BY <3>4
    <3> DEFINE r == [i \in 1..(c + 1) |-> IF i = c + 1 THEN n + 1 ELSE q[i]]
    <3> HIDE DEF c, R
    <3>6. r \in [1..(c + 1) -> S]
      BY <3>2, <3>5
    <3>7. \A i \in 1..c : r[i] = q[i] /\ q[i] \in 1..n
      <4>1. \A i \in 1..c : q[i] \in R
        BY <3>5
      <4>2. \A i \in 1..c : q[i] \in 1..n
        BY <3>1, <4>1
      <4>3. \A i \in 1..c : r[i] = q[i]
        BY <3>2
      <4> QED BY <4>2, <4>3
    <3>8. r[c + 1] = n + 1
      BY <3>2
    <3>9. DOMAIN r = 1..(c + 1) /\ DOMAIN q = 1..c
      BY <3>5
    <3> HIDE DEF r
    <3>10. ASSUME NEW i \in 1..(c + 1), NEW j \in 1..(c + 1), i < j PROVE r[i] < r[j]
      <4>1. i \in 1..c
        BY <3>2, <3>10
      <4>2. CASE j = c + 1
        BY <3>7, <3>8, <4>1, <4>2
      <4>3. CASE j \in 1..c
        BY <3>5, <3>7, <3>9, <3>10, <4>1, <4>3 DEF Increasing
      <4> QED BY <3>2, <4>2, <4>3
    <3>11. Increasing(r)
      BY <3>9, <3>10 DEF Increasing
    <3> QED BY <3>3, <3>6, <3>11
  <2> QED BY <2>1, <2>2
<1>4. Nat \subseteq T
  <2> HIDE DEF T
  <2> QED BY <1>2, <1>3, SetInduction
<1>5. Sortable(ports)
  <2> HIDE DEF Sortable
  <2> QED BY <1>4
<1> QED BY <1>1, <1>5

\* sort.Ints orders the ports, and loses none.
LEMMA SortedCorrect ==
  ASSUME NEW ports \in SUBSET Port
  PROVE  /\ Cardinality(ports) \in Nat
         /\ Sorted(ports) \in [1..Cardinality(ports) -> ports]
         /\ Increasing(Sorted(ports))
         /\ {Sorted(ports)[i] : i \in 1..Cardinality(ports)} = ports
         /\ ports # {} => Cardinality(ports) > 0
<1> DEFINE c == Cardinality(ports)
           q == Sorted(ports)
<1>1. MaxPort \in Nat /\ ports \in SUBSET (1..MaxPort)
  BY LimitsAssumption DEF Port
<1>2. /\ IsFiniteSet(ports) /\ c \in Nat
      /\ \E s \in [1..c -> ports] : Increasing(s)
  BY <1>1, SortedExists
<1>3. q \in [1..c -> ports] /\ Increasing(q)
  BY <1>2 DEF Sorted, Increasing
<1> HIDE DEF q
<1>4. q \in Injection(1..c, ports)
  <2>1. ASSUME NEW i \in 1..c, NEW j \in 1..c, q[i] = q[j] PROVE i = j
    <3>1. q[i] \in Nat /\ q[j] \in Nat
      <4>1. q[i] \in ports /\ q[j] \in ports
        BY <1>3
      <4>2. \A x \in ports : x \in Nat
        BY <1>1
      <4> QED BY <4>1, <4>2
    <3>2. ~(i < j) /\ ~(j < i)
      BY <1>3, <2>1, <3>1 DEF Increasing
    <3> QED BY <1>2, <3>2
  <2> QED BY <1>3, <2>1 DEF Injection, IsInjective
<1>5. Cardinality(1..c) = c
  <2> HIDE DEF c
  <2> QED BY <1>2, FS_Interval
<1>6. q \in Surjection(1..c, ports)
  BY <1>2, <1>4, <1>5, FS_Injection
<1>7. {q[i] : i \in 1..c} = ports
  BY <1>3, <1>6 DEF Surjection
<1>8. ports # {} => c > 0
  BY <1>2, FS_EmptySet
<1> QED BY <1>2, <1>3, <1>7, <1>8 DEF q

-----------------------------------------------------------------------------
(* The whitelist as it is shown *)

\* What FormatAllowedPorts makes of one more port.
Extend(parts, port) ==
  IF parts # <<>> /\ port = Last(parts).last + 1
  THEN [parts EXCEPT ![Len(parts)].last = port]
  ELSE Append(parts, Spec1(port))

\* The recursive function inside FoldLeft, for this fold.
Iter(q) ==
  CHOOSE iter : iter = [s \in SUBSET (DOMAIN q) |->
                          IF s = {} THEN <<>> ELSE Extend(iter[s \ {Max(s)}], q[Max(s)])]

\* The highest number of a prefix of the naturals.
LEMMA MaxOfPrefix ==
  ASSUME NEW n \in Nat, NEW s \in SUBSET (1..(n + 1)), n + 1 \in s
  PROVE  Max(s) = n + 1
<1>1. \A y \in s : n + 1 >= y
  OBVIOUS
<1>2. Max(s) \in s /\ \A y \in s : Max(s) >= y
  <2>1. \E x \in s : \A y \in s : x >= y
    BY <1>1
  <2>2. Max(s) = CHOOSE x \in s : \A y \in s : x >= y
    BY DEF Max
  <2> QED BY <2>1, <2>2
<1> HIDE DEF Max
<1>3. Max(s) \in Int
  <2>1. \A y \in s : y \in Int
    OBVIOUS
  <2> QED BY <1>2, <2>1
<1>4. Max(s) >= n + 1 /\ n + 1 >= Max(s)
  BY <1>1, <1>2
<1> QED BY <1>3, <1>4

\* There is a function that meets the equation of the fold.
LEMMA IterExists ==
  ASSUME NEW q, NEW n \in Nat
  PROVE  \E iter : iter = [s \in SUBSET (1..n) |->
                             IF s = {} THEN <<>> ELSE Extend(iter[s \ {Max(s)}], q[Max(s)])]
<1> DEFINE Step(iter, s) == IF s = {} THEN <<>> ELSE Extend(iter[s \ {Max(s)}], q[Max(s)])
           Meets(m, iter) == iter = [s \in SUBSET (1..m) |-> Step(iter, s)]
           T == {m \in Nat : \E iter : Meets(m, iter)}
<1>1. 0 \in T
  <2> DEFINE none == [s \in SUBSET (1..0) |-> <<>>]
  <2>1. \A s \in SUBSET (1..0) : s = {}
    OBVIOUS
  <2>2. Meets(0, none)
    <3>1. \A s \in SUBSET (1..0) : Step(none, s) = <<>>
      BY <2>1
    <3> HIDE DEF Step
    <3> QED BY <3>1
  <2> QED BY <2>2
<1>2. ASSUME NEW m \in Nat, m \in T PROVE m + 1 \in T
  <2>1. PICK iter : Meets(m, iter)
    <3> HIDE DEF Meets
    <3> QED BY <1>2
  <2> DEFINE more == [s \in SUBSET (1..(m + 1)) |->
                        IF m + 1 \in s THEN Extend(iter[s \ {m + 1}], q[m + 1]) ELSE iter[s]]
  <2>2. \A s \in SUBSET (1..m) : s \in SUBSET (1..(m + 1)) /\ m + 1 \notin s
    OBVIOUS
  <2>3. \A s \in SUBSET (1..m) : more[s] = iter[s]
    BY <2>2
  <2>4. ASSUME NEW s \in SUBSET (1..(m + 1)) PROVE more[s] = Step(more, s)
    <3>1. CASE m + 1 \in s
      <4>1. Max(s) = m + 1 /\ s # {}
        BY <3>1, MaxOfPrefix
      <4>2. s \ {m + 1} \in SUBSET (1..m)
        OBVIOUS
      <4>3. more[s \ {m + 1}] = iter[s \ {m + 1}]
        BY <2>3, <4>2
      <4>4. more[s] = Extend(iter[s \ {m + 1}], q[m + 1])
        BY <3>1
      <4> HIDE DEF more
      <4> QED BY <4>1, <4>3, <4>4
    <3>2. CASE m + 1 \notin s
      <4>1. s \in SUBSET (1..m) /\ s \ {Max(s)} \in SUBSET (1..m)
        <5>1. \A i \in s : i \in 1..(m + 1) /\ i # m + 1
          BY <3>2
        <5>2. \A i \in 1..(m + 1) : i # m + 1 => i \in 1..m
          OBVIOUS
        <5> QED BY <5>1, <5>2
      <4>2. more[s] = iter[s] /\ more[s \ {Max(s)}] = iter[s \ {Max(s)}]
        BY <2>3, <4>1
      <4>3. iter[s] = Step(iter, s)
        <5> HIDE DEF Step
        <5> QED BY <2>1, <4>1
      <4> HIDE DEF more
      <4> QED BY <4>2, <4>3
    <3> QED BY <3>1, <3>2
  <2>5. more = [s \in SUBSET (1..(m + 1)) |-> more[s]]
    OBVIOUS
  <2> HIDE DEF more, Step
  <2>6. Meets(m + 1, more)
    BY <2>4, <2>5
  <2>7. \E other : Meets(m + 1, other)
    BY <2>6
  <2> HIDE DEF Meets
  <2> QED BY <2>7
<1>3. Nat \subseteq T
  <2> HIDE DEF T
  <2> QED BY <1>1, <1>2, SetInduction
<1> QED BY <1>3

\* The fold takes the ports of a sequence one by one, from the first to the last.
LEMMA FoldByPrefix ==
  ASSUME NEW q, NEW n \in Nat, DOMAIN q = 1..n
  PROVE  /\ Iter(q)[{}] = <<>>
         /\ \A k \in 0..(n - 1) : Iter(q)[1..(k + 1)] = Extend(Iter(q)[1..k], q[k + 1])
<1>1. Iter(q) = [s \in SUBSET (1..n) |->
                   IF s = {} THEN <<>> ELSE Extend(Iter(q)[s \ {Max(s)}], q[Max(s)])]
  <2> DEFINE Meets(iter) == iter = [s \in SUBSET (1..n) |->
                              IF s = {} THEN <<>> ELSE Extend(iter[s \ {Max(s)}], q[Max(s)])]
  <2>1. \E iter : Meets(iter)
    BY IterExists
  <2>2. Iter(q) = CHOOSE iter : Meets(iter)
    BY DEF Iter
  <2> HIDE DEF Meets
  <2>3. Meets(Iter(q))
    BY <2>1, <2>2
  <2> QED BY <2>3 DEF Meets
<1> HIDE DEF Iter
<1>2. Iter(q)[{}] = <<>>
  BY <1>1
<1>3. ASSUME NEW k \in 0..(n - 1)
      PROVE  Iter(q)[1..(k + 1)] = Extend(Iter(q)[1..k], q[k + 1])
  <2>1. 1..(k + 1) \in SUBSET (1..n) /\ k + 1 \in 1..(k + 1)
    OBVIOUS
  <2>2. Max(1..(k + 1)) = k + 1
    BY <2>1, MaxOfPrefix
  <2>3. (1..(k + 1)) \ {k + 1} = 1..k
    OBVIOUS
  <2>4. 1..(k + 1) # {}
    BY <2>1
  <2>5. Iter(q)[1..(k + 1)] = Extend(Iter(q)[(1..(k + 1)) \ {k + 1}], q[k + 1])
    BY <1>1, <2>1, <2>2, <2>4
  <2> QED BY <2>3, <2>5
<1> QED BY <1>2, <1>3

\* FormatAllowedPorts is that fold over the sorted ports.
LEMMA FormatIsFold ==
  ASSUME NEW ports
  PROVE  FormatAllowedPorts(ports) = Iter(Sorted(ports))[DOMAIN Sorted(ports)]
BY DEF FormatAllowedPorts, FoldLeft, MapThenFoldSet, Iter, Extend

\* Parts that are the runs of consecutive ports of a set, up to its highest port.
Runs(parts, ports, top) ==
  /\ parts \in Seq(PortSpec)
  /\ PortsAccepted(parts)
  /\ ParseAllowedPorts(parts) = ports
  /\ \A i \in 2..Len(parts) : parts[i].first > parts[i - 1].last + 1
  /\ Last(parts).last = top

\* One port is one run.
LEMMA FirstRun ==
  ASSUME NEW port \in Port
  PROVE  Runs(Extend(<<>>, port), {port}, port)
<1> DEFINE parts == <<Spec1(port)>>
<1>1. Extend(<<>>, port) = parts
  BY DEF Extend
<1>2. port \in Nat /\ port > 0 /\ port <= MaxPort
  BY LimitsAssumption DEF Port
<1>3. Spec1(port) \in PortSpec /\ Spec1(port).first = port /\ Spec1(port).last = port
  BY <1>2 DEF Spec1, PortSpec
<1>4. ValidSpec(Spec1(port))
  BY <1>2, <1>3, UnsetAssumption, LimitsAssumption DEF ValidSpec
<1>5. parts \in Seq(PortSpec) /\ Len(parts) = 1 /\ parts[1] = Spec1(port) /\ DOMAIN parts = {1}
  BY <1>3
<1> HIDE DEF parts
<1>6. PortsAccepted(parts)
  BY <1>4, <1>5 DEF PortsAccepted
<1>7. ParseAllowedPorts(parts) = {port}
  <2>1. ParseAllowedPorts(parts) = port..port
    BY <1>3, <1>5 DEF ParseAllowedPorts
  <2> QED BY <1>2, <2>1
<1>8. Last(parts).last = port
  BY <1>3, <1>5 DEF Last
<1>9. \A i \in 2..Len(parts) : parts[i].first > parts[i - 1].last + 1
  BY <1>5
<1> QED BY <1>1, <1>5, <1>6, <1>7, <1>8, <1>9 DEF Runs

\* A higher port extends the last run, or begins the next.
LEMMA NextRun ==
  ASSUME NEW parts, NEW ports, NEW top \in Port, Runs(parts, ports, top),
         NEW port \in Port, port > top
  PROVE  Runs(Extend(parts, port), ports \cup {port}, port)
<1> DEFINE n == Len(parts)
           more == Extend(parts, port)
<1>1. /\ port \in Nat /\ port > 0 /\ port <= MaxPort /\ top \in Nat /\ MaxPort \in Nat
      /\ parts \in Seq(PortSpec) /\ parts # <<>> /\ n \in Nat /\ n >= 1 /\ DOMAIN parts = 1..n
  BY LimitsAssumption DEF Port, Runs, PortsAccepted
<1>2. \A i \in 1..n : /\ parts[i] \in PortSpec /\ ValidSpec(parts[i])
                      /\ parts[i].first \in Int /\ parts[i].last \in Int
                      /\ 0 < parts[i].first /\ parts[i].first <= parts[i].last
                      /\ parts[i].last <= MaxPort
  <2>1. \A i \in 1..n : parts[i] \in PortSpec
    BY <1>1
  <2>2. \A i \in 1..n : ValidSpec(parts[i])
    BY <1>1 DEF Runs, PortsAccepted
  <2>3. \A spec \in PortSpec : spec.first \in Int /\ spec.last \in Int
    BY DEF PortSpec
  <2> HIDE DEF n
  <2> QED BY <2>1, <2>2, <2>3 DEF ValidSpec
<1>3. /\ parts[n].last = top
      /\ \A i \in 2..n : parts[i].first > parts[i - 1].last + 1
      /\ UNION {parts[i].first..parts[i].last : i \in 1..n} = ports
  BY <1>1 DEF Runs, Last, ParseAllowedPorts
<1>4. CASE port = top + 1
  <2>1. more = [parts EXCEPT ![n].last = port]
    BY <1>1, <1>3, <1>4 DEF Extend, Last
  <2>2. more = [parts EXCEPT ![n] = [parts[n] EXCEPT !.last = port]]
    BY <2>1
  <2> DEFINE run == [first |-> parts[n].first, last |-> port]
  <2>3. [parts[n] EXCEPT !.last = port] = run
    <3>1. parts[n] \in PortSpec
      BY <1>1, <1>2
    <3> HIDE DEF n
    <3> QED BY <3>1 DEF PortSpec
  <2>4. /\ more \in Seq(PortSpec) /\ Len(more) = n /\ DOMAIN more = 1..n
        /\ more[n] = run /\ \A i \in 1..(n - 1) : more[i] = parts[i]
    <3>1. run \in PortSpec
      BY <1>1, <1>2 DEF PortSpec
    <3> HIDE DEF run, more
    <3>2. more = [parts EXCEPT ![n] = run]
      BY <2>2, <2>3
    <3> QED BY <1>1, <3>1, <3>2
  <2>5. run.first = parts[n].first /\ run.last = port
    OBVIOUS
  <2>6. ValidSpec(run)
    <3>1. run # Unset
      BY <1>1, <1>2, UnsetAssumption DEF PortSpec
    <3>2. parts[n].first \in Int /\ 0 < parts[n].first /\ parts[n].first <= top
      BY <1>1, <1>2, <1>3
    <3> HIDE DEF run
    <3> QED BY <1>1, <1>4, <2>5, <3>1, <3>2 DEF ValidSpec
  <2> HIDE DEF run, more, n
  <2>7. \A i \in 1..n : i \in 1..(n - 1) \/ i = n
    BY <1>1
  <2>8. PortsAccepted(more)
    BY <1>1, <1>2, <2>4, <2>6, <2>7 DEF PortsAccepted
  <2>9. \A i \in 2..n : more[i].first > more[i - 1].last + 1
    <3> SUFFICES ASSUME NEW i \in 2..n PROVE more[i].first > more[i - 1].last + 1
      OBVIOUS
    <3>1. i - 1 \in 1..(n - 1) /\ i \in 1..n
      BY <1>1
    <3>2. more[i - 1] = parts[i - 1] /\ more[i].first = parts[i].first
      BY <2>4, <2>5, <2>7, <3>1
    <3> QED BY <1>3, <3>2
  <2>10. ParseAllowedPorts(more) = ports \cup {port}
    <3> DEFINE Below == UNION {parts[i].first..parts[i].last : i \in 1..(n - 1)}
    <3>1. ports = Below \cup (parts[n].first..top)
      <4>1. 1..n = (1..(n - 1)) \cup {n}
        BY <1>1
      <4> QED BY <1>3, <4>1
    <3>2. ParseAllowedPorts(more) = Below \cup (parts[n].first..port)
      <4>1. 1..n = (1..(n - 1)) \cup {n}
        BY <1>1
      <4>2. ParseAllowedPorts(more) = UNION {more[i].first..more[i].last : i \in 1..n}
        BY <2>4 DEF ParseAllowedPorts
      <4>3. more[n].first..more[n].last = parts[n].first..port
        BY <2>4, <2>5
      <4>4. UNION {more[i].first..more[i].last : i \in 1..(n - 1)} = Below
        BY <2>4
      <4> HIDE DEF Below
      <4> QED BY <4>1, <4>2, <4>3, <4>4
    <3>3. parts[n].first..port = (parts[n].first..top) \cup {port}
      <4>1. parts[n].first \in Int /\ parts[n].first <= top
        BY <1>1, <1>2, <1>3
      <4> QED BY <1>1, <1>4, <4>1
    <3> HIDE DEF Below
    <3> QED BY <3>1, <3>2, <3>3
  <2>11. Last(more).last = port
    BY <2>4, <2>5 DEF Last
  <2> QED BY <2>4, <2>8, <2>9, <2>10, <2>11 DEF Runs, more
<1>5. CASE port # top + 1
  <2> DEFINE run == Spec1(port)
  <2>1. more = Append(parts, run)
    BY <1>1, <1>3, <1>5 DEF Extend, Last
  <2>2. run \in PortSpec /\ run.first = port /\ run.last = port
    BY <1>1 DEF Spec1, PortSpec
  <2>3. ValidSpec(run)
    BY <1>1, <2>2, UnsetAssumption DEF ValidSpec
  <2> HIDE DEF run, more
  <2>4. /\ more \in Seq(PortSpec) /\ Len(more) = n + 1 /\ DOMAIN more = 1..(n + 1)
        /\ more[n + 1] = run /\ \A i \in 1..n : more[i] = parts[i]
    BY <1>1, <2>1, <2>2
  <2> HIDE DEF n
  <2>5. \A i \in 1..(n + 1) : i \in 1..n \/ i = n + 1
    BY <1>1
  <2>6. PortsAccepted(more)
    <3>1. more # <<>>
      BY <1>1, <2>4
    <3> QED BY <1>2, <2>3, <2>4, <2>5, <3>1 DEF PortsAccepted
  <2>7. \A i \in 2..(n + 1) : more[i].first > more[i - 1].last + 1
    <3> SUFFICES ASSUME NEW i \in 2..(n + 1) PROVE more[i].first > more[i - 1].last + 1
      OBVIOUS
    <3>1. i - 1 \in 1..n /\ more[i - 1] = parts[i - 1]
      BY <1>1, <2>4
    <3>2. CASE i \in 2..n
      <4>1. i \in 1..n /\ more[i] = parts[i]
        BY <1>1, <2>4, <3>2
      <4> QED BY <1>3, <3>1, <3>2, <4>1
    <3>3. CASE i = n + 1
      <4>1. more[i].first = port /\ i - 1 = n
        BY <1>1, <2>2, <2>4, <3>3
      <4>2. more[i - 1].last = top
        BY <1>3, <3>1, <4>1
      <4> QED BY <1>1, <1>5, <4>1, <4>2
    <3> QED BY <1>1, <3>2, <3>3
  <2>8. ParseAllowedPorts(more) = ports \cup {port}
    <3>1. 1..(n + 1) = (1..n) \cup {n + 1}
      BY <1>1
    <3>2. ParseAllowedPorts(more) = UNION {more[i].first..more[i].last : i \in 1..(n + 1)}
      BY <2>4 DEF ParseAllowedPorts
    <3>3. more[n + 1].first..more[n + 1].last = {port}
      <4>1. port..port = {port}
        BY <1>1
      <4> QED BY <2>2, <2>4, <4>1
    <3>4. UNION {more[i].first..more[i].last : i \in 1..n} = ports
      BY <1>3, <2>4
    <3> QED BY <3>1, <3>2, <3>3, <3>4
  <2>9. Last(more).last = port
    BY <2>2, <2>4 DEF Last
  <2> QED BY <2>4, <2>6, <2>7, <2>8, <2>9 DEF Runs, more
<1> QED BY <1>4, <1>5

\* The whitelist that is shown is the runs of the whitelist, so it is that whitelist.
LEMMA FormatCorrect ==
  ASSUME NEW ports \in SUBSET Port, ports # {}
  PROVE  LET shown == FormatAllowedPorts(ports)
         IN  /\ PortsAccepted(shown)
             /\ ParseAllowedPorts(shown) = ports
             /\ \A i \in 2..Len(shown) : shown[i].first > shown[i - 1].last + 1
<1> DEFINE n == Cardinality(ports)
           q == Sorted(ports)
           parts(k) == Iter(q)[1..k]
           Right(k) == Runs(parts(k), {q[i] : i \in 1..k}, q[k])
           T == {k \in Nat : k \in 1..n => Right(k)}
<1>1. /\ n \in Nat /\ n > 0 /\ q \in [1..n -> ports] /\ Increasing(q)
      /\ {q[i] : i \in 1..n} = ports
  BY SortedCorrect
<1> HIDE DEF n, q
<1>2. DOMAIN q = 1..n
  BY <1>1
<1>3. /\ Iter(q)[{}] = <<>>
      /\ \A k \in 0..(n - 1) : parts(k + 1) = Extend(parts(k), q[k + 1])
  BY <1>1, <1>2, FoldByPrefix
<1>4. \A i \in 1..n : q[i] \in Port
  BY <1>1
<1> HIDE DEF parts
<1>5. 0 \in T
  OBVIOUS
<1>6. ASSUME NEW k \in Nat, k \in T PROVE k + 1 \in T
  <2> SUFFICES ASSUME k + 1 \in 1..n PROVE Right(k + 1)
    OBVIOUS
  <2>1. parts(k + 1) = Extend(parts(k), q[k + 1]) /\ q[k + 1] \in Port
    BY <1>1, <1>3, <1>4
  <2>2. CASE k = 0
    <3>1. parts(0) = <<>>
      <4>1. 1..0 = {}
        OBVIOUS
      <4> QED BY <1>3, <4>1 DEF parts
    <3>2. parts(1) = Extend(<<>>, q[1]) /\ q[1] \in Port
      BY <2>1, <2>2, <3>1
    <3>3. {q[i] : i \in 1..1} = {q[1]}
      OBVIOUS
    <3>4. Runs(parts(1), {q[1]}, q[1])
      BY <3>2, FirstRun
    <3> QED BY <2>2, <3>3, <3>4
  <2>3. CASE k # 0
    <3>1. k \in 1..n /\ k < k + 1
      BY <1>1, <2>3
    <3>2. Runs(parts(k), {q[i] : i \in 1..k}, q[k]) /\ q[k] \in Port
      BY <1>4, <1>6, <3>1
    <3>3. q[k + 1] > q[k]
      <4>1. q[k] < q[k + 1]
        BY <1>1, <1>2, <3>1 DEF Increasing
      <4>2. q[k] \in Int /\ q[k + 1] \in Int
        BY <2>1, <3>2 DEF Port
      <4> QED BY <4>1, <4>2
    <3>4. Runs(Extend(parts(k), q[k + 1]), {q[i] : i \in 1..k} \cup {q[k + 1]}, q[k + 1])
      BY <2>1, <3>2, <3>3, NextRun
    <3>5. {q[i] : i \in 1..(k + 1)} = {q[i] : i \in 1..k} \cup {q[k + 1]}
      <4>1. 1..(k + 1) = (1..k) \cup {k + 1}
        OBVIOUS
      <4> QED BY <4>1
    <3> QED BY <2>1, <3>4, <3>5
  <2> QED BY <2>2, <2>3
<1>7. Nat \subseteq T
  <2> HIDE DEF T
  <2> QED BY <1>5, <1>6, SetInduction
<1>8. Right(n)
  <2> HIDE DEF Right
  <2> QED BY <1>1, <1>7
<1>9. FormatAllowedPorts(ports) = parts(n)
  BY <1>2, FormatIsFold DEF q, parts
<1> QED BY <1>1, <1>8, <1>9 DEF Runs

-----------------------------------------------------------------------------
(* The invariant *)

(* A running command has distinct rule IDs, works with the tunnel made of  *)
(* them, and its whitelist is of ports.                                    *)
Started ==
  process.running =>
    /\ \E n \in Nat : DOMAIN process.rules = 1..n
    /\ NoDuplicate(process.rules)
    /\ process.tunnel = NewTunnelRules(process.rules)
    /\ process.policy.ports # Unset => process.policy.ports \subseteq Port

IInv == file \in ConfigFile /\ Started

\* What an accepted command is given as its whitelist is a set of ports.
LEMMA WhitelistOfPorts ==
  ASSUME NEW cfg \in ConfigFile, NEW cli \in Flags, PolicyAccepted(cfg, cli)
  PROVE  LET ports == BuildSecurityPolicy(cfg, cli).ports
         IN  ports # Unset => ports \subseteq Port
<1>1. CASE cli.allowedPorts # Unset
  <2> DEFINE parts == cli.allowedPorts
  <2>1. \A i \in DOMAIN parts :
          /\ parts[i] \in PortSpec /\ parts[i].first \in Int /\ parts[i].last \in Int
          /\ parts[i].first > 0 /\ parts[i].last <= MaxPort
    <3>1. parts \in Seq(Optional(PortSpec)) /\ PortsAccepted(parts)
      BY <1>1 DEF Flags, Optional, PolicyAccepted
    <3>2. \A i \in DOMAIN parts : parts[i] \in Optional(PortSpec) /\ ValidSpec(parts[i])
      BY <3>1 DEF PortsAccepted
    <3>3. \A spec \in PortSpec : spec.first \in Int /\ spec.last \in Int
      BY DEF PortSpec
    <3> HIDE DEF parts
    <3> QED BY <3>2, <3>3 DEF Optional, ValidSpec
  <2>2. \A i \in DOMAIN parts : parts[i].first..parts[i].last \subseteq Port
    <3> HIDE DEF parts
    <3> QED BY <2>1, LimitsAssumption DEF Port
  <2>3. ParseAllowedPorts(parts) \subseteq Port
    BY <2>2 DEF ParseAllowedPorts
  <2> QED BY <1>1, <2>3 DEF BuildSecurityPolicy
<1>2. CASE cli.allowedPorts = Unset
  BY <1>2 DEF PolicyAccepted, BuildSecurityPolicy
<1> QED BY <1>1, <1>2

\* A command that starts forwards the pairs it was asked for.
LEMMA StartForwards ==
  ASSUME NEW cfg \in ConfigFile, NEW cli \in Flags, Accepted(cfg, cli)
  PROVE  /\ \E n \in Nat : DOMAIN Rules(cfg, cli) = 1..n
         /\ NoDuplicate(Rules(cfg, cli))
         /\ Range(NewTunnelRules(Rules(cfg, cli))) = PairsOf(cfg.mappings, cli)
<1> DEFINE asked == Asked(cfg.mappings, cli)
           rules == Rules(cfg, cli)
<1>1. /\ cfg.mappings \in Seq(Mapping) /\ FlagsAccepted(cfg.mappings, cli)
      /\ \A i \in DOMAIN cfg.mappings : MappingAccepted(cfg.mappings[i])
      /\ NoDuplicate(rules) /\ rules = Named(asked)
  BY DEF ConfigFile, Accepted, RulesAccepted, Rules
<1> HIDE DEF rules
<1>2. /\ asked \in Seq(Rule)
      /\ {rule.pair : rule \in Range(asked)} = PairsOf(cfg.mappings, cli)
  BY <1>1, AskedPairs
<1> HIDE DEF asked
<1>3. /\ Len(asked) \in Nat /\ DOMAIN rules = 1..Len(asked)
      /\ {rule.pair : rule \in Range(rules)} = {rule.pair : rule \in Range(asked)}
  BY <1>1, <1>2, NamedKeeps
<1>4. {rule.pair : rule \in Range(rules)} = Range(NewTunnelRules(rules))
  BY <1>1, <1>3, NoneIgnored
<1> QED BY <1>1, <1>2, <1>3, <1>4 DEF rules

\* What a step does to the file: nothing, or a rewriting of a valid file.
LEMMA FileStep ==
  ASSUME IInv, [Next]_vars
  PROVE  file' = file \/ (Valid(file) /\ file' = Rewritten(file))
<1>1. CASE Login
  BY <1>1 DEF Login, Rewritten
<1>2. ASSUME NEW cli \in Commands, Start(cli)
      PROVE  file' = file \/ (Valid(file) /\ file' = Rewritten(file))
  BY <1>2 DEF Start, Accepted, InitIdentity, Rewritten
<1>3. CASE Stop \/ UNCHANGED vars
  BY <1>3 DEF Stop, vars
<1> QED BY <1>1, <1>2, <1>3 DEF Next

\* The invariant holds in every state, whatever files and flags there are.
THEOREM Invariance == Spec => []IInv
<1>1. Init => IInv
  BY FilesAssumption DEF Init, IInv, Started, Stopped
<1>2. IInv /\ [Next]_vars => IInv'
  <2> SUFFICES ASSUME IInv, [Next]_vars PROVE IInv'
    OBVIOUS
  <2>1. file' \in ConfigFile
    BY FileStep, FileRewritten DEF IInv
  <2>2. Started'
    <3>1. CASE Login \/ UNCHANGED vars
      BY <3>1 DEF IInv, Started, Login, vars
    <3>2. CASE Stop
      BY <3>2 DEF Stop, Stopped, Started
    <3>3. ASSUME NEW cli \in Commands, Start(cli) PROVE Started'
      <4>1. Accepted(file, cli) /\ PolicyAccepted(file, cli) /\ cli \in Flags /\ file \in ConfigFile
        BY <3>3, CommandsAssumption DEF Start, Accepted, IInv
      <4>2. /\ process'.rules = Rules(file, cli)
            /\ process'.tunnel = NewTunnelRules(Rules(file, cli))
            /\ process'.policy = BuildSecurityPolicy(file, cli)
        BY <3>3 DEF Start
      <4>3. (\E n \in Nat : DOMAIN Rules(file, cli) = 1..n) /\ NoDuplicate(Rules(file, cli))
        BY <4>1, StartForwards
      <4>4. LET ports == BuildSecurityPolicy(file, cli).ports
            IN  ports # Unset => ports \subseteq Port
        BY <4>1, WhitelistOfPorts
      <4> QED BY <4>2, <4>3, <4>4 DEF Started, NoDuplicate
    <3> QED BY <3>1, <3>2, <3>3 DEF Next
  <2> QED BY <2>1, <2>2 DEF IInv
<1> QED BY <1>1, <1>2, PTL DEF Spec

-----------------------------------------------------------------------------
(* The theorems *)

(***************************************************************************)
(* NewTunnelWithSettings silently skips a rule whose ID is taken           *)
(* (tunnel.go:348-351).  No rule of a running command is skipped, for      *)
(* BuildRules has refused every ID that appears twice, those it generated  *)
(* for the ports of a range among them.                                    *)
(***************************************************************************)
THEOREM EveryRuleIsForwarded == Spec => []NoRuleIgnored
<1>1. IInv => NoRuleIgnored
  <2> SUFFICES ASSUME IInv, process.running PROVE NoRuleIgnored
    BY DEF NoRuleIgnored
  <2>1. PICK n \in Nat : DOMAIN process.rules = 1..n
    BY DEF IInv, Started
  <2>2. NoDuplicate(process.rules) /\ process.tunnel = NewTunnelRules(process.rules)
    BY DEF IInv, Started
  <2>3. {rule.pair : rule \in Range(process.rules)} = Range(NewTunnelRules(process.rules))
    BY <2>1, <2>2, NoneIgnored
  <2> QED BY <2>2, <2>3 DEF NoRuleIgnored
<1> QED BY <1>1, Invariance, PTL

(***************************************************************************)
(* From the mappings of the file to the rules of the tunnel                *)
(* (rules.go, tunnel.go:340-356): a command that starts forwards exactly   *)
(* the pairs of ports that mappings, ranges and flags name, not one more   *)
(* and not one fewer.                                                      *)
(***************************************************************************)
THEOREM ForwardsWhatIsAsked ==
  Spec => [][\A cli \in Commands :
               Start(cli) => Range(process'.tunnel) = PairsOf(file.mappings, cli)]_vars
<1>1. IInv /\ [Next]_vars =>
        [\A cli \in Commands :
           Start(cli) => Range(process'.tunnel) = PairsOf(file.mappings, cli)]_vars
  <2> SUFFICES ASSUME IInv, NEW cli \in Commands, Start(cli)
               PROVE  Range(process'.tunnel) = PairsOf(file.mappings, cli)
    OBVIOUS
  <2>1. Accepted(file, cli) /\ cli \in Flags /\ file \in ConfigFile
    BY CommandsAssumption DEF Start, IInv
  <2>2. process'.tunnel = NewTunnelRules(Rules(file, cli))
    BY DEF Start
  <2> QED BY <2>1, <2>2, StartForwards
<1> QED BY <1>1, Invariance, PTL DEF Spec

(***************************************************************************)
(* The whitelist that the log shows (options.go:377-424), given as         *)
(* -allowed-ports, would be accepted and allow the same ports, and no two  *)
(* of its parts could be one, whatever ports are allowed.                  *)
(***************************************************************************)
THEOREM ShownWhitelistIsEnforced == Spec => []ShownIsEnforced
<1>1. IInv => ShownIsEnforced
  <2> SUFFICES ASSUME IInv, process.running, process.policy.ports \notin {Unset, {}}
               PROVE  LET shown == FormatAllowedPorts(process.policy.ports)
                      IN  /\ PortsAccepted(shown)
                          /\ ParseAllowedPorts(shown) = process.policy.ports
                          /\ \A i \in 2..Len(shown) : shown[i].first > shown[i - 1].last + 1
    BY DEF ShownIsEnforced
  <2>1. process.policy.ports \in SUBSET Port /\ process.policy.ports # {}
    BY DEF IInv, Started
  <2> QED BY <2>1, FormatCorrect
<1> QED BY <1>1, Invariance, PTL

(***************************************************************************)
(* A login or a new client ID rewrites the file (sign.go:218-281,          *)
(* network.go:41-83).  With any flags, the rewritten file starts what the  *)
(* file before it did, with the same rules and number of sessions, and     *)
(* refuses what it refused.                                                *)
(***************************************************************************)
THEOREM RewritingKeepsTheTunnel == Spec => RewriteKeepsTunnel
<1> DEFINE Kept(cli) ==
             /\ Accepted(file', cli) = Accepted(file, cli)
             /\ Accepted(file, cli) =>
                  /\ Rules(file', cli) = Rules(file, cli)
                  /\ SessionTarget(file', cli, file'.limit)
                       = SessionTarget(file, cli, ResolveLimit(file.limit))
<1>1. ASSUME IInv, [Next]_vars, file' # file, NEW cli \in Commands
      PROVE  Kept(cli)
  <2>1. Valid(file) /\ file' = Rewritten(file) /\ file \in ConfigFile
    BY <1>1, FileStep DEF IInv
  <2>2. PICK new : new = Rewritten(file)
    OBVIOUS
  <2>3. /\ Accepted(new, cli) <=> Accepted(file, cli)
        /\ Rules(new, cli) = Rules(file, cli)
        /\ SessionTarget(new, cli, new.limit) = SessionTarget(file, cli, ResolveLimit(file.limit))
    BY <2>1, <2>2, SameStart
  <2>4. Accepted(new, cli) \in BOOLEAN /\ Accepted(file, cli) \in BOOLEAN
    BY DEF Accepted
  <2> QED BY <2>1, <2>2, <2>3, <2>4
<1>2. IInv /\ [Next]_vars => [file' # file => \A cli \in Commands : Kept(cli)]_vars
  <2> HIDE DEF Kept
  <2> QED BY <1>1
<1> QED BY <1>2, Invariance, PTL DEF Spec, RewriteKeepsTunnel
=============================================================================
