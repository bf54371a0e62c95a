-------------------------- MODULE RoutingPolicyProofs --------------------------
(***************************************************************************)
(* The Xray document decides as the policy does, but for names that only   *)
(* a second pass could decide, proved for any rules, any strategy, order   *)
(* of the actions and fallback, and any connection.                        *)
(***************************************************************************)
EXTENDS RoutingPolicy, SequenceTheorems, TLAPS

\* The field rules of a document.
FieldRules ==
  [kind : {"domain", "ip", "network"}, outboundTag : {OutboundTag[a] : a \in Action},
   values : SUBSET (Domains \cup Addresses)]

\* No rule of the section applies.
Silent(R, c) == \A i \in DOMAIN R : ~Applies(R[i], c)

Speaks(R, c) == \E i \in DOMAIN R : Applies(R[i], c)

LEMMA FirstIs ==
  ASSUME NEW S \in SUBSET Nat, NEW i \in S, \A j \in S : i <= j
  PROVE  First(S) = i
  <1>1. \E k \in S : \A j \in S : k <= j
    OBVIOUS
  <1>2. PICK f \in S : f = First(S) /\ \A j \in S : f <= j
    BY <1>1, Zenon DEF First
  <1>3. f \in Int /\ i \in Int /\ f <= i /\ i <= f
    BY <1>2
  <1>4. f = i
    BY <1>3
  <1> QED
    BY <1>2, <1>4

LEMMA TagAt ==
  ASSUME NEW D \in Seq(FieldRules), NEW c, NEW i \in DOMAIN D, Applies(D[i], c),
         \A j \in DOMAIN D : j < i => ~Applies(D[j], c)
  PROVE  FirstTag(D, c) = D[i].outboundTag
  <1> DEFINE S == Hits(D, c)
  <1>1. S \in SUBSET Nat /\ i \in S /\ \A j \in S : i <= j
    BY DEF Hits
  <1>2. First(S) = i
    BY <1>1, FirstIs
  <1> QED
    BY <1>2 DEF FirstTag

\* The first section that is not silent decides, when it names one outbound.  A
\* section of an action has at most two rules.
LEMMA SectionDecides ==
  ASSUME NEW A \in Seq(FieldRules), NEW B \in Seq(FieldRules), NEW C \in Seq(FieldRules),
         NEW c, NEW tag, Len(B) <= 2, Silent(A, c), Speaks(B, c),
         \A i \in DOMAIN B : B[i].outboundTag = tag
  PROVE  FirstTag(A \o B \o C, c) = tag
  <1> DEFINE D == A \o B \o C
  <1>1. /\ D \in Seq(FieldRules) /\ Len(D) = Len(A) + Len(B) + Len(C)
        /\ \A i \in 1..Len(A) : D[i] = A[i]
        /\ \A i \in 1..Len(B) : D[Len(A) + i] = B[i]
    OBVIOUS
  <1>2. PICK k \in 1..Len(B) : /\ Applies(B[k], c)
                              /\ \A j \in 1..Len(B) : j < k => ~Applies(B[j], c)
    <2>1. CASE Applies(B[1], c)
      BY <2>1 DEF Speaks
    <2>2. CASE ~Applies(B[1], c)
      BY <2>2 DEF Speaks
    <2> QED
      BY <2>1, <2>2
  <1> DEFINE n == Len(A) + k
  <1>3. n \in DOMAIN D /\ D[n] = B[k]
    BY <1>1
  <1>4. ASSUME NEW j \in DOMAIN D, j < n PROVE ~Applies(D[j], c)
    <2>1. CASE j <= Len(A)
      BY <1>1, <2>1 DEF Silent
    <2>2. CASE j > Len(A)
      <3>1. j - Len(A) \in 1..Len(B) /\ j - Len(A) < k /\ j = Len(A) + (j - Len(A))
        BY <1>1, <1>4, <2>2
      <3> QED
        BY <1>1, <1>2, <3>1
    <2> QED
      BY <1>1, <2>1, <2>2
  <1> HIDE DEF n, D
  <1>5. FirstTag(D, c) = D[n].outboundTag
    BY <1>1, <1>2, <1>3, <1>4, TagAt
  <1> QED
    BY <1>3, <1>5 DEF D

LEMMA Associative ==
  ASSUME NEW A \in Seq(FieldRules), NEW B \in Seq(FieldRules), NEW C \in Seq(FieldRules)
  PROVE  (A \o B) \o C = A \o (B \o C)
  <1> DEFINE S == FieldRules
  <1> HIDE DEF S
  <1>1. \A x, y, z \in Seq(S) : (x \o y) \o z = x \o (y \o z)
    BY ConcatAssociative
  <1> QED
    BY <1>1 DEF S

LEMMA Pair ==
  ASSUME NEW r \in FieldRules, NEW s \in FieldRules
  PROVE  LET P == <<r>> \o <<s>>
         IN  P \in Seq(FieldRules) /\ Len(P) = 2 /\ P[1] = r /\ P[2] = s
  OBVIOUS

LEMMA SilentConcat ==
  ASSUME NEW A \in Seq(FieldRules), NEW B \in Seq(FieldRules), NEW c, Silent(A, c), Silent(B, c)
  PROVE  Silent(A \o B, c)
  <1> SUFFICES ASSUME NEW i \in 1..(Len(A) + Len(B)) PROVE ~Applies((A \o B)[i], c)
    BY DEF Silent
  <1>1. CASE i <= Len(A)
    BY <1>1 DEF Silent
  <1>2. CASE i > Len(A)
    BY <1>2 DEF Silent
  <1> QED
    BY <1>1, <1>2

-----------------------------------------------------------------------------
(* The sections of the document *)

LEMMA Loaded ==
  ASSUME NEW p \in Sources, Loads(p), NEW i \in 1..3
  PROVE  /\ p.action_order[i] \in Action
         /\ p.domains[p.action_order[i]] \in Seq(Domains)
         /\ p.ips[p.action_order[i]] \in Seq(Addresses)
  BY DEF Sources, Loads

LEMMA Section ==
  ASSUME NEW p \in Sources, Loads(p), NEW i \in 1..3, NEW c \in Connections
  PROVE  /\ RulesOf(p, i) \in Seq(FieldRules) /\ Len(RulesOf(p, i)) <= 2
         /\ \A k \in DOMAIN RulesOf(p, i) :
              RulesOf(p, i)[k].outboundTag = OutboundTag[p.action_order[i]]
         /\ Speaks(RulesOf(p, i), c) <=> i \in ByDomain(p, c) \cup ByAddress(p, c)
  <1> DEFINE a == p.action_order[i]
             ds == p.domains[a]
             is == p.ips[a]
             d == Field("domain", OutboundTag[a], Elements(ds))
             n == Field("ip", OutboundTag[a], Elements(is))
  <1>1. a \in Action /\ ds \in Seq(Domains) /\ is \in Seq(Addresses)
    BY Loaded
  <1>2. /\ d \in FieldRules /\ d.outboundTag = OutboundTag[a]
        /\ Applies(d, c) <=> Elements(ds) \cap c.domain # {}
    BY <1>1 DEF Field, FieldRules, Elements, Applies
  <1>3. /\ n \in FieldRules /\ n.outboundTag = OutboundTag[a]
        /\ Applies(n, c) <=> Elements(is) \cap c.ip # {}
    BY <1>1 DEF Field, FieldRules, Elements, Applies
  <1>4. RulesOf(p, i) = (IF ds = <<>> THEN <<>> ELSE <<d>>)
                          \o (IF is = <<>> THEN <<>> ELSE <<n>>)
    BY DEF RulesOf
  <1>5. /\ ds = <<>> => Elements(ds) = {}
        /\ is = <<>> => Elements(is) = {}
    BY DEF Elements
  <1>6. i \in ByDomain(p, c) \cup ByAddress(p, c)
          <=> Elements(ds) \cap c.domain # {} \/ Elements(is) \cap c.ip # {}
    BY DEF ByDomain, ByAddress
  <1> HIDE DEF d, n, a, ds, is
  <1>7. CASE ds = <<>> /\ is = <<>>
    <2>1. RulesOf(p, i) = <<>> \o <<>>
      BY <1>4, <1>7
    <2>2. <<>> \in Seq(FieldRules) /\ Len(<<>>) = 0
      OBVIOUS
    <2>3. RulesOf(p, i) = <<>>
      BY <2>1, <2>2, ConcatEmptySeq
    <2> QED
      BY <1>5, <1>6, <1>7, <2>2, <2>3 DEF Speaks, a
  <1>8. CASE ds # <<>> /\ is = <<>>
    <2>1. RulesOf(p, i) = <<d>>
      BY <1>2, <1>4, <1>8
    <2> QED
      BY <1>2, <1>5, <1>6, <1>8, <2>1 DEF Speaks, a
  <1>9. CASE ds = <<>> /\ is # <<>>
    <2>1. RulesOf(p, i) = <<n>>
      BY <1>3, <1>4, <1>9
    <2> QED
      BY <1>3, <1>5, <1>6, <1>9, <2>1 DEF Speaks, a
  <1>10. CASE ds # <<>> /\ is # <<>>
    <2> DEFINE P == RulesOf(p, i)
    <2>1. P \in Seq(FieldRules) /\ Len(P) = 2 /\ P[1] = d /\ P[2] = n
      <3>1. P = <<d>> \o <<n>>
        BY <1>4, <1>10
      <3> QED
        BY <1>2, <1>3, <3>1, Pair
    <2> QED
      BY <1>2, <1>3, <1>6, <2>1 DEF Speaks, a
  <1> QED
    BY <1>7, <1>8, <1>9, <1>10

LEMMA Fallback ==
  ASSUME NEW p \in Sources, NEW c \in Connections
  PROVE  LET F == <<Field("network", OutboundTag[p.fallback], {})>>
         IN  /\ F \in Seq(FieldRules) /\ Len(F) = 1
             /\ F[1].outboundTag = OutboundTag[p.fallback] /\ Applies(F[1], c)
  BY DEF Sources, Field, FieldRules, Applies

\* In one pass over the rules of a document, the first action in the policy's order
\* with a rule for the connection decides, or the fallback.
LEMMA RulesDecide ==
  ASSUME NEW p \in Sources, Loads(p), NEW c \in Connections
  PROVE  FirstTag(XrayDocument(p).rules, c)
           = OutboundTag[FirstAction(p, ByDomain(p, c) \cup ByAddress(p, c))]
  <1> DEFINE R1 == RulesOf(p, 1)
             R2 == RulesOf(p, 2)
             R3 == RulesOf(p, 3)
             F  == <<Field("network", OutboundTag[p.fallback], {})>>
             S  == ByDomain(p, c) \cup ByAddress(p, c)
             M(i) == i \in S
             Tag(i) == OutboundTag[p.action_order[i]]
  <1>1. /\ R1 \in Seq(FieldRules) /\ Len(R1) <= 2 /\ (Speaks(R1, c) <=> M(1))
        /\ \A k \in DOMAIN R1 : R1[k].outboundTag = Tag(1)
    BY Section
  <1>2. /\ R2 \in Seq(FieldRules) /\ Len(R2) <= 2 /\ (Speaks(R2, c) <=> M(2))
        /\ \A k \in DOMAIN R2 : R2[k].outboundTag = Tag(2)
    BY Section
  <1>3. /\ R3 \in Seq(FieldRules) /\ Len(R3) <= 2 /\ (Speaks(R3, c) <=> M(3))
        /\ \A k \in DOMAIN R3 : R3[k].outboundTag = Tag(3)
    BY Section
  <1>4. /\ F \in Seq(FieldRules) /\ Len(F) = 1
        /\ F[1].outboundTag = OutboundTag[p.fallback] /\ Applies(F[1], c)
    BY Fallback
  <1>5. XrayDocument(p).rules = R1 \o R2 \o R3 \o F
    BY DEF XrayDocument
  <1>6. /\ FirstAction(p, S) = IF S = {} THEN p.fallback ELSE p.action_order[First(S)]
        /\ S \subseteq 1..3
    BY DEF FirstAction, ByDomain, ByAddress
  <1>7. \A R : Silent(R, c) <=> ~Speaks(R, c)
    BY DEF Silent, Speaks
  <1> SUFFICES FirstTag(XrayDocument(p).rules, c) = OutboundTag[FirstAction(p, S)]
    OBVIOUS
  <1> HIDE DEF R1, R2, R3, F, S
  <1>8. CASE M(1)
    <2>1. 1 \in S /\ First(S) = 1
      BY <1>6, <1>8, FirstIs
    <2>2. R1 \o R2 \o R3 \o F = <<>> \o R1 \o (R2 \o (R3 \o F))
      <3>1. R1 \o R2 \in Seq(FieldRules) /\ R3 \o F \in Seq(FieldRules)
        BY <1>1, <1>2, <1>3, <1>4, ConcatProperties
      <3>2. R1 \o R2 \o R3 \o F = (R1 \o R2) \o (R3 \o F)
        BY <1>3, <1>4, <3>1, Associative
      <3>3. (R1 \o R2) \o (R3 \o F) = R1 \o (R2 \o (R3 \o F))
        BY <1>1, <1>2, <3>1, Associative
      <3>4. <<>> \o R1 = R1
        BY <1>1, ConcatEmptySeq
      <3> QED
        BY <3>2, <3>3, <3>4
    <2>3. FirstTag(<<>> \o R1 \o (R2 \o (R3 \o F)), c) = Tag(1)
      <3>1. <<>> \in Seq(FieldRules) /\ Silent(<<>>, c) /\ R2 \o (R3 \o F) \in Seq(FieldRules)
        BY <1>2, <1>3, <1>4 DEF Silent
      <3> HIDE DEF Tag
      <3> QED
        BY <1>1, <1>8, <3>1, SectionDecides
    <2> QED
      BY <1>5, <1>6, <2>1, <2>2, <2>3
  <1>9. CASE ~M(1) /\ M(2)
    <2>1. 2 \in S /\ First(S) = 2
      BY <1>6, <1>9, FirstIs
    <2>2. R1 \o R2 \o R3 \o F = R1 \o R2 \o (R3 \o F)
      <3>1. R1 \o R2 \in Seq(FieldRules)
        BY <1>1, <1>2, ConcatProperties
      <3> QED
        BY <1>3, <1>4, <3>1, Associative
    <2>3. FirstTag(R1 \o R2 \o (R3 \o F), c) = Tag(2)
      <3>1. Silent(R1, c) /\ R3 \o F \in Seq(FieldRules)
        BY <1>1, <1>3, <1>4, <1>7, <1>9
      <3> HIDE DEF Tag
      <3> QED
        BY <1>1, <1>2, <1>9, <3>1, SectionDecides
    <2> QED
      BY <1>5, <1>6, <2>1, <2>2, <2>3
  <1>10. CASE ~M(1) /\ ~M(2) /\ M(3)
    <2>1. 3 \in S /\ First(S) = 3
      BY <1>6, <1>10, FirstIs
    <2>2. FirstTag((R1 \o R2) \o R3 \o F, c) = Tag(3)
      <3>1. Silent(R1 \o R2, c) /\ R1 \o R2 \in Seq(FieldRules)
        BY <1>1, <1>2, <1>7, <1>10, SilentConcat
      <3> HIDE DEF Tag
      <3> QED
        BY <1>3, <1>4, <1>10, <3>1, SectionDecides
    <2> QED
      BY <1>5, <1>6, <2>1, <2>2
  <1>11. CASE ~M(1) /\ ~M(2) /\ ~M(3)
    <2>1. S = {}
      BY <1>6, <1>11
    <2>2. Silent(R1 \o R2 \o R3, c) /\ R1 \o R2 \o R3 \in Seq(FieldRules)
      <3>1. Silent(R1, c) /\ Silent(R2, c) /\ Silent(R3, c)
        BY <1>1, <1>2, <1>3, <1>7, <1>11
      <3>2. Silent(R1 \o R2, c) /\ R1 \o R2 \in Seq(FieldRules)
        BY <1>1, <1>2, <3>1, SilentConcat, ConcatProperties
      <3>3. R1 \o R2 \o R3 \in Seq(FieldRules)
        BY <1>3, <3>2, ConcatProperties
      <3> QED
        BY <1>3, <3>1, <3>2, <3>3, SilentConcat
    <2>3. Speaks(F, c) /\ \A k \in DOMAIN F : F[k].outboundTag = OutboundTag[p.fallback]
      BY <1>4 DEF Speaks
    <2>4. FirstTag((R1 \o R2 \o R3) \o F \o <<>>, c) = OutboundTag[p.fallback]
      <3>1. <<>> \in Seq(FieldRules) /\ Len(F) <= 2
        BY <1>4
      <3> QED
        BY <1>4, <2>2, <2>3, <3>1, SectionDecides
    <2>5. (R1 \o R2 \o R3) \o F \o <<>> = R1 \o R2 \o R3 \o F
      <3>1. R1 \o R2 \o R3 \o F \in Seq(FieldRules)
        BY <1>4, <2>2, ConcatProperties
      <3> QED
        BY <3>1, ConcatEmptySeq
    <2> QED
      BY <1>5, <1>6, <2>1, <2>4, <2>5
  <1> QED
    BY <1>8, <1>9, <1>10, <1>11

\* The last rule of a document applies to every connection.
LEMMA SomeRuleApplies ==
  ASSUME NEW p \in Sources, Loads(p), NEW c \in Connections
  PROVE  Hits(XrayDocument(p).rules, c) # {}
  <1> DEFINE D == RulesOf(p, 1) \o RulesOf(p, 2) \o RulesOf(p, 3)
             F == <<Field("network", OutboundTag[p.fallback], {})>>
  <1>1. D \in Seq(FieldRules)
    <2>1. \A i \in 1..3 : RulesOf(p, i) \in Seq(FieldRules)
      BY Section
    <2>2. RulesOf(p, 1) \o RulesOf(p, 2) \in Seq(FieldRules)
      BY <2>1, ConcatProperties
    <2> QED
      BY <2>1, <2>2, ConcatProperties
  <1>2. F \in Seq(FieldRules) /\ Len(F) = 1 /\ Applies(F[1], c)
    BY Fallback
  <1>3. XrayDocument(p).rules = D \o F
    BY DEF XrayDocument
  <1> HIDE DEF D, F
  <1> DEFINE G == D \o F
             n == Len(D) + 1
  <1>4. n \in DOMAIN G /\ G[n] = F[1]
    <2>1. F \in Seq(FieldRules) /\ Len(F) = 1
      BY <1>2
    <2> QED
      BY <1>1, <2>1
  <1> HIDE DEF G, n
  <1>5. n \in Hits(G, c)
    BY <1>2, <1>4 DEF Hits
  <1> QED
    BY <1>3, <1>5 DEF G

\* XrayGenerator.generate: "rules in policy-owned first-match order".  What Xray
\* decides by the document is what the policy decides, for every policy that loads,
\* whatever its strategy, and every connection but a name that only a second pass
\* could decide: that one goes where the fallback goes.
THEOREM DocumentDecides ==
  ASSUME NEW p \in Sources, Loads(p), NEW c \in Connections
  PROVE  Route(XrayDocument(p), c) =
           OutboundTag[IF SecondPass(p, c) THEN p.fallback ELSE Decide(p, c)]
  <1> DEFINE strategy == p.domain_strategy
             first == Unresolved(strategy, c)
             rules == XrayDocument(p).rules
  <1>1. XrayDocument(p).domainStrategy = strategy
    BY DEF XrayDocument
  <1>2. /\ first \in Connections
        /\ first.domain = c.domain
        /\ first.ip = IF c.named /\ strategy # "IPOnDemand" THEN {} ELSE c.ip
    BY DEF Unresolved, Connections
  <1>3. /\ FirstTag(rules, first)
             = OutboundTag[FirstAction(p, ByDomain(p, first) \cup ByAddress(p, first))]
        /\ Hits(rules, first) # {}
    BY <1>2, RulesDecide, SomeRuleApplies
  <1>4. Route(XrayDocument(p), c) = FirstTag(rules, first)
    BY <1>1, <1>3 DEF Route
  <1>5. ByDomain(p, first) = ByDomain(p, c)
    BY <1>2 DEF ByDomain
  <1>6. CASE c.named /\ strategy # "IPOnDemand"
    <2>1. ByAddress(p, first) = {}
      BY <1>2, <1>6 DEF ByAddress
    <2>2. Route(XrayDocument(p), c) = OutboundTag[FirstAction(p, ByDomain(p, c))]
      BY <1>3, <1>4, <1>5, <2>1
    <2>3. CASE SecondPass(p, c)
      BY <2>2, <2>3 DEF SecondPass, FirstAction
    <2>4. CASE ~SecondPass(p, c)
      <3>1. Decide(p, c) = FirstAction(p, ByDomain(p, c))
        BY <1>6, <2>4 DEF SecondPass, Decide
      <3> QED
        BY <2>2, <2>4, <3>1
    <2> QED
      BY <2>3, <2>4
  <1>7. CASE ~c.named \/ strategy = "IPOnDemand"
    <2>1. ByAddress(p, first) = ByAddress(p, c)
      BY <1>2, <1>7 DEF ByAddress
    <2>2. Decide(p, c) = FirstAction(p, ByDomain(p, c) \cup ByAddress(p, c)) /\ ~SecondPass(p, c)
      BY <1>7 DEF Decide, SecondPass
    <2> QED
      BY <1>3, <1>4, <1>5, <2>1, <2>2
  <1> QED
    BY <1>6, <1>7
=============================================================================
