-------------------------- MODULE DomainSourceProofs --------------------------
(***************************************************************************)
(* What the domain compiler promises for any lists, domains and includes:  *)
(* facts about pruning and filtering, then about the memo and its export.  *)
(***************************************************************************)
EXTENDS Keenetic, SequenceTheorems, TLAPS

-----------------------------------------------------------------------------
(* Pruning and filtering *)

\* Two rules without attributes pass the same filters.
LEMMA SameFilters ==
  ASSUME NEW r \in Rules, NEW s \in Rules, r.attributes = s.attributes, NEW include
  PROVE  Matches(r, include) <=> Matches(s, include)
  BY DEF Matches

\* An include that filters a pruned list selects what pruning the filtered list
\* would leave: _polish and _matches may be applied in either order.
THEOREM FilterCommutes ==
  ASSUME NEW set \in SUBSET Rules, NEW include
  PROVE  Selected(Polish(set), include) = Polish(Selected(set, include))
  <1>1. ASSUME NEW rule \in set, Matches(rule, include)
        PROVE  Redundant(rule, set) <=> Redundant(rule, Selected(set, include))
    <2>1. ASSUME NEW other \in set, Plain(other, {"domain"}), Plain(rule, {"domain", "full"})
          PROVE  other \in Selected(set, include)
      BY <1>1, <2>1, SameFilters DEF Plain, Selected
    <2>2. Selected(set, include) \subseteq set
      BY DEF Selected
    <2> QED
      BY <2>1, <2>2 DEF Redundant, Covers
  <1> QED
    BY <1>1 DEF Polish, Selected

\* What is left after pruning is not pruned again.
THEOREM PolishTwice ==
  ASSUME NEW set \in SUBSET Rules
  PROVE  Polish(Polish(set)) = Polish(set)
  BY DEF Polish, Redundant, Covers

\* A redundant rule is below a rule that is kept: chains of redundancy end, since
\* suffixes get shorter.
LEMMA Survivor ==
  ASSUME NEW set \in SUBSET Rules, NEW rule \in set, Redundant(rule, set)
  PROVE  \E other \in Polish(set) : Covers(other, rule)
  <1> DEFINE Tops == {d \in Domains : \E other \in set : Covers(other, rule) /\ other.value = d}
  <1>1. Tops # {}
    <2>1. PICK other \in set : Covers(other, rule)
      BY DEF Redundant, Covers
    <2>2. other.value \in Domains
      BY <2>1 DEF Rules
    <2> QED
      BY <2>1, <2>2
  <1>2. PICK top \in Tops : Above[top] \cap Tops = {}
    BY <1>1, TopmostAssumption
  <1>3. PICK other \in set : Covers(other, rule) /\ other.value = top
    OBVIOUS
  <1>4. ~Redundant(other, set)
    <2> SUFFICES ASSUME NEW third \in set, Covers(third, other) PROVE FALSE
      BY DEF Redundant, Covers
    <2>1. other.kind = "domain" /\ third.value \in Above[top]
      BY <1>3 DEF Covers, Plain
    <2>2. third.value \in Domains /\ rule.value \in Domains
      BY DEF Rules
    <2>3. Covers(third, rule)
      BY <1>3, <2>1, <2>2, AboveAssumption DEF Covers
    <2> QED
      BY <1>2, <2>1, <2>2, <2>3
  <1> QED
    BY <1>3, <1>4 DEF Polish

\* Pruning loses no domain.
THEOREM PolishKeepsCoverage ==
  ASSUME NEW set \in SUBSET Rules
  PROVE  Covered(Polish(set)) = Covered(set)
  <1>1. Polish(set) \subseteq set
    BY DEF Polish
  <1>2. ASSUME NEW d \in Domains, NEW rule \in set,
               \/ rule.kind \in {"domain", "full"} /\ rule.value = d
               \/ rule.kind = "domain" /\ rule.value \in Above[d]
        PROVE  d \in Covered(Polish(set))
    <2>1. CASE rule \in Polish(set)
      BY <1>2, <2>1 DEF Covered
    <2>2. CASE Redundant(rule, set)
      <3>1. PICK other \in Polish(set) : Covers(other, rule)
        BY <2>2, Survivor
      <3>2. other.kind = "domain"
        BY <3>1 DEF Covers, Plain
      <3>3. other.value = d \/ other.value \in Above[d]
        BY <1>2, <3>1, AboveAssumption DEF Covers
      <3> QED
        BY <3>2, <3>3 DEF Covered
    <2> QED
      BY <2>1, <2>2 DEF Polish
  <1> QED
    BY <1>1, <1>2 DEF Covered

\* Pruning a part first makes no difference: a list may include pruned lists.
THEOREM PolishPart ==
  ASSUME NEW set \in SUBSET Rules, NEW part \in SUBSET Rules
  PROVE  Polish(set \cup Polish(part)) = Polish(set \cup part)
  <1> DEFINE small == set \cup Polish(part)
             big   == set \cup part
  <1>1. small \subseteq big
    BY DEF Polish
  <1>2. ASSUME NEW rule \in big, Redundant(rule, big) PROVE Redundant(rule, small)
    <2>1. PICK other \in big : Covers(other, rule)
      BY <1>2 DEF Redundant, Covers
    <2>2. CASE other \in small
      BY <1>2, <2>1, <2>2 DEF Redundant, Covers
    <2>3. CASE other \in part /\ Redundant(other, part)
      <3>1. PICK third \in Polish(part) : Covers(third, other)
        BY <2>3, Survivor
      <3>2. Covers(third, rule)
        BY <2>1, <3>1, AboveAssumption DEF Covers, Plain, Rules
      <3> QED
        BY <1>2, <3>1, <3>2 DEF Redundant, Covers
    <2> QED
      BY <2>1, <2>2, <2>3 DEF Polish
  <1>3. ASSUME NEW rule \in big, rule \notin small PROVE Redundant(rule, big)
    BY <1>3 DEF Polish, Redundant, Covers
  <1> QED
    BY <1>1, <1>2, <1>3 DEF Polish, Redundant, Covers

-----------------------------------------------------------------------------
(* The memo *)

\* A cursor that does not pass the end of its include list.
Within(frame) == frame.next <= Len(IncludesOf(frame)) + 1

\* The innermost call of a stack that is not empty.
LEMMA TopFrame ==
  ASSUME TypeOK, stack # <<>>
  PROVE  /\ Len(stack) \in 1..Len(stack)
         /\ Top \in Frames
         /\ IncludesOf(Top) \in Seq(Includes)
         /\ Top.next \in 1..(Len(IncludesOf(Top)) + 1)
         /\ Top.next <= Len(IncludesOf(Top)) =>
              /\ Top.next \in 1..Len(IncludesOf(Top))
              /\ Wanted(Top) \in Lists
  <1>1. Len(stack) \in 1..Len(stack) /\ DOMAIN stack = 1..Len(stack)
    BY DEF TypeOK
  <1>2. Top \in Frames
    BY <1>1, ElementOfSeq DEF TypeOK, Top
  <1>3. IncludesOf(Top) \in Seq(Includes)
    BY <1>2 DEF TypeOK, Frames, IncludesOf, SourceDirectories
  <1>4. Top.next \in 1..(Len(IncludesOf(Top)) + 1)
    <2>1. Top.next <= Len(IncludesOf(Top)) + 1
      BY <1>1 DEF TypeOK, Top
    <2>2. Len(IncludesOf(Top)) \in Nat /\ Top.next \in Nat \ {0}
      BY <1>2, <1>3, LenProperties DEF Frames
    <2> QED
      BY <2>1, <2>2
  <1>5. ASSUME Top.next <= Len(IncludesOf(Top))
        PROVE  Top.next \in 1..Len(IncludesOf(Top)) /\ Wanted(Top) \in Lists
    <2>1. Top.next \in 1..Len(IncludesOf(Top))
      BY <1>3, <1>4, <1>5
    <2>2. IncludesOf(Top)[Top.next] \in Includes
      BY <1>3, <2>1, ElementOfSeq
    <2> QED
      BY <2>1, <2>2 DEF Wanted, Includes
  <1> QED
    BY <1>1, <1>2, <1>3, <1>4, <1>5

\* A call of resolve() keeps the types: it fails, or pushes a frame.
LEMMA EnterType ==
  ASSUME TypeOK, NEW name \in Lists, Enter(name), snapshot' = snapshot
  PROVE  /\ stack' \in Seq(Frames)
         /\ \A i \in DOMAIN stack' : Within(stack[i])'
         /\ outcome' \in {"running", "done", "cycle", "unreadable"}
  <1> DEFINE frame == [name |-> name, next |-> 1, values |-> snapshot.entries[name]]
  <1>1. outcome' \in {"running", "done", "cycle", "unreadable"}
    BY DEF Enter, TypeOK
  <1>2. CASE stack' = stack
    BY <1>1, <1>2 DEF TypeOK, Within, IncludesOf
  <1>3. CASE stack' = Append(stack, frame)
    <2>1. frame \in Frames /\ stack \in Seq(Frames)
      BY DEF Frames, TypeOK, SourceDirectories
    <2>2. Len(snapshot.includes[name]) \in Nat
      BY DEF TypeOK, SourceDirectories
    <2>3. /\ stack' \in Seq(Frames) /\ Len(stack') = Len(stack) + 1
          /\ \A i \in 1..Len(stack) : stack'[i] = stack[i]
          /\ stack'[Len(stack) + 1] = frame
      BY <1>3, <2>1, AppendProperties
    <2>4. /\ DOMAIN stack' = 1..(Len(stack) + 1) /\ DOMAIN stack = 1..Len(stack)
          /\ Len(stack) \in Nat
      BY <2>1, <2>3
    <2>5. ASSUME NEW i \in 1..Len(stack) PROVE Within(stack[i])'
      BY <2>3, <2>4, <2>5 DEF TypeOK, Within, IncludesOf
    <2>6. ASSUME NEW i \in DOMAIN stack' PROVE Within(stack[i])'
      BY <2>2, <2>3, <2>4, <2>5 DEF Within, IncludesOf
    <2> QED
      BY <1>1, <2>3, <2>6
  <1> QED
    BY <1>2, <1>3 DEF Enter

\* A frame whose next include has been collected.
LEMMA NextInclude ==
  ASSUME NEW f \in Frames, NEW set \in SUBSET Rules
  PROVE  LET g == [f EXCEPT !.next = @ + 1, !.values = @ \cup set]
         IN  /\ g \in Frames
             /\ g.name = f.name /\ g.next = f.next + 1 /\ g.values = f.values \cup set
  <1> DEFINE h == [f EXCEPT !.next = @ + 1]
             g == [f EXCEPT !.next = @ + 1, !.values = @ \cup set]
  <1>1. f.next + 1 \in Nat \ {0} /\ f.values \cup set \in SUBSET Rules
    BY DEF Frames
  <1>2. h \in Frames /\ h.name = f.name /\ h.next = f.next + 1 /\ h.values = f.values
    BY <1>1 DEF Frames
  <1>3. g = [h EXCEPT !.values = @ \cup set]
    BY <1>2
  <1> HIDE DEF h, g
  <1>4. g \in Frames /\ g.name = h.name /\ g.next = h.next /\ g.values = h.values \cup set
    BY <1>1, <1>2, <1>3 DEF Frames
  <1> QED
    BY <1>2, <1>4 DEF g

\* Collecting replaces the innermost frame.
LEMMA CollectFrame ==
  ASSUME TypeOK, Collect
  PROVE  LET include == IncludesOf(Top)[Top.next]
             frame == [Top EXCEPT !.next = @ + 1,
                                  !.values = @ \cup Selected(rules[Wanted(Top)], include)]
         IN  /\ frame \in Frames /\ Within(frame) /\ frame.name = Top.name
             /\ stack' \in Seq(Frames) /\ Len(stack') = Len(stack)
             /\ \A i \in 1..Len(stack) : stack'[i] = IF i = Len(stack) THEN frame ELSE stack[i]
  <1> DEFINE include == IncludesOf(Top)[Top.next]
             frame == [Top EXCEPT !.next = @ + 1,
                                  !.values = @ \cup Selected(rules[Wanted(Top)], include)]
  <1>1. /\ stack # <<>> /\ Top.next <= Len(IncludesOf(Top))
        /\ stack' = [stack EXCEPT ![Len(stack)] = frame]
    BY DEF Collect, Replace
  <1>2. /\ Top \in Frames /\ Wanted(Top) \in Lists
        /\ Len(stack) \in 1..Len(stack) /\ Top.next \in 1..Len(IncludesOf(Top))
    BY <1>1, TopFrame
  <1>3. Selected(rules[Wanted(Top)], include) \subseteq Rules
    BY <1>2 DEF Selected, TypeOK
  <1>4. frame \in Frames /\ frame.name = Top.name /\ frame.next = Top.next + 1
    BY <1>2, <1>3, NextInclude
  <1>5. Within(frame)
    BY <1>2, <1>4 DEF Within, IncludesOf
  <1> QED
    BY <1>1, <1>2, <1>4, <1>5, ExceptSeq DEF TypeOK

\* Leaving removes the innermost frame.
LEMMA LeaveFrame ==
  ASSUME TypeOK, Leave
  PROVE  /\ stack' \in Seq(Frames) /\ Len(stack') = Len(stack) - 1
         /\ \A i \in 1..Len(stack') : i \in 1..Len(stack) /\ stack'[i] = stack[i]
  <1>1. stack # <<>> /\ stack' = SubSeq(stack, 1, Len(stack) - 1)
    BY DEF Leave
  <1>2. /\ stack \in Seq(Frames) /\ Len(stack) \in Nat \ {0}
        /\ \A i \in 1..(Len(stack) - 1) : stack[i] \in Frames
    BY <1>1 DEF TypeOK
  <1>3. /\ stack' \in Seq(Frames)
        /\ Len(stack') = Len(stack) - 1
        /\ \A i \in 1..(Len(stack) - 1) : stack'[i] = stack[i]
    <2> DEFINE n == Len(stack) - 1
    <2>1. n \in Nat
      BY <1>2
    <2>2. \A i \in 1..n : stack[i] \in Frames
      BY <1>2
    <2> HIDE DEF n
    <2>3. /\ SubSeq(stack, 1, n) \in Seq(Frames)
          /\ Len(SubSeq(stack, 1, n)) = IF 1 <= n THEN n - 1 + 1 ELSE 0
          /\ \A i \in 1..(n - 1 + 1) : SubSeq(stack, 1, n)[i] = stack[1 + i - 1]
      BY <2>1, <2>2, SubSeqProperties
    <2>4. /\ Len(SubSeq(stack, 1, n)) = n
          /\ \A i \in 1..n : SubSeq(stack, 1, n)[i] = stack[i]
      BY <2>1, <2>3
    <2> QED
      BY <1>1, <2>3, <2>4 DEF n
  <1> QED
    BY <1>2, <1>3

LEMMA TypeInit == Init => TypeOK
  BY SnapshotsAssumption, RequestedAssumption DEF Init, TypeOK, SourceDirectories

LEMMA TypeNext == TypeOK /\ [Next]_vars => TypeOK'
  <1> SUFFICES ASSUME TypeOK, [Next]_vars PROVE TypeOK'
    OBVIOUS
  <1>1. ASSUME snapshot' = snapshot, stack' \in Seq(Frames),
               \A i \in DOMAIN stack' : Within(stack[i])',
               todo' \in Seq(Lists), resolved' \subseteq Lists,
               rules' \in [Lists -> SUBSET Rules],
               outcome' \in {"running", "done", "cycle", "unreadable"}
        PROVE  TypeOK'
    BY <1>1 DEF TypeOK, Within
  <1>2. ASSUME UNCHANGED <<snapshot, stack>>
        PROVE  stack' \in Seq(Frames) /\ \A i \in DOMAIN stack' : Within(stack[i])'
    BY <1>2 DEF TypeOK, Within, IncludesOf
  <1>3. CASE Request
    <2>1. Head(todo) \in Lists
      BY <1>3 DEF Request, TypeOK
    <2> QED
      BY <1>1, <1>3, <2>1, EnterType DEF Request, TypeOK
  <1>4. CASE Descend
    <2>1. Wanted(Top) \in Lists
      BY <1>4, TopFrame DEF Descend
    <2> QED
      BY <1>1, <1>4, <2>1, EnterType DEF Descend, TypeOK
  <1>5. CASE Collect
    <2>1. UNCHANGED <<snapshot, todo, resolved, rules, outcome>> /\ stack \in Seq(Frames)
      BY <1>5 DEF Collect, TypeOK
    <2>2. stack' \in Seq(Frames) /\ DOMAIN stack' = 1..Len(stack)
      BY <1>5, CollectFrame
    <2>3. ASSUME NEW i \in DOMAIN stack' PROVE Within(stack[i])'
      <3>1. i \in 1..Len(stack) /\ i \in DOMAIN stack
        BY <2>1, <2>2
      <3>2. PICK frame : Within(frame) /\ stack'[i] = IF i = Len(stack) THEN frame ELSE stack[i]
        BY <1>5, <3>1, CollectFrame
      <3> QED
        BY <2>1, <3>1, <3>2 DEF TypeOK, Within, IncludesOf
    <2> QED
      BY <1>1, <2>1, <2>2, <2>3 DEF TypeOK
  <1>6. CASE Leave
    <2>1. UNCHANGED <<snapshot, todo, outcome>> /\ stack # <<>> /\ stack \in Seq(Frames)
      BY <1>6 DEF Leave, TypeOK
    <2>2. Top.name \in Lists /\ Polish(Top.values) \subseteq Rules
      BY <2>1, TopFrame DEF Polish, Frames
    <2>3. resolved' \subseteq Lists /\ rules' \in [Lists -> SUBSET Rules]
      BY <1>6, <2>2 DEF Leave, TypeOK
    <2>4. stack' \in Seq(Frames)
      BY <1>6, LeaveFrame
    <2>5. ASSUME NEW i \in DOMAIN stack' PROVE Within(stack[i])'
      <3>1. i \in DOMAIN stack /\ stack'[i] = stack[i]
        BY <1>6, <2>1, <2>4, LeaveFrame
      <3> QED
        BY <2>1, <3>1 DEF TypeOK, Within, IncludesOf
    <2> QED
      BY <1>1, <2>1, <2>3, <2>4, <2>5 DEF TypeOK
  <1>7. CASE Deliver
    <2>1. UNCHANGED <<snapshot, stack, resolved, rules, outcome>> /\ todo' \in Seq(Lists)
      BY <1>7 DEF Deliver, TypeOK
    <2> QED
      BY <1>1, <1>2, <2>1 DEF TypeOK
  <1>8. CASE Finish
    BY <1>1, <1>2, <1>8 DEF Finish, TypeOK
  <1>9. CASE UNCHANGED vars
    BY <1>1, <1>2, <1>9 DEF vars, TypeOK
  <1> QED
    BY <1>3, <1>4, <1>5, <1>6, <1>7, <1>8, <1>9 DEF Next

\* Types, and cursors that never pass the end of an include list.
THEOREM TypeCorrect == Spec => []TypeOK
  BY TypeInit, TypeNext, PTL DEF Spec

\* A frame holds what its list and the includes before its cursor give.
Exact(frame) ==
  /\ Known(frame.name, frame.next - 1)
  /\ frame.values = Gathered(frame.name, frame.next - 1)

\* The calls under way are of different lists, none of them in the memo yet.
Unfinished ==
  /\ \A i \in 1..Len(stack) : stack[i].name \notin resolved
  /\ \A i, j \in 1..Len(stack) : stack[i].name = stack[j].name => i = j

IInv ==
  /\ TypeOK
  /\ MemoClosed
  /\ Unfinished
  /\ \A i \in 1..Len(stack) : Exact(stack[i])

\* What is gathered from lists in the memo does not change when the memo grows.
LEMMA GatheredStable ==
  ASSUME NEW l, NEW n \in Nat, Known(l, n), snapshot' = snapshot,
         resolved \subseteq resolved', \A m \in resolved : rules'[m] = rules[m]
  PROVE  /\ \A i \in 1..n : snapshot'.includes[l][i].source \in resolved'
         /\ Gathered(l, n) =
              snapshot'.entries[l] \cup
              UNION {Selected(rules'[snapshot'.includes[l][i].source],
                              snapshot'.includes[l][i]) : i \in 1..n}
  <1>1. ASSUME NEW i \in 1..n
        PROVE  /\ snapshot.includes[l][i].source \in resolved
               /\ rules'[snapshot.includes[l][i].source] = rules[snapshot.includes[l][i].source]
    BY DEF Known
  <1> QED
    BY <1>1 DEF Gathered

\* One include more.
LEMMA GatheredStep ==
  ASSUME NEW l, NEW n \in Nat
  PROVE  LET include == snapshot.includes[l][n + 1]
         IN  /\ Known(l, n + 1) <=> Known(l, n) /\ include.source \in resolved
             /\ Gathered(l, n + 1) = Gathered(l, n) \cup Selected(rules[include.source], include)
  <1>1. \A i : i \in 1..(n + 1) <=> i \in 1..n \/ i = n + 1
    OBVIOUS
  <1> QED
    BY <1>1 DEF Known, Gathered

LEMMA IInvInit == Init => IInv
  BY TypeInit DEF Init, IInv, MemoClosed, Unfinished

LEMMA IInvNext == IInv /\ [Next]_vars => IInv'
  <1> SUFFICES ASSUME IInv, [Next]_vars PROVE IInv'
    OBVIOUS
  <1> USE DEF IInv
  <1>0. TypeOK'
    BY TypeNext
  <1> USE <1>0
  <1>1. ASSUME UNCHANGED <<snapshot, resolved, rules>> PROVE MemoClosed'
    <2> SUFFICES ASSUME NEW l \in resolved
                 PROVE  /\ Known(l, Len(snapshot.includes[l]))'
                        /\ (rules[l] = Polish(Gathered(l, Len(snapshot.includes[l]))))'
      BY <1>1 DEF MemoClosed
    <2>1. Len(snapshot.includes[l]) \in Nat
      BY DEF TypeOK, SourceDirectories
    <2>2. /\ Known(l, Len(snapshot.includes[l]))
          /\ rules[l] = Polish(Gathered(l, Len(snapshot.includes[l])))
      BY DEF MemoClosed
    <2> QED
      BY <1>1, <2>1, <2>2, GatheredStable DEF Known, Gathered
  <1>2. ASSUME UNCHANGED <<snapshot, resolved, rules, stack>> PROVE IInv'
    BY <1>1, <1>2 DEF Unfinished, Exact, Known, Gathered
  <1>3. ASSUME NEW name \in Lists, Enter(name), UNCHANGED <<snapshot, resolved, rules>>
        PROVE  IInv'
    <2> DEFINE frame == [name |-> name, next |-> 1, values |-> snapshot.entries[name]]
    <2>1. CASE stack' = stack
      BY <1>2, <1>3, <2>1
    <2>2. CASE stack' = Append(stack, frame) /\ name \notin Resolving
      <3>1. frame \in Frames /\ stack \in Seq(Frames)
        BY DEF Frames, TypeOK, SourceDirectories
      <3>2. /\ Len(stack') = Len(stack) + 1 /\ Len(stack) \in Nat
            /\ \A i \in 1..Len(stack) : stack'[i] = stack[i]
            /\ stack'[Len(stack) + 1] = frame
        BY <2>2, <3>1, AppendProperties, LenProperties
      <3>3. \A i \in 1..Len(stack) : stack[i].name # name
        BY <2>2, <3>1 DEF Resolving
      <3>4. Unfinished'
        <4>1. name \notin resolved /\ resolved' = resolved
          BY <1>3 DEF Enter
        <4>2. /\ \A i \in 1..Len(stack') : i \in 1..Len(stack) \/ i = Len(stack) + 1
              /\ stack'[Len(stack) + 1].name = name
          BY <3>2
        <4>3. /\ \A i \in 1..Len(stack) : stack[i].name \notin resolved
              /\ \A i, j \in 1..Len(stack) : stack[i].name = stack[j].name => i = j
          BY DEF Unfinished
        <4>4. \A i \in 1..Len(stack') : stack'[i].name \notin resolved
          BY <3>2, <4>1, <4>2, <4>3
        <4>5. \A i, j \in 1..Len(stack') : stack'[i].name = stack'[j].name => i = j
          BY <3>2, <3>3, <4>2, <4>3
        <4> QED
          BY <4>1, <4>4, <4>5 DEF Unfinished
      <3>5. ASSUME NEW i \in 1..Len(stack) PROVE Exact(stack[i])'
        BY <1>3, <3>2, <3>5 DEF Exact, Known, Gathered
      <3>6. ASSUME NEW i, i = Len(stack) + 1 PROVE Exact(stack[i])'
        <4>1. 1..(frame.next - 1) = {}
          OBVIOUS
        <4>2. snapshot'.entries[frame.name] = frame.values
          BY <1>3
        <4> HIDE DEF frame
        <4> QED
          BY <3>2, <3>6, <4>1, <4>2 DEF Exact, Known, Gathered
      <3>7. ASSUME NEW i \in 1..Len(stack') PROVE Exact(stack[i])'
        <4>1. i \in 1..Len(stack) \/ i = Len(stack) + 1
          BY <3>2
        <4> QED
          BY <3>5, <3>6, <4>1
      <3> QED
        BY <1>1, <1>3, <3>4, <3>7
    <2> QED
      BY <1>3, <2>1, <2>2 DEF Enter
  <1>4. CASE Request
    BY <1>3, <1>4 DEF Request, TypeOK
  <1>5. CASE Descend
    <2>1. Wanted(Top) \in Lists
      BY <1>5, TopFrame DEF Descend
    <2> QED
      BY <1>3, <1>5, <2>1 DEF Descend
  <1>6. CASE Collect
    <2> DEFINE k == Len(stack)
               include == IncludesOf(Top)[Top.next]
               frame == [Top EXCEPT !.next = @ + 1,
                                    !.values = @ \cup Selected(rules[Wanted(Top)], include)]
    <2>1. /\ UNCHANGED <<snapshot, todo, resolved, rules, outcome>>
          /\ stack # <<>> /\ Wanted(Top) \in resolved
      BY <1>6 DEF Collect
    <2>2. k \in 1..k /\ Top \in Frames
      BY <2>1, TopFrame
    <2>3. /\ Len(stack') = k
          /\ \A i \in 1..k : stack'[i] = IF i = k THEN frame ELSE stack[i]
      BY <1>6, CollectFrame
    <2>4. /\ frame.name = Top.name /\ frame.next = Top.next + 1
          /\ frame.values = Top.values \cup Selected(rules[Wanted(Top)], include)
      <3>1. Selected(rules[Wanted(Top)], include) \in SUBSET Rules
        <4>1. rules[Wanted(Top)] \in SUBSET Rules
          BY <2>1 DEF TypeOK
        <4> QED
          BY <4>1 DEF Selected
      <3> QED
        BY <2>2, <3>1, NextInclude
    <2> HIDE DEF frame
    <2>5. Known(Top.name, Top.next) /\ frame.values = Gathered(Top.name, Top.next)
      <3>1. Exact(Top)
        BY <2>2 DEF Top
      <3>2. Top.next - 1 \in Nat /\ Top.next - 1 + 1 = Top.next
        BY <2>2 DEF Frames
      <3>3. include = snapshot.includes[Top.name][Top.next] /\ Wanted(Top) = include.source
        BY DEF IncludesOf, Wanted
      <3>4. LET include_1 == snapshot.includes[Top.name][Top.next - 1 + 1]
            IN  /\ Known(Top.name, Top.next - 1 + 1) <=>
                     Known(Top.name, Top.next - 1) /\ include_1.source \in resolved
                /\ Gathered(Top.name, Top.next - 1 + 1) =
                     Gathered(Top.name, Top.next - 1) \cup
                     Selected(rules[include_1.source], include_1)
        BY <3>2, GatheredStep
      <3> QED
        BY <2>1, <2>4, <3>1, <3>2, <3>3, <3>4 DEF Exact
    <2>6. \A i \in 1..k : stack'[i].name = stack[i].name
      BY <2>3, <2>4 DEF Top
    <2>7. Unfinished'
      BY <2>1, <2>3, <2>6 DEF Unfinished
    <2>8. ASSUME NEW i \in 1..k PROVE Exact(stack[i])'
      <3>1. CASE i = k
        <4>1. frame.next - 1 = Top.next
          BY <2>2, <2>4 DEF Frames
        <4>2. stack'[i] = frame
          BY <2>3, <3>1
        <4>3. /\ stack'[i].name = Top.name /\ stack'[i].next - 1 = Top.next
              /\ stack'[i].values = Gathered(Top.name, Top.next)
          BY <2>4, <2>5, <4>1, <4>2
        <4> QED
          BY <2>1, <2>5, <4>3 DEF Exact, Known, Gathered
      <3>2. CASE i # k
        BY <2>1, <2>3, <3>2 DEF Exact, Known, Gathered
      <3> QED
        BY <3>1, <3>2
    <2> QED
      BY <1>1, <2>1, <2>3, <2>7, <2>8
  <1>7. CASE Leave
    <2> DEFINE k == Len(stack)
    <2>1. /\ stack # <<>> /\ snapshot' = snapshot
          /\ Top.next > Len(IncludesOf(Top))
          /\ resolved' = resolved \cup {Top.name}
          /\ rules' = [rules EXCEPT ![Top.name] = Polish(Top.values)]
      BY <1>7 DEF Leave
    <2>2. /\ k \in 1..k /\ Top \in Frames
          /\ Len(IncludesOf(Top)) \in Nat /\ Top.next = Len(IncludesOf(Top)) + 1
      BY <2>1, TopFrame, LenProperties DEF Frames
    <2>3. Top = stack[k] /\ Top.name \notin resolved /\ Top.name \in Lists
      BY <2>2 DEF Top, Unfinished, Frames
    <2>4. resolved \subseteq resolved' /\ \A m \in resolved : rules'[m] = rules[m]
      BY <2>1, <2>3 DEF TypeOK
    <2>5. MemoClosed'
      <3> SUFFICES ASSUME NEW l \in resolved'
                   PROVE  /\ Known(l, Len(snapshot.includes[l]))'
                          /\ (rules[l] = Polish(Gathered(l, Len(snapshot.includes[l]))))'
        BY DEF MemoClosed
      <3> DEFINE n == Len(snapshot.includes[l])
      <3>1. n \in Nat /\ Known(l, n) /\ rules'[l] = Polish(Gathered(l, n))
        <4>1. CASE l \in resolved
          BY <2>4, <4>1 DEF MemoClosed, TypeOK, SourceDirectories
        <4>2. CASE l = Top.name
          <5>1. Top.next - 1 = n /\ n \in Nat
            BY <2>2, <4>2 DEF IncludesOf
          <5>2. Exact(Top)
            BY <2>2, <2>3
          <5> QED
            BY <2>1, <2>3, <4>2, <5>1, <5>2 DEF Exact, TypeOK
        <4> QED
          BY <2>1, <4>1, <4>2
      <3>2. /\ \A i \in 1..n : snapshot'.includes[l][i].source \in resolved'
            /\ Gathered(l, n) =
                 snapshot'.entries[l] \cup
                 UNION {Selected(rules'[snapshot'.includes[l][i].source],
                                 snapshot'.includes[l][i]) : i \in 1..n}
        BY <2>1, <2>4, <3>1, GatheredStable
      <3>3. n = Len(snapshot'.includes[l])
        BY <2>1
      <3> HIDE DEF n
      <3> QED
        BY <3>1, <3>2, <3>3 DEF Known, Gathered
    <2>6. /\ Len(stack') = k - 1
          /\ \A i \in 1..Len(stack') : i \in 1..k /\ i # k /\ stack'[i] = stack[i]
      BY <1>7, <2>2, LeaveFrame
    <2>7. Unfinished'
      BY <2>1, <2>2, <2>3, <2>6 DEF Unfinished
    <2>8. ASSUME NEW i \in 1..Len(stack') PROVE Exact(stack[i])'
      <3>1. Exact(stack[i]) /\ stack[i] \in Frames /\ stack'[i] = stack[i]
        BY <2>6 DEF TypeOK
      <3>2. stack[i].next - 1 \in Nat
        BY <3>1 DEF Frames
      <3> DEFINE l == stack[i].name
                 n == stack[i].next - 1
      <3>3. Known(l, n) /\ stack[i].values = Gathered(l, n)
        BY <3>1 DEF Exact
      <3>4. /\ \A j \in 1..n : snapshot'.includes[l][j].source \in resolved'
            /\ Gathered(l, n) =
                 snapshot'.entries[l] \cup
                 UNION {Selected(rules'[snapshot'.includes[l][j].source],
                                 snapshot'.includes[l][j]) : j \in 1..n}
        BY <2>1, <2>4, <3>2, <3>3, GatheredStable
      <3> QED
        BY <3>1, <3>3, <3>4 DEF Exact, Known, Gathered
    <2> QED
      BY <2>5, <2>7, <2>8
  <1>8. CASE Deliver
    BY <1>2, <1>8 DEF Deliver
  <1>9. CASE Finish
    BY <1>2, <1>9 DEF Finish
  <1>10. CASE UNCHANGED vars
    BY <1>2, <1>10 DEF vars
  <1> QED
    BY <1>4, <1>5, <1>6, <1>7, <1>8, <1>9, <1>10 DEF Next

\* Every list in the memo is the fixed point's: its own entries and what its
\* includes select, pruned; it is written once and never before its includes.
THEOREM FixedPoint == Spec => []MemoClosed
  <1>1. IInv => MemoClosed
    BY DEF IInv
  <1> QED
    BY <1>1, IInvInit, IInvNext, PTL DEF Spec

\* resolve: no list is resolved inside its own resolution or again after it, whatever
\* the lists include: the recursion ends, at most as deep as there are lists.
THEOREM EnteredOnce == Spec => []NeverReentered
  <1>1. IInv => NeverReentered
    <2> SUFFICES ASSUME IInv PROVE NeverReentered
      OBVIOUS
    <2>1. DOMAIN stack = 1..Len(stack)
      BY DEF IInv, TypeOK
    <2> QED
      BY <2>1 DEF IInv, Unfinished, NeverReentered, Resolving
  <1> QED
    BY <1>1, IInvInit, IInvNext, PTL DEF Spec

-----------------------------------------------------------------------------
(* The expansion *)

AllRules == UNION {snapshot.entries[m] : m \in Lists}

\* The lists that carry a rule are themselves a closed set, the least one.
Carriers(rule) == {l \in Lists : rule \in Expansion[l]}

LEMMA CarriersLeast ==
  ASSUME NEW rule \in AllRules
  PROVE  /\ ClosedFor(rule, Carriers(rule))
         /\ \A S \in SUBSET Lists : ClosedFor(rule, S) => Carriers(rule) \subseteq S
  <1>1. ASSUME NEW S \in SUBSET Lists, ClosedFor(rule, S) PROVE Carriers(rule) \subseteq S
    BY <1>1 DEF Carriers, Expansion
  <1>2. ASSUME NEW S \in SUBSET Lists, ClosedFor(rule, S), NEW l \in Lists,
               \/ rule \in snapshot.entries[l]
               \/ \E i \in DOMAIN snapshot.includes[l] :
                    /\ Matches(rule, snapshot.includes[l][i])
                    /\ snapshot.includes[l][i].source \in Carriers(rule)
        PROVE  l \in S
    BY <1>1, <1>2 DEF ClosedFor
  <1>3. ASSUME NEW l \in Lists, \A S \in SUBSET Lists : ClosedFor(rule, S) => l \in S
        PROVE  l \in Carriers(rule)
    BY <1>3 DEF Carriers, Expansion, AllRules
  <1> QED
    BY <1>1, <1>2, <1>3 DEF ClosedFor

\* A list carries a rule for a reason: without one, leaving the list out would
\* leave a smaller closed set.
LEMMA CarriersGrounded ==
  ASSUME NEW rule \in AllRules, NEW l \in Carriers(rule)
  PROVE  \/ rule \in snapshot.entries[l]
         \/ \E i \in DOMAIN snapshot.includes[l] :
              /\ Matches(rule, snapshot.includes[l][i])
              /\ snapshot.includes[l][i].source \in Carriers(rule)
  <1> SUFFICES ASSUME rule \notin snapshot.entries[l],
                      \A i \in DOMAIN snapshot.includes[l] :
                        Matches(rule, snapshot.includes[l][i]) =>
                          snapshot.includes[l][i].source \notin Carriers(rule)
               PROVE  FALSE
    OBVIOUS
  <1> DEFINE S == Carriers(rule) \ {l}
  <1>1. S \in SUBSET Lists
    BY DEF Carriers
  <1>2. ASSUME NEW m \in Lists,
               \/ rule \in snapshot.entries[m]
               \/ \E i \in DOMAIN snapshot.includes[m] :
                    /\ Matches(rule, snapshot.includes[m][i])
                    /\ snapshot.includes[m][i].source \in S
        PROVE  m \in S
    <2>1. m \in Carriers(rule)
      BY <1>2, CarriersLeast DEF ClosedFor
    <2>2. m # l
      BY <1>2
    <2> QED
      BY <2>1, <2>2
  <1>3. ClosedFor(rule, S)
    <2> HIDE DEF S
    <2> QED
      BY <1>2 DEF ClosedFor
  <1> QED
    BY <1>1, <1>3, CarriersLeast

LEMMA ExpansionRules ==
  ASSUME TypeOK
  PROVE  /\ AllRules \subseteq Rules
         /\ \A l \in Lists : Expansion[l] \subseteq AllRules
  BY DEF TypeOK, SourceDirectories, AllRules, Expansion

\* The expansion unfolds: a list carries its entries and what its includes select
\* of what the lists they name carry.
LEMMA ExpansionUnfolds ==
  ASSUME TypeOK, NEW l \in Lists
  PROVE  Expansion[l] =
           snapshot.entries[l] \cup
           UNION {Selected(Expansion[snapshot.includes[l][i].source],
                           snapshot.includes[l][i]) : i \in DOMAIN snapshot.includes[l]}
  <1> DEFINE include(i) == snapshot.includes[l][i]
  <1>1. ASSUME NEW i \in DOMAIN snapshot.includes[l]
        PROVE  include(i).source \in Lists
    <2>1. snapshot.includes[l] \in Seq(Includes)
      BY DEF TypeOK, SourceDirectories
    <2>2. snapshot.includes[l][i] \in Includes
      BY <2>1, ElementOfSeq
    <2> QED
      BY <2>2 DEF Includes
  <1>2. snapshot.entries[l] \subseteq AllRules
    BY DEF AllRules
  <1>3. ASSUME NEW rule \in Expansion[l], rule \notin snapshot.entries[l]
        PROVE  \E i \in DOMAIN snapshot.includes[l] :
                 rule \in Selected(Expansion[include(i).source], include(i))
    <2>1. rule \in AllRules /\ l \in Carriers(rule)
      BY ExpansionRules DEF Carriers
    <2>2. PICK i \in DOMAIN snapshot.includes[l] :
            Matches(rule, include(i)) /\ include(i).source \in Carriers(rule)
      BY <1>3, <2>1, CarriersGrounded
    <2> QED
      BY <2>2 DEF Selected, Carriers
  <1>4. ASSUME NEW rule \in snapshot.entries[l] PROVE rule \in Expansion[l]
    BY <1>2, CarriersLeast DEF ClosedFor, Carriers
  <1>5. ASSUME NEW i \in DOMAIN snapshot.includes[l],
               NEW rule \in Selected(Expansion[include(i).source], include(i))
        PROVE  rule \in Expansion[l]
    <2>1. /\ rule \in Expansion[include(i).source] /\ Matches(rule, include(i))
          /\ include(i).source \in Lists
      BY <1>1 DEF Selected
    <2>2. rule \in AllRules /\ include(i).source \in Carriers(rule)
      BY <2>1, ExpansionRules DEF Carriers
    <2>3. l \in Carriers(rule)
      BY <2>1, <2>2, CarriersLeast DEF ClosedFor
    <2> QED
      BY <2>3 DEF Carriers
  <1> QED
    BY <1>3, <1>4, <1>5

\* A set of rules is another one and a family of parts together.
Joins(whole, set, I, parts) ==
  \A rule : rule \in whole <=> rule \in set \/ \E i \in I : rule \in parts[i]

\* Pruning any family of parts first makes no difference to the pruned whole.
LEMMA PolishParts ==
  ASSUME NEW set \in SUBSET Rules, NEW I, NEW parts, NEW pruned, NEW small, NEW big,
         \A i \in I : parts[i] \in SUBSET Rules /\ pruned[i] = Polish(parts[i]),
         Joins(small, set, I, pruned), Joins(big, set, I, parts)
  PROVE  Polish(small) = Polish(big)
  <1> USE DEF Joins
  <1>0. \A i \in I : parts[i] \subseteq Rules /\ Polish(parts[i]) \subseteq parts[i]
    BY DEF Polish
  <1>1. small \subseteq big /\ big \subseteq Rules
    BY <1>0
  <1>2. ASSUME NEW rule \in big, NEW other \in big, Covers(other, rule)
        PROVE  \E third \in small : Covers(third, rule)
    <2>1. CASE other \in small
      BY <1>2, <2>1
    <2>2. CASE other \notin small
      <3>1. PICK i \in I : other \in parts[i]
        BY <2>2
      <3>2. Redundant(other, parts[i])
        BY <2>2, <3>1 DEF Polish
      <3>3. PICK third \in Polish(parts[i]) : Covers(third, other)
        BY <1>0, <3>1, <3>2, Survivor
      <3>4. third \in Rules /\ other \in Rules /\ rule \in Rules
        BY <1>0, <1>1
      <3>5. Covers(third, rule)
        BY <1>2, <3>3, <3>4, AboveAssumption DEF Covers, Plain, Rules
      <3> QED
        BY <3>3, <3>5
    <2> QED
      BY <2>1, <2>2
  <1>3. ASSUME NEW rule \in big, rule \notin small PROVE Redundant(rule, big)
    <2>1. PICK i \in I : rule \in parts[i] /\ rule \notin Polish(parts[i])
      BY <1>3
    <2>2. PICK other \in parts[i] : Covers(other, rule) /\ Plain(rule, {"domain", "full"})
      BY <2>1 DEF Polish, Redundant
    <2>3. other \in big
      BY <2>2
    <2> QED
      BY <2>2, <2>3 DEF Redundant
  <1>4. ASSUME NEW rule \in big PROVE Redundant(rule, big) <=> Redundant(rule, small)
    BY <1>1, <1>2 DEF Redundant
  <1> QED
    BY <1>1, <1>3, <1>4 DEF Polish

\* Lists gathered from pruned expansions are, once pruned, the pruned expansion.
LEMMA GatheredExpansion ==
  ASSUME TypeOK, NEW l \in Lists, Known(l, Len(snapshot.includes[l])), PolishCommutes
  PROVE  Polish(Gathered(l, Len(snapshot.includes[l]))) = Polish(Expansion[l])
  <1> DEFINE I == DOMAIN snapshot.includes[l]
             include(i) == snapshot.includes[l][i]
             parts == [i \in I |-> Selected(Expansion[include(i).source], include(i))]
  <1>1. snapshot.includes[l] \in Seq(Includes) /\ snapshot.entries[l] \in SUBSET Rules
    BY DEF TypeOK, SourceDirectories
  <1>2. I = 1..Len(snapshot.includes[l])
    BY <1>1
  <1>3. ASSUME NEW i \in I
        PROVE  /\ parts[i] \in SUBSET Rules
               /\ Selected(rules[include(i).source], include(i)) = Polish(parts[i])
    <2>1. include(i).source \in resolved /\ include(i).source \in Lists
      BY <1>2 DEF Known, TypeOK
    <2>2. Expansion[include(i).source] \in SUBSET Rules
      BY <2>1, ExpansionRules
    <2>3. rules[include(i).source] = Polish(Expansion[include(i).source])
      BY <2>1 DEF PolishCommutes
    <2>4. parts[i] = Selected(Expansion[include(i).source], include(i))
      OBVIOUS
    <2> HIDE DEF parts
    <2>5. Selected(rules[include(i).source], include(i)) = Polish(parts[i])
      BY <2>2, <2>3, <2>4, FilterCommutes
    <2> QED
      BY <2>2, <2>4, <2>5 DEF Selected
  <1> DEFINE pruned == [i \in I |-> Polish(parts[i])]
             small  == Gathered(l, Len(snapshot.includes[l]))
             big    == Expansion[l]
  <1>4. Joins(small, snapshot.entries[l], I, pruned)
    <2> HIDE DEF parts, I
    <2> QED
      BY <1>2, <1>3 DEF Gathered, Joins
  <1>5. Joins(big, snapshot.entries[l], I, parts)
    <2>1. big = snapshot.entries[l] \cup
                UNION {Selected(Expansion[include(i).source], include(i)) : i \in I}
      BY ExpansionUnfolds
    <2> HIDE DEF big, I
    <2> QED
      BY <2>1 DEF Joins
  <1>6. \A i \in I : parts[i] \in SUBSET Rules /\ pruned[i] = Polish(parts[i])
    BY <1>3
  <1> HIDE DEF parts, pruned, I, small, big
  <1>7. Polish(small) = Polish(big)
    BY <1>1, <1>4, <1>5, <1>6, PolishParts
  <1> QED
    BY <1>7 DEF small, big

LEMMA ExpansionFixed ==
  ASSUME snapshot' = snapshot
  PROVE  Expansion' = Expansion
  BY DEF Expansion, ClosedFor

\* The walk keeps the memo at the pruned expansion.
LEMMA CommutesInit == Init => PolishCommutes
  BY DEF Init, PolishCommutes

LEMMA CommutesNext == IInv /\ PolishCommutes /\ [Next]_vars => PolishCommutes'
  <1> SUFFICES ASSUME IInv, PolishCommutes, [Next]_vars PROVE PolishCommutes'
    OBVIOUS
  <1>1. snapshot' = snapshot
    BY DEF Next, Request, Descend, Collect, Leave, Deliver, Finish, vars
  <1>2. Expansion' = Expansion
    BY <1>1, ExpansionFixed
  <1>3. CASE UNCHANGED <<resolved, rules>>
    BY <1>2, <1>3 DEF PolishCommutes
  <1>4. CASE Leave
    <2> DEFINE l == Top.name
               n == Len(snapshot.includes[l])
    <2>1. /\ stack # <<>> /\ resolved' = resolved \cup {l}
          /\ rules' = [rules EXCEPT ![l] = Polish(Top.values)]
          /\ Top.next > Len(IncludesOf(Top))
      BY <1>4 DEF Leave
    <2>2. /\ Len(stack) \in 1..Len(stack) /\ Top \in Frames /\ l \in Lists
          /\ Top.next - 1 = n
      <3>1. /\ Len(stack) \in 1..Len(stack) /\ Top \in Frames
            /\ Top.next \in 1..(Len(IncludesOf(Top)) + 1)
            /\ IncludesOf(Top) \in Seq(Includes)
        BY <2>1, TopFrame DEF IInv
      <3>2. Len(IncludesOf(Top)) \in Nat /\ IncludesOf(Top) = snapshot.includes[l]
        BY <3>1 DEF IncludesOf
      <3> QED
        BY <2>1, <3>1, <3>2 DEF Frames
    <2>3. Known(l, n) /\ Top.values = Gathered(l, n) /\ l \notin resolved
      BY <2>2 DEF IInv, Exact, Unfinished, Top
    <2>4. Polish(Top.values) = Polish(Expansion[l])
      BY <2>2, <2>3, GatheredExpansion DEF IInv
    <2>5. ASSUME NEW m \in resolved' PROVE rules'[m] = Polish(Expansion[m])
      <3>1. CASE m \in resolved
        BY <2>1, <2>3, <3>1 DEF PolishCommutes, IInv, TypeOK
      <3>2. CASE m = l
        BY <2>1, <2>2, <2>4, <3>2 DEF IInv, TypeOK
      <3> QED
        BY <2>1, <3>1, <3>2
    <2> QED
      BY <1>2, <2>5 DEF PolishCommutes
  <1> QED
    BY <1>3, <1>4 DEF Next, Request, Descend, Collect, Deliver, Finish, vars

\* compile_domain_ir: what the walk compiles, pruning every list before it is
\* included, is the naive expansion pruned once, for any lists and filters.
THEOREM ExpansionPolished == Spec => []PolishCommutes
  BY IInvInit, IInvNext, CommutesInit, CommutesNext, PTL DEF Spec

LEMMA CommutesKeeps == TypeOK /\ PolishCommutes => NoDomainLost
  <1> SUFFICES ASSUME TypeOK, PolishCommutes, NEW l \in resolved
               PROVE  Covered(rules[l]) = Covered(Expansion[l])
    BY DEF NoDomainLost
  <1>1. Expansion[l] \in SUBSET Rules
    BY ExpansionRules DEF TypeOK
  <1> QED
    BY <1>1, PolishKeepsCoverage DEF PolishCommutes

\* compile_domain_ir: the compiled list routes every domain the expansion does.
THEOREM CoverageKept == Spec => []NoDomainLost
  BY TypeCorrect, ExpansionPolished, CommutesKeeps, PTL

-----------------------------------------------------------------------------
(* Cycles *)

\* Every call waits for the call above it.
Linked ==
  \A i \in 1..(Len(stack) - 1) :
    /\ stack[i].next <= Len(IncludesOf(stack[i]))
    /\ Wanted(stack[i]) = stack[i + 1].name

\* The lists of a reported cycle include one another in a ring.
CycleFound ==
  outcome = "cycle" =>
    /\ Linked /\ stack # <<>>
    /\ Top.next <= Len(IncludesOf(Top))
    /\ Wanted(Top) \in Resolving

Chain == Linked /\ CycleFound

LEMMA ChainInit == Init => Chain
  BY DEF Init, Chain, Linked, CycleFound

LEMMA ChainNext == TypeOK /\ Chain /\ [Next]_vars => Chain'
  <1> SUFFICES ASSUME TypeOK, Chain, [Next]_vars PROVE Chain'
    OBVIOUS
  <1> USE DEF Chain
  <1>1. ASSUME UNCHANGED <<snapshot, stack>> PROVE Linked'
    BY <1>1 DEF Linked, IncludesOf, Wanted
  <1>2. ASSUME outcome' # "cycle" PROVE CycleFound'
    BY <1>2 DEF CycleFound
  <1>3. CASE Request
    <2>1. Resolving = {}
      BY <1>3 DEF Request, Resolving
    <2>2. /\ snapshot' = snapshot /\ outcome' # "cycle" /\ stack = <<>>
          /\ \/ stack' = stack
             \/ \E frame : stack' = Append(<<>>, frame)
      BY <1>3, <2>1 DEF Request, Enter
    <2>3. Linked'
      BY <2>2 DEF Linked
    <2> QED
      BY <1>2, <2>2, <2>3
  <1>4. CASE Descend
    <2> DEFINE k == Len(stack)
               frame == [name |-> Wanted(Top), next |-> 1, values |-> snapshot.entries[Wanted(Top)]]
    <2>1. /\ snapshot' = snapshot /\ stack # <<>> /\ outcome = "running"
          /\ Top.next <= Len(IncludesOf(Top))
      BY <1>4 DEF Descend
    <2>2. Wanted(Top) \in Lists /\ k \in 1..k /\ Top = stack[k]
      BY <2>1, TopFrame DEF Top
    <2>3. CASE stack' = stack /\ outcome' = "unreadable"
      BY <1>1, <1>2, <2>1, <2>3
    <2>4. CASE stack' = stack /\ Wanted(Top) \in Resolving
      <3>1. Linked'
        BY <1>1, <2>1, <2>4
      <3>2. (Top.next <= Len(IncludesOf(Top)) /\ Wanted(Top) \in Resolving)' /\ stack' # <<>>
        BY <2>1, <2>4 DEF Top, IncludesOf, Wanted, Resolving
      <3> QED
        BY <3>1, <3>2 DEF CycleFound
    <2>5. CASE stack' = Append(stack, frame) /\ outcome' = outcome
      <3>1. frame \in Frames /\ stack \in Seq(Frames)
        BY <2>2 DEF Frames, TypeOK, SourceDirectories
      <3>2. /\ Len(stack') = k + 1
            /\ \A i \in 1..k : stack'[i] = stack[i]
            /\ stack'[k + 1].name = Wanted(Top)
        BY <2>5, <3>1, AppendProperties
      <3> HIDE DEF frame
      <3>3. ASSUME NEW i \in 1..k
            PROVE  /\ stack'[i].next <= Len(IncludesOf(stack[i])')
                   /\ Wanted(stack[i])' = stack'[i + 1].name
        <4>1. stack'[i] = stack[i] /\ IncludesOf(stack[i])' = IncludesOf(stack[i])
              /\ Wanted(stack[i])' = Wanted(stack[i])
          BY <2>1, <3>2 DEF IncludesOf, Wanted
        <4>2. CASE i = k
          BY <2>1, <2>2, <3>2, <4>1, <4>2
        <4>3. CASE i # k
          <5>1. i \in 1..(k - 1) /\ i + 1 \in 1..k
            BY <4>3
          <5> QED
            BY <3>2, <4>1, <5>1 DEF Linked
        <4> QED
          BY <4>2, <4>3
      <3>4. Linked'
        <4>1. 1..(Len(stack') - 1) = 1..k
          BY <2>2, <3>2
        <4> QED
          BY <3>3, <4>1 DEF Linked
      <3> QED
        BY <1>2, <2>1, <2>5, <3>4
    <2> QED
      BY <1>4, <2>3, <2>4, <2>5 DEF Descend, Enter
  <1>5. CASE Collect
    <2>1. /\ snapshot' = snapshot /\ outcome' = "running" /\ stack # <<>>
          /\ Wanted(Top) \in resolved
      BY <1>5 DEF Collect
    <2>2. Len(stack) \in 1..Len(stack) /\ Top \in Frames /\ Top = stack[Len(stack)]
      BY <2>1, TopFrame DEF Top
    <2>3. /\ Len(stack') = Len(stack)
          /\ \A i \in 1..Len(stack) : i # Len(stack) => stack'[i] = stack[i]
      BY <1>5, CollectFrame
    <2>4. stack'[Len(stack)].name = stack[Len(stack)].name
      <3>1. \E frame : stack'[Len(stack)] = frame /\ frame.name = Top.name
        BY <1>5, <2>2, CollectFrame
      <3> QED
        BY <2>2, <3>1
    <2>5. \A i \in 1..(Len(stack) - 1) :
            /\ stack'[i] = stack[i]
            /\ stack'[i + 1].name = stack[i + 1].name
      BY <2>2, <2>3, <2>4
    <2>6. Linked'
      BY <2>1, <2>3, <2>5 DEF Linked, IncludesOf, Wanted
    <2> QED
      BY <1>2, <2>1, <2>6
  <1>6. CASE Leave
    <2>1. snapshot' = snapshot /\ outcome' = "running" /\ stack # <<>>
      BY <1>6 DEF Leave
    <2>2. /\ Len(stack') = Len(stack) - 1 /\ Len(stack) \in Nat \ {0}
          /\ \A i \in 1..Len(stack') : stack'[i] = stack[i]
      BY <1>6, <2>1, LeaveFrame DEF TypeOK
    <2>3. \A i \in 1..(Len(stack') - 1) :
            /\ i \in 1..(Len(stack) - 1)
            /\ stack'[i] = stack[i] /\ stack'[i + 1] = stack[i + 1]
      BY <2>2
    <2>4. Linked'
      BY <2>1, <2>3 DEF Linked, IncludesOf, Wanted
    <2> QED
      BY <1>2, <2>1, <2>4
  <1>7. CASE Deliver
    BY <1>1, <1>2, <1>7 DEF Deliver
  <1>8. CASE Finish
    BY <1>1, <1>2, <1>8 DEF Finish
  <1>9. CASE UNCHANGED vars
    BY <1>1, <1>9 DEF vars, CycleFound, Top, IncludesOf, Wanted, Resolving
  <1> QED
    BY <1>3, <1>4, <1>5, <1>6, <1>7, <1>8, <1>9 DEF Next

\* The chain that a circular-include error names is a chain of includes, and its
\* last list includes one of the chain.
THEOREM CyclesAreReal == Spec => []CycleFound
  <1>1. Chain => CycleFound
    BY DEF Chain
  <1> QED
    BY <1>1, TypeInit, TypeNext, ChainInit, ChainNext, PTL DEF Spec

-----------------------------------------------------------------------------
(* Errors *)

LEMMA IncludedLists ==
  ASSUME TypeOK, NEW l \in Lists
  PROVE  /\ Included(l) \subseteq Lists
         /\ Included(l) = {snapshot.includes[l][i].source : i \in 1..Len(snapshot.includes[l])}
  <1>1. snapshot.includes[l] \in Seq(Includes)
    BY DEF TypeOK, SourceDirectories
  <1>2. \A i \in 1..Len(snapshot.includes[l]) : snapshot.includes[l][i] \in Includes
    BY <1>1, ElementOfSeq
  <1> QED
    BY <1>1, <1>2 DEF Included, Includes

\* Reaching is including, and including what is reached.
LEMMA ReachedSteps ==
  ASSUME TypeOK, NEW l \in Lists
  PROVE  /\ Reached[l] \subseteq Lists
         /\ Included(l) \subseteq Reached[l]
         /\ \A m \in Reached[l] : Included(m) \subseteq Reached[l]
  <1>1. Reached[l] \subseteq Lists
    BY DEF Reached
  <1>2. Included(l) \subseteq Lists /\ \A m \in Reached[l] : Included(m) \subseteq Lists
    BY <1>1, IncludedLists
  <1>3. \A m \in Lists : m \in Reached[l] <=>
          \A S \in SUBSET Lists :
            Included(l) \subseteq S /\ (\A k \in S : Included(k) \subseteq S) => m \in S
    BY DEF Reached
  <1>4. Included(l) \subseteq Reached[l]
    BY <1>2, <1>3
  <1>5. ASSUME NEW m \in Reached[l], NEW n \in Included(m) PROVE n \in Reached[l]
    <2>1. ASSUME NEW S \in SUBSET Lists,
                 Included(l) \subseteq S, \A k \in S : Included(k) \subseteq S
          PROVE  n \in S
      BY <1>1, <1>3, <2>1
    <2>2. n \in Lists
      BY <1>2
    <2> QED
      BY <1>3, <2>1, <2>2
  <1> QED
    BY <1>1, <1>4, <1>5

LEMMA ReachedLeast ==
  ASSUME NEW S \in SUBSET Lists, NEW l \in Lists,
         Included(l) \subseteq S, \A k \in S : Included(k) \subseteq S
  PROVE  Reached[l] \subseteq S
  BY DEF Reached

LEMMA ReachedFixed ==
  ASSUME snapshot' = snapshot
  PROVE  Reached' = Reached /\ Needed' = Needed
  BY DEF Reached, Needed, Included

\* The calls under way are of lists that can be read, each reached from those above
\* it, the first one requested.
CallsNeeded ==
  /\ \A i \in 1..Len(stack) : stack[i].name \notin snapshot.broken
  /\ \A i, j \in 1..Len(stack) : i < j => stack[j].name \in Reached[stack[i].name]
  /\ stack # <<>> => stack[1].name \in Roots

\* What is left to deliver was requested, and what was requested and is not left has
\* been compiled.
Pending ==
  /\ \A i \in 1..Len(todo) : todo[i] \in Roots
  /\ \A l \in Roots : l \in resolved \/ \E i \in 1..Len(todo) : todo[i] = l
  /\ outcome = "done" => todo = <<>>

\* A compiled list can be read and is on no cycle.
MemoSound == \A l \in resolved : l \notin snapshot.broken /\ l \notin Reached[l]

UnreadableFound == outcome = "unreadable" => Needed \cap snapshot.broken # {}

EInv == CallsNeeded /\ Pending /\ MemoSound /\ UnreadableFound

\* What the innermost call includes is needed, by every call that waits.
LEMMA NeededHere ==
  ASSUME TypeOK, CallsNeeded, stack # <<>>
  PROVE  /\ \A i \in 1..Len(stack) : /\ stack[i].name \in Lists \cap Needed
                                     /\ Included(Top.name) \subseteq Reached[stack[i].name]
         /\ Included(Top.name) \subseteq Needed
  <1>1. /\ Len(stack) \in 1..Len(stack) /\ 1 \in 1..Len(stack)
        /\ \A i \in 1..Len(stack) : stack[i].name \in Lists
    <2>1. Len(stack) \in 1..Len(stack)
      BY TopFrame
    <2>2. \A i \in 1..Len(stack) : stack[i] \in Frames
      BY DEF TypeOK
    <2> QED
      BY <2>1, <2>2 DEF Frames
  <1>2. Top.name = stack[Len(stack)].name
    BY DEF Top
  <1>3. ASSUME NEW i \in 1..Len(stack)
        PROVE  Included(Top.name) \subseteq Reached[stack[i].name]
    <2>1. CASE i = Len(stack)
      BY <1>1, <1>2, <2>1, ReachedSteps
    <2>2. CASE i < Len(stack)
      <3>1. Top.name \in Reached[stack[i].name]
        BY <1>1, <1>2, <2>2 DEF CallsNeeded
      <3> QED
        BY <1>1, <3>1, ReachedSteps
    <2> QED
      BY <1>1, <2>1, <2>2
  <1>4. ASSUME NEW i \in 1..Len(stack) PROVE stack[i].name \in Needed
    <2>1. stack[1].name \in Roots
      BY DEF CallsNeeded
    <2>2. i = 1 \/ stack[i].name \in Reached[stack[1].name]
      BY <1>1 DEF CallsNeeded
    <2> QED
      BY <2>1, <2>2 DEF Needed
  <1>5. Included(Top.name) \subseteq Needed
    BY <1>1, <1>3 DEF CallsNeeded, Needed
  <1> QED
    BY <1>1, <1>3, <1>4, <1>5

\* The compiled lists are closed under inclusion.
LEMMA MemoIncludes ==
  ASSUME TypeOK, NEW l \in Lists, Known(l, Len(snapshot.includes[l]))
  PROVE  Included(l) \subseteq resolved
  BY IncludedLists DEF Known

LEMMA MemoReaches ==
  ASSUME TypeOK, MemoClosed, NEW l \in Lists, Included(l) \subseteq resolved
  PROVE  Reached[l] \subseteq resolved
  <1>1. resolved \in SUBSET Lists
    BY DEF TypeOK
  <1>2. \A k \in resolved : Included(k) \subseteq resolved
    BY <1>1, MemoIncludes DEF MemoClosed
  <1> QED
    BY <1>1, <1>2, ReachedLeast

LEMMA RootsRequested ==
  /\ Roots \subseteq Lists
  /\ \A i \in 1..Len(Requested) : Requested[i] \in Roots
  /\ \A l \in Roots : \E i \in 1..Len(Requested) : Requested[i] = l
  BY RequestedAssumption DEF Roots

LEMMA EInvInit == Init => EInv
  BY RootsRequested
  DEF Init, EInv, CallsNeeded, Pending, MemoSound, UnreadableFound

LEMMA EInvNext == IInv /\ EInv /\ [Next]_vars => EInv'
  <1> SUFFICES ASSUME IInv, EInv, [Next]_vars PROVE EInv'
    OBVIOUS
  <1> USE DEF IInv, EInv
  <1>1. snapshot' = snapshot /\ Reached' = Reached /\ Needed' = Needed
    BY ReachedFixed DEF Next, Request, Descend, Collect, Leave, Deliver, Finish, vars
  <1>2. ASSUME UNCHANGED <<todo, resolved>>, outcome' # "done" \/ outcome' = outcome
        PROVE  Pending'
    BY <1>2 DEF Pending, Roots
  <1>3. ASSUME resolved' = resolved PROVE MemoSound'
    BY <1>1, <1>3 DEF MemoSound
  <1>4. ASSUME outcome' # "unreadable" \/ outcome' = outcome PROVE UnreadableFound'
    BY <1>1, <1>4 DEF UnreadableFound
  <1>5. ASSUME NEW n \in 0..Len(stack), Len(stack') = n,
               \A i \in 1..n : stack'[i].name = stack[i].name,
               stack = <<>> => stack' = <<>>
        PROVE  CallsNeeded'
    <2>1. n \in Nat /\ Len(stack) \in Nat
      BY <1>5 DEF TypeOK
    <2>2. \A i \in 1..n : i \in 1..Len(stack)
      BY <2>1
    <2>3. stack' # <<>> => 1 \in 1..n
      BY <1>5, <2>1
    <2> QED
      BY <1>1, <1>5, <2>2, <2>3 DEF CallsNeeded, Roots
  <1>6. ASSUME NEW name \in Lists, Enter(name), UNCHANGED <<todo, resolved>>,
               outcome = "running", name \in Needed,
               stack = <<>> => name \in Roots,
               \A i \in 1..Len(stack) : name \in Reached[stack[i].name]
        PROVE  EInv'
    <2> DEFINE frame == [name |-> name, next |-> 1, values |-> snapshot.entries[name]]
               k == Len(stack)
    <2>1. Pending' /\ MemoSound'
      BY <1>2, <1>3, <1>6 DEF Enter
    <2>2. UnreadableFound'
      BY <1>1, <1>6 DEF UnreadableFound, Enter
    <2>3. CASE stack' = stack
      <3>1. CallsNeeded'
        BY <1>1, <2>3 DEF CallsNeeded, Roots
      <3> QED
        BY <2>1, <2>2, <3>1
    <2>4. CASE stack' = Append(stack, frame) /\ name \notin snapshot.broken
      <3>1. frame \in Frames /\ stack \in Seq(Frames)
        BY DEF Frames, TypeOK, SourceDirectories
      <3>2. /\ Len(stack') = k + 1 /\ k \in Nat
            /\ \A i \in 1..k : stack'[i] = stack[i]
            /\ stack'[k + 1].name = name
        BY <2>4, <3>1, AppendProperties, LenProperties
      <3> HIDE DEF frame
      <3>3. \A i \in 1..Len(stack') : stack'[i].name \notin snapshot'.broken
        BY <1>1, <2>4, <3>2 DEF CallsNeeded
      <3>4. ASSUME NEW i \in 1..Len(stack'), NEW j \in 1..Len(stack'), i < j
            PROVE  stack'[j].name \in Reached'[stack'[i].name]
        <4>1. i \in 1..k /\ stack'[i] = stack[i]
          BY <3>2, <3>4
        <4>2. CASE j = k + 1
          BY <1>1, <1>6, <3>2, <4>1, <4>2
        <4>3. CASE j \in 1..k
          BY <1>1, <3>2, <3>4, <4>1, <4>3 DEF CallsNeeded
        <4> QED
          BY <3>2, <4>2, <4>3
      <3>5. stack'[1].name \in Roots
        <4>1. CASE k = 0
          BY <1>6, <3>1, <3>2, <4>1, EmptySeq
        <4>2. CASE k # 0
          BY <3>1, <3>2, <4>2 DEF CallsNeeded
        <4> QED
          BY <4>1, <4>2
      <3>6. CallsNeeded'
        BY <3>3, <3>4, <3>5 DEF CallsNeeded, Roots
      <3> QED
        BY <2>1, <2>2, <3>6
    <2> QED
      BY <1>6, <2>3, <2>4 DEF Enter
  <1>7. CASE Request
    <2>1. Head(todo) \in Lists \cap Roots
      <3>1. 1 \in 1..Len(todo) /\ Head(todo) = todo[1] /\ Head(todo) \in Lists
        BY <1>7 DEF Request, TypeOK
      <3> QED
        BY <3>1 DEF Pending
    <2>2. 1..Len(stack) = {}
      BY <1>7 DEF Request
    <2> QED
      BY <1>6, <1>7, <2>1, <2>2 DEF Request, Needed
  <1>8. CASE Descend
    <2>1. /\ stack # <<>> /\ Top.next <= Len(IncludesOf(Top)) /\ outcome = "running"
          /\ Enter(Wanted(Top)) /\ UNCHANGED <<todo, resolved>>
      BY <1>8 DEF Descend
    <2>2. Wanted(Top) \in Lists /\ Wanted(Top) \in Included(Top.name)
      <3>1. /\ Top \in Frames /\ Top.next \in 1..Len(IncludesOf(Top)) /\ Wanted(Top) \in Lists
        BY <2>1, TopFrame
      <3> QED
        BY <3>1, IncludedLists DEF Wanted, IncludesOf, Frames
    <2> QED
      BY <1>6, <2>1, <2>2, NeededHere
  <1>9. CASE Collect
    <2>1. UNCHANGED <<todo, resolved, outcome>> /\ stack # <<>>
      BY <1>9 DEF Collect
    <2>2. /\ Len(stack') = Len(stack) /\ Len(stack) \in 0..Len(stack)
          /\ \A i \in 1..Len(stack) : stack'[i].name = stack[i].name
      <3>1. Len(stack) \in 1..Len(stack)
        BY <2>1, TopFrame
      <3>2. PICK frame : /\ frame.name = Top.name /\ Len(stack') = Len(stack)
                         /\ \A i \in 1..Len(stack) :
                              stack'[i] = IF i = Len(stack) THEN frame ELSE stack[i]
        BY <1>9, CollectFrame
      <3> QED
        BY <3>1, <3>2 DEF Top
    <2> QED
      BY <1>2, <1>3, <1>4, <1>5, <2>1, <2>2
  <1>10. CASE Leave
    <2> DEFINE l == Top.name
    <2>1. /\ UNCHANGED <<todo, outcome>> /\ stack # <<>>
          /\ resolved' = resolved \cup {l}
          /\ Top.next > Len(IncludesOf(Top))
      BY <1>10 DEF Leave
    <2>2. /\ Len(stack) \in 1..Len(stack) /\ Top \in Frames /\ l \in Lists
          /\ Top.next - 1 = Len(snapshot.includes[l])
      <3>1. /\ Len(stack) \in 1..Len(stack) /\ Top \in Frames
            /\ Top.next \in 1..(Len(IncludesOf(Top)) + 1)
            /\ IncludesOf(Top) \in Seq(Includes)
        BY <2>1, TopFrame
      <3>2. Len(IncludesOf(Top)) \in Nat /\ IncludesOf(Top) = snapshot.includes[l]
        BY <3>1 DEF IncludesOf
      <3> QED
        BY <2>1, <3>1, <3>2 DEF Frames
    <2>3. /\ Known(l, Len(snapshot.includes[l])) /\ l \notin resolved
          /\ l \notin snapshot.broken
      BY <2>2 DEF Exact, Unfinished, CallsNeeded, Top
    <2>4. Reached[l] \subseteq resolved
      BY <2>2, <2>3, MemoIncludes, MemoReaches
    <2>5. MemoSound'
      BY <1>1, <2>1, <2>3, <2>4 DEF MemoSound
    <2>6. Pending'
      BY <2>1 DEF Pending, Roots
    <2>7. CallsNeeded'
      <3>1. /\ Len(stack') = Len(stack) - 1
            /\ \A i \in 1..Len(stack') : stack'[i] = stack[i]
        BY <1>10, LeaveFrame
      <3>2. Len(stack) - 1 \in 0..Len(stack)
        BY <2>2
      <3> QED
        BY <1>5, <2>1, <3>1, <3>2
    <2> QED
      BY <1>4, <2>1, <2>5, <2>6, <2>7
  <1>11. CASE Deliver
    <2>1. /\ UNCHANGED <<stack, resolved, outcome>> /\ todo # <<>>
          /\ todo' = Tail(todo) /\ Head(todo) \in resolved /\ outcome = "running"
      BY <1>11 DEF Deliver
    <2>2. /\ Len(todo) \in Nat \ {0} /\ Len(todo') = Len(todo) - 1
          /\ \A i \in 1..Len(todo') : i + 1 \in 1..Len(todo) /\ todo'[i] = todo[i + 1]
          /\ Head(todo) = todo[1]
      BY <2>1, HeadTailProperties, EmptySeq, LenProperties DEF TypeOK
    <2>3. ASSUME NEW l \in Roots, l \notin resolved
          PROVE  \E i \in 1..Len(todo') : todo'[i] = l
      <3>1. PICK i \in 1..Len(todo) : todo[i] = l
        BY <2>3 DEF Pending
      <3>2. i # 1 /\ i - 1 \in 1..Len(todo') /\ (i - 1) + 1 = i
        BY <2>1, <2>2, <2>3, <3>1
      <3>3. todo'[i - 1] = l
        BY <2>2, <3>1, <3>2
      <3> QED
        BY <3>2, <3>3
    <2>4. \A i \in 1..Len(todo') : todo'[i] \in Roots
      BY <2>2 DEF Pending
    <2>5. Pending'
      BY <2>1, <2>3, <2>4 DEF Pending, Roots
    <2>6. CallsNeeded'
      BY <1>1, <2>1 DEF CallsNeeded, Roots
    <2> QED
      BY <1>3, <1>4, <2>1, <2>5, <2>6
  <1>12. CASE Finish \/ UNCHANGED vars
    <2>1. /\ UNCHANGED <<stack, resolved, todo>>
          /\ \/ outcome' = outcome
             \/ outcome' = "done" /\ todo = <<>>
      BY <1>12 DEF Finish, vars
    <2>2. CallsNeeded' /\ Pending'
      BY <1>1, <2>1 DEF CallsNeeded, Pending, Roots
    <2> QED
      BY <1>3, <1>4, <2>1, <2>2
  <1> QED
    BY <1>7, <1>8, <1>9, <1>10, <1>11, <1>12 DEF Next

\* When the walk ends well, all that is needed has been compiled.
LEMMA DoneResolves ==
  ASSUME IInv, EInv, outcome = "done"
  PROVE  Roots \subseteq resolved /\ Needed \subseteq resolved
  <1>1. Roots \subseteq resolved
    BY DEF EInv, Pending
  <1>2. \A l \in Roots : Reached[l] \subseteq resolved
    BY <1>1, RootsRequested, MemoIncludes, MemoReaches DEF IInv, MemoClosed
  <1> QED
    BY <1>1, <1>2 DEF Needed

LEMMA ErrorsHold == IInv /\ EInv /\ Chain => ErrorsAreReal
  <1> SUFFICES ASSUME IInv, EInv, Chain PROVE ErrorsAreReal
    OBVIOUS
  <1>1. ASSUME outcome = "done"
        PROVE  Needed \cap snapshot.broken = {} /\ \A l \in Needed : l \notin Reached[l]
    BY <1>1, DoneResolves DEF EInv, MemoSound
  <1>2. ASSUME outcome = "cycle" PROVE \E l \in Needed : l \in Reached[l]
    <2>1. stack # <<>> /\ Top.next <= Len(IncludesOf(Top)) /\ Wanted(Top) \in Resolving
      BY <1>2 DEF Chain, CycleFound
    <2>2. /\ Top \in Frames /\ Top.next \in 1..Len(IncludesOf(Top))
      BY <2>1, TopFrame DEF IInv
    <2>3. Wanted(Top) \in Included(Top.name)
      BY <2>2, IncludedLists DEF Wanted, IncludesOf, Frames, IInv
    <2>4. PICK i \in 1..Len(stack) : Wanted(Top) = stack[i].name
      BY <2>1 DEF Resolving, IInv, TypeOK
    <2> QED
      BY <2>1, <2>3, <2>4, NeededHere DEF IInv, EInv
  <1> QED
    BY <1>1, <1>2 DEF ErrorsAreReal, EInv, UnreadableFound

\* resolve: a compilation that succeeds met no cycle and no broken list among all it
\* needs, and a DomainSourceError names one that is there.
THEOREM OutcomesAreReal == Spec => []ErrorsAreReal
  BY TypeInit, TypeNext, IInvInit, IInvNext, EInvInit, EInvNext, ChainInit, ChainNext,
     ErrorsHold, PTL DEF Spec

-----------------------------------------------------------------------------
(* The Keenetic export *)

\* What a list's import file routes does not depend on whether the list was pruned.
THEOREM PruningExports ==
  ASSUME NEW set \in SUBSET Rules
  PROVE  /\ Below(Names(Polish(set))) = Below(Names(set))
         /\ Representable(Polish(set)) <=> Representable(set)
  <1>1. Polish(set) \subseteq set
    BY DEF Polish
  <1>2. ASSUME NEW rule \in set, rule \notin Polish(set)
        PROVE  /\ rule.kind \in {"domain", "full"}
               /\ \E other \in Polish(set) :
                    other.value = rule.value \/ other.value \in Above[rule.value]
    <2>1. Redundant(rule, set)
      BY <1>2 DEF Polish
    <2>2. PICK other \in Polish(set) : Covers(other, rule)
      BY <2>1, Survivor
    <2> QED
      BY <2>1, <2>2 DEF Redundant, Covers, Plain
  <1>3. Representable(Polish(set)) <=> Representable(set)
    BY <1>1, <1>2 DEF Representable
  <1>4. ASSUME NEW d \in Domains, NEW rule \in set,
               rule.value = d \/ rule.value \in Above[d]
        PROVE  d \in Below(Names(Polish(set)))
    <2>1. PICK other \in Polish(set) :
            other.value = rule.value \/ other.value \in Above[rule.value]
      BY <1>2
    <2>2. rule.value \in Domains /\ other.value \in Names(Polish(set))
      BY <2>1 DEF Rules, Names
    <2>3. other.value = d \/ other.value \in Above[d]
      BY <1>4, <2>1, <2>2, AboveAssumption
    <2> QED
      BY <2>2, <2>3 DEF Below
  <1>5. ASSUME NEW d \in Below(Names(set)) PROVE d \in Below(Names(Polish(set)))
    BY <1>4, <1>5 DEF Below, Names
  <1>6. Names(Polish(set)) \subseteq Names(set)
    BY <1>1 DEF Names
  <1> QED
    BY <1>3, <1>5, <1>6 DEF Below

\* The first n requested lists are in their files.
WrittenTo(n) == \A i \in 1..n : files[Requested[i]] = Names(rules[Requested[i]])

\* The files are those of the memo so far, and untouched before and after a refusal.
ExportInv ==
  /\ DOMAIN files = Lists /\ written \in 0..Len(Requested)
  /\ export \in {"none", "generated", "refused", "failed"}
  /\ export # "none" => outcome = "done"
  /\ export \in {"none", "refused"} => files = [l \in Lists |-> Old] /\ written = 0
  /\ WrittenTo(written)

LEMMA ExportInit == KInit => ExportInv
  BY RequestedAssumption DEF KInit, ExportInv, WrittenTo

LEMMA ExportNext == ExportInv /\ [KNext]_kvars => ExportInv'
  <1> SUFFICES ASSUME ExportInv, [KNext]_kvars PROVE ExportInv'
    OBVIOUS
  <1> USE RequestedAssumption DEF ExportInv
  <1>1. CASE Next /\ UNCHANGED <<export, written, files>>
    <2>1. outcome = "running"
      BY <1>1 DEF Next, Request, Descend, Collect, Leave, Deliver, Finish
    <2>2. export = "none" /\ written = 0
      BY <2>1
    <2> QED
      BY <1>1, <2>2 DEF WrittenTo
  <1>2. CASE Generate
    BY <1>2 DEF Generate, WrittenTo, vars
  <1>3. CASE WriteNext
    <2> DEFINE n == written + 1
               l == Requested[n]
    <2>1. /\ n \in DOMAIN Requested /\ l \in Lists /\ written' = n
          /\ files' = [files EXCEPT ![l] = Names(rules[l])]
          /\ UNCHANGED <<rules, outcome, export>> /\ export = "generated"
      BY <1>3 DEF WriteNext, Writing, vars
    <2>2. \A i \in 1..written : i \in DOMAIN Requested /\ i # n /\ Requested[i] # l
      BY <2>1
    <2>3. \A i \in 1..written : Requested[i] \in Lists
      BY <2>2
    <2>4. \A i \in 1..n : files'[Requested[i]] = Names(rules[Requested[i]])
      BY <2>1, <2>2, <2>3 DEF WrittenTo
    <2> QED
      BY <2>1, <2>4 DEF WrittenTo
  <1>4. CASE WriteFails
    <2> DEFINE l == Requested[written + 1]
    <2>1. /\ written + 1 \in DOMAIN Requested /\ l \in Lists
          /\ files' \in {files, [files EXCEPT ![l] = Partial]}
          /\ UNCHANGED <<rules, outcome, written>> /\ export' = "failed" /\ export = "generated"
      BY <1>4 DEF WriteFails, Writing, vars
    <2>2. \A i \in 1..written : /\ i \in DOMAIN Requested /\ Requested[i] # l
                                /\ Requested[i] \in Lists
      BY <2>1
    <2>3. DOMAIN files' = Lists /\ \A i \in 1..written : files'[Requested[i]] = files[Requested[i]]
      BY <2>1, <2>2
    <2> QED
      BY <2>1, <2>3 DEF WrittenTo
  <1>5. CASE UNCHANGED kvars
    BY <1>5 DEF kvars, vars, WrittenTo
  <1> QED
    BY <1>1, <1>2, <1>3, <1>4, <1>5 DEF KNext

\* generate_keenetic: an export that does not fail leaves every file untouched or
\* makes every file that of its compiled list, never some of each.
OldOrNew ==
  /\ export = "refused" => files = [l \in Lists |-> Old]
  /\ Exported => \A i \in DOMAIN Requested : files[Requested[i]] = Names(rules[Requested[i]])

THEOREM AllOrNothing == KSpec => []OldOrNew
  <1>1. ExportInv => OldOrNew
    BY DEF ExportInv, OldOrNew, Exported, Writing, WrittenTo
  <1> QED
    BY <1>1, ExportInit, ExportNext, PTL DEF KSpec

\* The export is decided on the memo, which the walk no longer changes.
DecisionInv ==
  /\ export = "refused" => \E l \in Roots : ~Representable(rules[l])
  /\ export \in {"generated", "failed"} => \A l \in Roots : Representable(rules[l])

\* The walk goes on as without an export after it.
LEMMA WalkStep == [KNext]_kvars => [Next]_vars
  BY DEF KNext, Generate, WriteNext, WriteFails, kvars

\* generate_keenetic: with an export after it, the compilation takes the steps it takes
\* alone, so all that is proved of it holds of the lists an export is made from.
THEOREM WalkKept == KSpec => Init /\ [][Next]_vars
  <1>1. KInit => Init
    BY DEF KInit
  <1> QED
    BY <1>1, WalkStep, PTL DEF KSpec

LEMMA DecisionNext == ExportInv /\ DecisionInv /\ [KNext]_kvars => DecisionInv'
  <1> SUFFICES ASSUME ExportInv, DecisionInv, [KNext]_kvars PROVE DecisionInv'
    OBVIOUS
  <1>1. CASE Next /\ UNCHANGED <<export, written, files>>
    <2>1. outcome = "running"
      BY <1>1 DEF Next, Request, Descend, Collect, Leave, Deliver, Finish
    <2>2. export' = "none"
      BY <1>1, <2>1 DEF ExportInv
    <2> QED
      BY <2>2 DEF DecisionInv
  <1>2. CASE Generate
    <2>1. /\ rules' = rules
          /\ export' = IF \A l \in Roots : Representable(rules[l]) THEN "generated" ELSE "refused"
      BY <1>2 DEF Generate, vars, Roots
    <2>2. CASE \A l \in Roots : Representable(rules[l])
      BY <2>1, <2>2 DEF DecisionInv, Roots, Representable
    <2>3. CASE \E l \in Roots : ~Representable(rules[l])
      BY <2>1, <2>3 DEF DecisionInv, Roots, Representable
    <2> QED
      BY <2>2, <2>3
  <1>3. CASE WriteNext \/ WriteFails \/ UNCHANGED kvars
    <2>1. /\ rules' = rules
          /\ \/ export' = export
             \/ export = "generated" /\ export' = "failed"
      BY <1>3 DEF WriteNext, WriteFails, Writing, kvars, vars
    <2> QED
      BY <2>1 DEF DecisionInv, Roots, Representable
  <1> QED
    BY <1>1, <1>2, <1>3 DEF KNext

\* What the memo holds of a requested list once it is exported.
LEMMA RootsCompiled ==
  ASSUME IInv, EInv, PolishCommutes, ExportInv, export # "none", NEW l \in Roots
  PROVE  /\ Expansion[l] \in SUBSET Rules
         /\ rules[l] = Polish(Expansion[l])
  <1>1. l \in resolved /\ l \in Lists
    BY DoneResolves, RootsRequested DEF ExportInv
  <1> QED
    BY <1>1, ExpansionRules DEF IInv, PolishCommutes

LEMMA WholeHolds ==
  IInv /\ EInv /\ PolishCommutes /\ ExportInv /\ DecisionInv => ExportWhole
  <1> SUFFICES ASSUME IInv, EInv, PolishCommutes, ExportInv, DecisionInv PROVE ExportWhole
    OBVIOUS
  <1>1. ASSUME export # "none", NEW l \in Roots
        PROVE  Representable(rules[l]) <=> Representable(Expansion[l])
    BY <1>1, RootsCompiled, PruningExports
  <1>2. export \in {"none", "refused"} => files = [l \in Lists |-> Old]
    BY DEF ExportInv
  <1>3. export = "refused" => ~\A l \in Roots : Representable(Expansion[l])
    BY <1>1 DEF DecisionInv
  <1>4. export \in {"generated", "failed"} => \A l \in Roots : Representable(Expansion[l])
    BY <1>1 DEF DecisionInv
  <1> QED
    BY <1>2, <1>3, <1>4 DEF ExportWhole

LEMMA CoversHolds ==
  IInv /\ EInv /\ PolishCommutes /\ ExportInv /\ DecisionInv => ExportCovers
  <1> SUFFICES ASSUME IInv, EInv, PolishCommutes, ExportInv, DecisionInv, Exported,
                      NEW l \in Roots
               PROVE  /\ Covered(Expansion[l]) \subseteq Below(files[l])
                      /\ \A d \in Below(files[l]) \ Covered(Expansion[l]) :
                           \E rule \in Expansion[l] :
                             rule.kind = "full" /\ rule.value \in Above[d]
    BY DEF ExportCovers
  <1> DEFINE naive == Expansion[l]
  <1>1. naive \in SUBSET Rules /\ rules[l] = Polish(naive)
    BY RootsCompiled DEF Exported
  <1>2. files[l] = Names(rules[l])
    <2>1. Len(Requested) \in Nat /\ written = Len(Requested)
      BY RequestedAssumption DEF ExportInv, Exported, Writing
    <2>2. PICK i \in 1..Len(Requested) : Requested[i] = l
      BY RootsRequested
    <2> QED
      BY <2>1, <2>2 DEF ExportInv, WrittenTo
  <1>3. Below(files[l]) = Below(Names(naive)) /\ Representable(naive)
    BY <1>1, <1>2, PruningExports DEF DecisionInv, Exported
  <1> HIDE DEF naive
  <1>4. Covered(naive) \subseteq Below(Names(naive))
    <2> SUFFICES ASSUME NEW d \in Covered(naive) PROVE d \in Below(Names(naive))
      OBVIOUS
    <2>1. PICK rule \in naive : rule.value = d \/ rule.value \in Above[d]
      BY DEF Covered
    <2> QED
      BY <2>1 DEF Below, Names, Covered
  <1>5. ASSUME NEW d \in Below(Names(naive)), d \notin Covered(naive)
        PROVE  \E rule \in naive : rule.kind = "full" /\ rule.value \in Above[d]
    <2>1. PICK rule \in naive : rule.value = d \/ rule.value \in Above[d]
      BY DEF Below, Names
    <2>2. rule.kind \in {"domain", "full"} /\ d \in Domains
      BY <1>3 DEF Representable, Below
    <2> QED
      BY <1>5, <2>1, <2>2 DEF Covered
  <1> QED
    BY <1>3, <1>4, <1>5 DEF naive

\* KeeneticBackend.generate: an export is refused exactly when the naive expansion of
\* a requested list holds a rule that no file can hold, and no file is touched before it
\* is decided, for any lists, though only pruned lists are looked at.
THEOREM RefusedExactly == KSpec => []ExportWhole
  <1>1. KInit => Init /\ DecisionInv
    BY DEF KInit, DecisionInv
  <1> QED
    BY <1>1, WalkStep, TypeInit, TypeNext, IInvInit, IInvNext, EInvInit, EInvNext,
       CommutesInit, CommutesNext, ExportInit, ExportNext, DecisionNext, WholeHolds,
       PTL DEF KSpec

\* KeeneticBackend.generate: the files of a whole export route all the expansions cover, and
\* beyond it only what is below the domain of a full rule: whatever the lists, losing the
\* kinds widens the full rules and nothing else.
THEOREM WidenedOnlyBelowFull == KSpec => []ExportCovers
  <1>1. KInit => Init /\ DecisionInv
    BY DEF KInit, DecisionInv
  <1> QED
    BY <1>1, WalkStep, TypeInit, TypeNext, IInvInit, IInvNext, EInvInit, EInvNext,
       CommutesInit, CommutesNext, ExportInit, ExportNext, DecisionNext, CoversHolds,
       PTL DEF KSpec
=============================================================================
