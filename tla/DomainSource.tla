---------------------------- MODULE DomainSource ----------------------------
(***************************************************************************)
(* compile_domain_ir of routing_engine/core/domain_source.py: named domain *)
(* lists that include one another, possibly filtered by attributes, are    *)
(* resolved depth first.  The recursion of resolve() is the stack below,   *)
(* one frame per call; its memo is `resolved' with `rules'; _polish prunes *)
(* every list before anybody includes it.                                  *)
(*                                                                         *)
(* A domain name is a model value, and Above gives its proper suffixes at  *)
(* label boundaries, which is all that the string operations of _polish    *)
(* look at.  A source list is what load() makes of the file; a file that   *)
(* cannot be read or parsed is broken.                                     *)
(***************************************************************************)
EXTENDS Naturals, Sequences

CONSTANTS
  Lists,       \* names of lists
  Domains,     \* domain names, keywords and patterns
  Above,       \* the domains that a domain is below of
  Attributes,  \* attributes of rules
  Snapshots,   \* the source directories considered
  Requested    \* set_ids: the lists asked for, each once, in order

Kinds == {"domain", "full", "keyword", "regexp"}

Rules    == [kind : Kinds, value : Domains, attributes : SUBSET Attributes]
Includes == [source : Lists, required : SUBSET Attributes, banned : SUBSET Attributes]

\* load() of every list.
SourceDirectories ==
  [broken : SUBSET Lists, entries : [Lists -> SUBSET Rules], includes : [Lists -> Seq(Includes)]]

ASSUME SnapshotsAssumption == Snapshots \subseteq SourceDirectories
ASSUME RequestedAssumption ==
  /\ Requested \in Seq(Lists)
  /\ \A i, j \in DOMAIN Requested : Requested[i] = Requested[j] => i = j
ASSUME AboveAssumption ==
  /\ Above \in [Domains -> SUBSET Domains]
  /\ \A d \in Domains : \A e \in Above[d] : Above[e] \subseteq Above[d]

\* Suffixes get shorter: of any domains, some have none of the others above.
ASSUME TopmostAssumption ==
  \A S \in SUBSET Domains : S # {} => \E d \in S : Above[d] \cap S = {}

VARIABLES
  snapshot,  \* the source directory
  todo,      \* the requested lists not compiled yet
  stack,     \* the calls of resolve(): list, next include, entries so far
  resolved,  \* the lists in the memo
  rules,     \* the memo
  outcome    \* "running", "done", or the DomainSourceError: "cycle", "unreadable"

vars == <<snapshot, todo, stack, resolved, rules, outcome>>

Init ==
  /\ snapshot \in Snapshots
  /\ todo = Requested
  /\ stack = <<>>
  /\ resolved = {}
  /\ rules = [l \in Lists |-> {}]
  /\ outcome = "running"

-----------------------------------------------------------------------------
(* The operators on rules *)

\* The include's filters, on the attributes of a rule.
Matches(rule, include) ==
  /\ include.required \subseteq rule.attributes
  /\ include.banned \cap rule.attributes = {}

Selected(set, include) == {rule \in set : Matches(rule, include)}

Plain(rule, kinds) == rule.kind \in kinds /\ rule.attributes = {}

\* Mutant: a domain rule with attributes makes others redundant as well.
RedundantToAny(rule, set) ==
  /\ Plain(rule, {"domain", "full"})
  /\ \E other \in set :
       /\ other.kind = "domain"
       /\ \/ other.value \in Above[rule.value]
          \/ rule.kind = "full" /\ other.value = rule.value

\* Mutant: a full rule makes the domains below it redundant as well.
RedundantToFull(rule, set) ==
  /\ Plain(rule, {"domain", "full"})
  /\ \E other \in set :
       /\ Plain(other, {"domain", "full"})
       /\ other.value \in Above[rule.value]

\* A domain rule without attributes covers those below it, and the full rule of
\* its own name.
Covers(other, rule) ==
  /\ Plain(other, {"domain"})
  /\ \/ other.value \in Above[rule.value]
     \/ rule.kind = "full" /\ other.value = rule.value

Redundant(rule, set) ==
  /\ Plain(rule, {"domain", "full"})
  /\ \E other \in set : Covers(other, rule)

Polish(set) == {rule \in set : ~Redundant(rule, set)}

-----------------------------------------------------------------------------
(* resolve *)

Top        == stack[Len(stack)]
Resolving  == {stack[i].name : i \in DOMAIN stack}
IncludesOf(frame) == snapshot.includes[frame.name]
Wanted(frame) == IncludesOf(frame)[frame.next].source

Replace(frame) == [stack EXCEPT ![Len(stack)] = frame]

\* Mutant: a list that cannot be read counts as empty.
EnterAnyway(name) ==
  /\ name \notin resolved
  /\ IF name \in Resolving
     THEN outcome' = "cycle" /\ UNCHANGED stack
     ELSE /\ stack' = Append(stack, [name |-> name, next |-> 1,
                                     values |-> snapshot.entries[name]])
          /\ UNCHANGED outcome

\* Mutant: the lists being resolved are not looked at.
EnterUnchecked(name) ==
  /\ name \notin resolved
  /\ IF name \in snapshot.broken
     THEN outcome' = "unreadable" /\ UNCHANGED stack
     ELSE /\ stack' = Append(stack, [name |-> name, next |-> 1,
                                     values |-> snapshot.entries[name]])
          /\ UNCHANGED outcome

\* resolve(name) for a list that is not in the memo.
Enter(name) ==
  /\ name \notin resolved
  /\ IF name \in Resolving
     THEN outcome' = "cycle" /\ UNCHANGED stack
     ELSE IF name \in snapshot.broken
     THEN outcome' = "unreadable" /\ UNCHANGED stack
     ELSE /\ stack' = Append(stack, [name |-> name, next |-> 1,
                                     values |-> snapshot.entries[name]])
          /\ UNCHANGED outcome

\* The next include of the innermost call is not in the memo: resolve it first.
Descend ==
  /\ outcome = "running" /\ stack # <<>>
  /\ Top.next <= Len(IncludesOf(Top))
  /\ Enter(Wanted(Top))
  /\ UNCHANGED <<snapshot, todo, resolved, rules>>

\* Mutant: the filters of the include are ignored.
CollectAll ==
  /\ outcome = "running" /\ stack # <<>>
  /\ Top.next <= Len(IncludesOf(Top))
  /\ Wanted(Top) \in resolved
  /\ stack' = Replace([Top EXCEPT !.next = @ + 1, !.values = @ \cup rules[Wanted(Top)]])
  /\ UNCHANGED <<snapshot, todo, resolved, rules, outcome>>

\* Mutant: the cursor moves past two includes.
CollectSkipping ==
  /\ outcome = "running" /\ stack # <<>>
  /\ Top.next <= Len(IncludesOf(Top))
  /\ Wanted(Top) \in resolved
  /\ stack' = Replace([Top EXCEPT !.next = @ + 2])
  /\ UNCHANGED <<snapshot, todo, resolved, rules, outcome>>

\* It is: take the rules that match.
Collect ==
  /\ outcome = "running" /\ stack # <<>>
  /\ Top.next <= Len(IncludesOf(Top))
  /\ Wanted(Top) \in resolved
  /\ stack' = Replace([Top EXCEPT
       !.next = @ + 1,
       !.values = @ \cup Selected(rules[Wanted(Top)], IncludesOf(Top)[Top.next])])
  /\ UNCHANGED <<snapshot, todo, resolved, rules, outcome>>

\* All includes are taken: polish, remember, return.
Leave ==
  /\ outcome = "running" /\ stack # <<>>
  /\ Top.next > Len(IncludesOf(Top))
  /\ resolved' = resolved \cup {Top.name}
  /\ rules' = [rules EXCEPT ![Top.name] = Polish(Top.values)]
  /\ stack' = SubSeq(stack, 1, Len(stack) - 1)
  /\ UNCHANGED <<snapshot, todo, outcome>>

-----------------------------------------------------------------------------
(* compile_domain_ir *)

Request ==
  /\ outcome = "running" /\ stack = <<>> /\ todo # <<>>
  /\ Enter(Head(todo))
  /\ UNCHANGED <<snapshot, todo, resolved, rules>>

Deliver ==
  /\ outcome = "running" /\ stack = <<>> /\ todo # <<>>
  /\ Head(todo) \in resolved
  /\ todo' = Tail(todo)
  /\ UNCHANGED <<snapshot, stack, resolved, rules, outcome>>

Finish ==
  /\ outcome = "running" /\ stack = <<>> /\ todo = <<>>
  /\ outcome' = "done"
  /\ UNCHANGED <<snapshot, todo, stack, resolved, rules>>

Next == Request \/ Descend \/ Collect \/ Leave \/ Deliver \/ Finish

Spec == Init /\ [][Next]_vars

-----------------------------------------------------------------------------
(* Properties *)

Frames == [name : Lists, next : Nat \ {0}, values : SUBSET Rules]

TypeOK ==
  /\ snapshot \in SourceDirectories
  /\ todo \in Seq(Lists)
  /\ stack \in Seq(Frames)
  /\ \A i \in DOMAIN stack : stack[i].next <= Len(IncludesOf(stack[i])) + 1
  /\ resolved \subseteq Lists
  /\ rules \in [Lists -> SUBSET Rules]
  /\ outcome \in {"running", "done", "cycle", "unreadable"}

\* A rule is carried by the lists that have it among their entries or, through an
\* include whose filters it passes, include a list that carries it: S leaves none out.
ClosedFor(rule, S) ==
  \A l \in Lists :
    \/ rule \in snapshot.entries[l]
    \/ \E i \in DOMAIN snapshot.includes[l] :
         /\ Matches(rule, snapshot.includes[l][i])
         /\ snapshot.includes[l][i].source \in S
    => l \in S

\* The reference: the rules that a list carries, through includes of any depth and
\* never polished.  The least sets closed, so cycles carry nothing round.
Expansion ==
  [l \in Lists |-> {rule \in UNION {snapshot.entries[m] : m \in Lists} :
                      \A S \in SUBSET Lists : ClosedFor(rule, S) => l \in S}]

\* Polishing every list before it is included and filtered gives what polishing
\* the naive expansion once at the end gives: no filter lets a rule through whose
\* reason to be redundant it stops.
PolishCommutes ==
  LET naive == Expansion
  IN  \A l \in resolved : rules[l] = Polish(naive[l])

\* The entries of a list and what its first n includes select from the memo, and
\* whether the memo has those includes.
Gathered(l, n) ==
  snapshot.entries[l] \cup
  UNION {Selected(rules[snapshot.includes[l][i].source], snapshot.includes[l][i]) : i \in 1..n}

Known(l, n) == \A i \in 1..n : snapshot.includes[l][i].source \in resolved

\* The memo is closed: a list in it holds its own entries and the selected rules
\* of its includes, all in the memo, polished.
MemoClosed ==
  \A l \in resolved :
    /\ Known(l, Len(snapshot.includes[l]))
    /\ rules[l] = Polish(Gathered(l, Len(snapshot.includes[l])))

\* The names a list routes: a domain rule those of its domain and all below it.
Covered(set) ==
  {d \in Domains : \E rule \in set :
     \/ rule.kind \in {"domain", "full"} /\ rule.value = d
     \/ rule.kind = "domain" /\ rule.value \in Above[d]}

\* Pruning loses no domain, through any depth of includes.
NoDomainLost ==
  LET naive == Expansion
  IN  \A l \in resolved : Covered(rules[l]) = Covered(naive[l])

\* The lists that a list includes.
Included(l) == {snapshot.includes[l][i].source : i \in DOMAIN snapshot.includes[l]}

\* The lists reached from a list by one include or more: the least set that holds
\* those it includes and all that its members include.
Reached ==
  [l \in Lists |-> {m \in Lists : \A S \in SUBSET Lists :
     Included(l) \subseteq S /\ (\A k \in S : Included(k) \subseteq S) => m \in S}]

\* The requested lists and all they reach.
Roots  == {Requested[i] : i \in DOMAIN Requested}
Needed == Roots \cup UNION {Reached[l] : l \in Roots}

\* A compilation succeeds exactly when no requested list reaches a cycle or a
\* broken list, and names the right reason when it does not.
ErrorsAreReal ==
  LET cyclic == \E l \in Needed : l \in Reached[l]
  IN  /\ outcome = "done" => ~cyclic /\ Needed \cap snapshot.broken = {}
      /\ outcome = "cycle" => cyclic
      /\ outcome = "unreadable" => Needed \cap snapshot.broken # {}

\* However the lists include one another, none is resolved inside its own resolution
\* or again after it: the recursion is no deeper than there are lists, and every list
\* is read once.
NeverReentered ==
  /\ \A i, j \in DOMAIN stack : stack[i].name = stack[j].name => i = j
  /\ Resolving \cap resolved = {}
=============================================================================
