----------------------------- MODULE RoutingPolicy -----------------------------
(***************************************************************************)
(* The routing policy of routing_engine/model.py and loader.py, and what   *)
(* the two generators make of it.  A domain or address rule is a value; a  *)
(* connection is the rules that match its name and its addresses.  How     *)
(* Xray reads a document is external: the first rule that applies decides, *)
(* and domainStrategy says when a named connection has addresses.  DNS     *)
(* settings, names and URLs, which the targets add, are left out.          *)
(***************************************************************************)
EXTENDS Integers, Sequences

CONSTANTS
  Domains,     \* domain rules
  Addresses,   \* IP rules
  OutboundTag  \* settings["outbound_tags"] of targets/xray.yaml, per action

Action == {"direct", "proxy", "block"}

\* The loader takes any string; to Xray all but the last two are AsIs.
Strategies == {"", "AsIs", "IPIfNonMatch", "IPOnDemand"}

\* What the YAML files may hold: nothing of it is checked yet.
Sources ==
  [domain_strategy : Strategies, action_order : Seq(Action), fallback : Action,
   domains : [Action -> Seq(Domains)], ips : [Action -> Seq(Addresses)]]

Elements(s) == {s[i] : i \in DOMAIN s}
Distinct(s) == \A i, j \in DOMAIN s : s[i] = s[j] => i = j

\* load_policy returns a policy: every action is ordered exactly once, and no
\* list repeats a rule.
Loads(p) ==
  /\ Len(p.action_order) = 3 /\ Elements(p.action_order) = Action
  /\ \A a \in Action : Distinct(p.domains[a]) /\ Distinct(p.ips[a])

-----------------------------------------------------------------------------
(* HappGenerator.generate: the rules by action, in no order of precedence *)

HappProfile(p) == [domainStrategy |-> p.domain_strategy, sites |-> p.domains, ips |-> p.ips]

-----------------------------------------------------------------------------
(* XrayGenerator.generate *)

Field(kind, tag, values) == [kind |-> kind, outboundTag |-> tag, values |-> values]

\* Mutant: the adapter keeps an order of its own.
RulesAt(p, i) ==
  LET a == <<"direct", "proxy", "block">>[i]
  IN  <<Field("domain", OutboundTag[a], Elements(p.domains[a])),
        Field("ip", OutboundTag[a], Elements(p.ips[a]))>>

\* The rules of the i-th action of the policy's order; an empty list makes none.
RulesOf(p, i) ==
  LET a == p.action_order[i]
      Listed(kind, values) ==
        IF values = <<>> THEN <<>> ELSE <<Field(kind, OutboundTag[a], Elements(values))>>
  IN  Listed("domain", p.domains[a]) \o Listed("ip", p.ips[a])

XrayDocument(p) ==
  [domainStrategy |-> p.domain_strategy,
   rules |-> RulesOf(p, 1) \o RulesOf(p, 2) \o RulesOf(p, 3)
               \o <<Field("network", OutboundTag[p.fallback], {})>>]

-----------------------------------------------------------------------------
(* Connections: to a name, which has the addresses it resolves to, or to an *)
(* address.  Xray may sniff a name; the connection is then a named one.     *)

Connections ==
  {c \in [named : BOOLEAN, domain : SUBSET Domains, ip : SUBSET Addresses] :
     c.named \/ c.domain = {}}

Applies(rule, c) ==
  CASE rule.kind = "domain" -> rule.values \cap c.domain # {}
    [] rule.kind = "ip"     -> rule.values \cap c.ip # {}
    [] OTHER                -> TRUE

First(S) == CHOOSE i \in S : \A j \in S : i <= j

Hits(rules, c) == {i \in DOMAIN rules : Applies(rules[i], c)}

FirstTag(rules, c) == rules[First(Hits(rules, c))].outboundTag

\* In the first pass a name is not resolved, unless the strategy is IPOnDemand.
Unresolved(strategy, c) ==
  IF c.named /\ strategy # "IPOnDemand" THEN [c EXCEPT !.ip = {}] ELSE c

\* Xray: the tag of the first rule that applies; under IPIfNonMatch a name that none
\* applies to is resolved for a second pass.
Route(document, c) ==
  LET first == Unresolved(document.domainStrategy, c)
  IN  IF Hits(document.rules, first) = {} /\ document.domainStrategy = "IPIfNonMatch"
      THEN FirstTag(document.rules, c)
      ELSE FirstTag(document.rules, first)

-----------------------------------------------------------------------------
(* "Rules in policy-owned first-match order": what the policy decides *)

ByDomain(p, c)  == {i \in 1..3 : Elements(p.domains[p.action_order[i]]) \cap c.domain # {}}
ByAddress(p, c) == {i \in 1..3 : Elements(p.ips[p.action_order[i]]) \cap c.ip # {}}

FirstAction(p, S) == IF S = {} THEN p.fallback ELSE p.action_order[First(S)]

\* The rules that count for a name: its own and those of its addresses, its own only,
\* or, as IPIfNonMatch says, those of its addresses when it has none of its own.
Decide(p, c) ==
  FirstAction(p,
    CASE ~c.named \/ p.domain_strategy = "IPOnDemand" -> ByDomain(p, c) \cup ByAddress(p, c)
      [] c.named /\ p.domain_strategy = "IPIfNonMatch" ->
           IF ByDomain(p, c) # {} THEN ByDomain(p, c) ELSE ByAddress(p, c)
      [] OTHER -> ByDomain(p, c))

\* A name that the policy decides by its addresses in a second pass.
SecondPass(p, c) ==
  c.named /\ p.domain_strategy = "IPIfNonMatch" /\ ByDomain(p, c) = {}
=============================================================================
