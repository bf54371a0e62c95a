-------------------------------- MODULE MCBuild --------------------------------
(* Two lists, and five policies that differ in strategy, order, fallback and *)
(* overlap; the loader refuses Repeated, and validate.py Nameless.           *)
EXTENDS Build, TLC

CONSTANTS l1, l2, g1, g2, d1, d2, a1

Tags == [a \in Action |-> a]

Rules(direct, proxy, block) == [direct |-> direct, proxy |-> proxy, block |-> block]

BlockFirst ==
  [domain_strategy |-> "IPIfNonMatch",
   action_order |-> <<"block", "direct", "proxy">>, fallback |-> "direct",
   domains |-> Rules(<<d1>>, <<d2, d1>>, <<d2>>), ips |-> Rules(<<>>, <<a1>>, <<>>)]
ProxyFirst ==
  [domain_strategy |-> "IPOnDemand",
   action_order |-> <<"proxy", "direct", "block">>, fallback |-> "proxy",
   domains |-> Rules(<<d1, d2>>, <<d2>>, <<>>), ips |-> Rules(<<>>, <<a1>>, <<a1>>)]
DirectFirst ==
  [domain_strategy |-> "AsIs",
   action_order |-> <<"direct", "block", "proxy">>, fallback |-> "block",
   domains |-> Rules(<<d1>>, <<d2>>, <<d1>>), ips |-> Rules(<<a1>>, <<>>, <<a1>>)]
Repeated ==
  [BlockFirst EXCEPT !.domains = Rules(<<d1, d1>>, <<>>, <<>>)]
Nameless ==
  [ProxyFirst EXCEPT !.domain_strategy = ""]

SomePolicies == {BlockFirst, ProxyFirst, DirectFirst, Repeated, Nameless}

\* Nothing tells two lists, or two versions of the database, apart.
Names == Permutations(Lists) \cup Permutations(GeoipVersions)
=============================================================================
