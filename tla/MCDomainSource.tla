---------------------------- MODULE MCDomainSource ----------------------------
(* Three lists, compiled and exported: a includes up to two lists, b and c one each,
   in every direction, cycles included, with and without filters. *)
EXTENDS Keenetic

CONSTANTS a, b, c, org, example, attr

MCAbove == [d \in Domains |-> IF d = example THEN {org} ELSE {}]

Rule(kind, value, attributes) == [kind |-> kind, value |-> value, attributes |-> attributes]

Include(source, required, banned) ==
  [source |-> source, required |-> required, banned |-> banned]

Filters(sources) ==
  {Include(l, f[1], f[2]) : l \in sources, f \in {<<{}, {}>>, <<{attr}, {}>>, <<{}, {attr}>>}}

UpTo1(set) == {<<>>} \cup {<<i>> : i \in set}

EntriesOf(l) ==
  CASE l = a -> {{Rule("full", example, {})}, {Rule("keyword", org, {})}}
    [] l = b -> {{}, {Rule("domain", org, {}), Rule("domain", example, {attr})},
                 {Rule("domain", org, {attr}), Rule("domain", example, {})},
                 {Rule("full", org, {}), Rule("domain", example, {})}}
    [] l = c -> {{Rule("domain", example, {}), Rule("full", example, {attr})},
                 {Rule("domain", org, {}), Rule("full", org, {})},
                 {Rule("domain", org, {attr}), Rule("full", org, {})}}

IncludesFrom(l) ==
  CASE l = a -> UpTo1(Filters({b})) \cup {<<i, j>> : i \in Filters({b, c}), j \in Filters({c})}
    [] l = b -> UpTo1(Filters({c}) \cup {Include(a, {}, {}), Include(b, {attr}, {})})
    [] l = c -> {<<>>, <<Include(a, {}, {attr})>>, <<Include(b, {}, {})>>}

ByList(x, y, z) == [l \in Lists |-> CASE l = a -> x [] l = b -> y [] l = c -> z]

MCSnapshots ==
  {[broken |-> broken, entries |-> ByList(e[1], e[2], e[3]), includes |-> ByList(i[1], i[2], i[3])] :
     broken \in {{}, {c}},
     e \in EntriesOf(a) \X EntriesOf(b) \X EntriesOf(c),
     i \in IncludesFrom(a) \X IncludesFrom(b) \X IncludesFrom(c)}

MCRequested == <<b, a>>
=============================================================================
