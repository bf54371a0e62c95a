------------------------------- MODULE Keenetic -------------------------------
(***************************************************************************)
(* generate_keenetic of routing_engine/keenetic_cli.py: the lists compiled *)
(* by DomainSource become one import file per requested list.  The backend *)
(* makes every artifact before the first is written, over the files an     *)
(* earlier run has left; writing them is not atomic.                       *)
(***************************************************************************)
EXTENDS DomainSource

CONSTANTS
  Old,     \* a file of an earlier run
  Partial  \* a file cut short

VARIABLES
  export,   \* "none", "generated", or how it ended early: "refused", "failed"
  written,  \* how many of the requested lists have been written
  files     \* content of every import file

kvars == <<vars, export, written, files>>

KInit ==
  /\ Init
  /\ export = "none" /\ written = 0
  /\ files = [l \in Lists |-> Old]

\* Mutant: a full rule, which an import file cannot hold exactly, is left out.
NamesOfDomains(set) == {rule.value : rule \in {r \in set : r.kind = "domain"}}

\* An import file is a set of names: kinds and attributes are gone.
Names(set) == {rule.value : rule \in set}

Representable(set) == \A rule \in set : rule.kind \in {"domain", "full"}

\* Mutant: artifacts are written as they are made, until one cannot be.
GenerateLazily ==
  /\ outcome = "done" /\ export = "none"
  /\ export' = "refused"
  /\ files' = [l \in Lists |->
       IF \E i \in DOMAIN Requested :
            Requested[i] = l /\ \A j \in 1..i : Representable(rules[Requested[j]])
       THEN Names(rules[l]) ELSE files[l]]
  /\ UNCHANGED <<vars, written>>

\* KeeneticBackend.generate: a rule that no file can hold is a ValueError.
Generate ==
  /\ outcome = "done" /\ export = "none"
  /\ export' = IF \A i \in DOMAIN Requested : Representable(rules[Requested[i]])
               THEN "generated" ELSE "refused"
  /\ UNCHANGED <<vars, written, files>>

Writing == export = "generated" /\ written < Len(Requested)

WriteNext ==
  /\ Writing
  /\ written' = written + 1
  /\ files' = [files EXCEPT ![Requested[written']] = Names(rules[Requested[written']])]
  /\ UNCHANGED <<vars, export>>

WriteFails ==
  /\ Writing
  /\ export' = "failed"
  /\ files' \in {files, [files EXCEPT ![Requested[written + 1]] = Partial]}
  /\ UNCHANGED <<vars, written>>

KNext ==
  \/ Next /\ UNCHANGED <<export, written, files>>
  \/ Generate \/ WriteNext \/ WriteFails

KSpec == KInit /\ [][KNext]_kvars

-----------------------------------------------------------------------------
\* The names that a set of names routes: the router, which is external, matches a
\* name and all below it.
Below(names) == {d \in Domains : d \in names \/ Above[d] \cap names # {}}

Exported == export = "generated" /\ ~Writing

\* "Keenetic rejects regex instead of weakening it": an export is refused exactly when
\* the naive expansion of a requested list holds a keyword or a pattern, though it is
\* made from pruned lists, and then, as after a compilation that failed, every file
\* is the one that was there.
ExportWhole ==
  LET fits == \A l \in Roots : Representable(Expansion[l])
  IN  /\ export \in {"none", "refused"} => files = [l \in Lists |-> Old]
      /\ export = "refused" => ~fits
      /\ export \in {"generated", "failed"} => fits

\* The files of a whole export route every domain that the expansions cover, and a
\* domain that those do not cover only where it is below that of a full rule.
ExportCovers ==
  Exported =>
    LET naive == Expansion
    IN  \A l \in Roots :
          /\ Covered(naive[l]) \subseteq Below(files[l])
          /\ \A d \in Below(files[l]) \ Covered(naive[l]) :
               \E rule \in naive[l] : rule.kind = "full" /\ rule.value \in Above[d]

\* "Silent removal, widening or weakening of a rule is forbidden" (ARCHITECTURE_V2.md):
\* what a file routes, its list covers.
NothingWidened == Exported => \A l \in Roots : Below(files[l]) \subseteq Covered(Expansion[l])
=============================================================================
