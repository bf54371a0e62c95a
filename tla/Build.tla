--------------------------------- MODULE Build ---------------------------------
(***************************************************************************)
(* scripts/build.sh and what it runs: the cached clone of the upstream     *)
(* lists, the lists of data/ copied over it, the geosite compiler, the     *)
(* geoip download, the generators, release.json, SHA256SUMS and            *)
(* validate.py; make configs, make clean, and the release workflow, which  *)
(* builds in a fresh checkout and publishes dist/*.  Every command may     *)
(* fail (set -e), and what it left behind is what the next run finds.      *)
(*                                                                         *)
(* A digest is the content it was taken of.  The sources in the checkout   *)
(* are edited between runs, upstream and the geoip mirror at any time.     *)
(***************************************************************************)
EXTENDS RoutingPolicy

CONSTANTS
  Lists,          \* names of domain lists
  UpstreamTexts,  \* texts of an upstream list
  LocalTexts,     \* texts of a list under data/
  GeoipVersions,  \* versions of the geoip database
  Policies,       \* contents of policy/
  Absent,         \* no such list
  Missing,        \* no such file
  Partial,        \* a file cut short
  NoClone,        \* the cache directory holds no clone
  MaxChanges,     \* bound on the changes of the sources
  MaxRuns         \* bound on the runs of make and of the workflow

ASSUME PoliciesAssumption == Policies \subseteq Sources
ASSUME BoundsAssumption   == MaxChanges \in Nat /\ MaxRuns \in Nat

\* The files of release.json, those of SHA256SUMS, and all of dist/.
Described  == {"geoip", "geosite", "profile", "xray"}
Checksummed == Described \cup {"link", "release"}
Files       == Checksummed \cup {"sums", "upstream_sum"}

Upstream == [Lists -> UpstreamTexts \cup {Absent}]
Trees    == [Lists -> UpstreamTexts \cup LocalTexts \cup {Absent}]

VARIABLES
  data,       \* the lists under data/
  policy,     \* the files under policy/
  upstream,   \* master of the upstream repository
  mirror,     \* the latest release of the geoip repository
  changes,    \* bound: changes of the four above so far
  clone,      \* the cached clone: HEAD and the working tree, or NoClone
  dist,       \* content of every file of dist/
  job,        \* "build", "release" (build in the workflow) or "configs"
  runs,       \* bound: runs so far
  step,       \* the command about to run; one of Ends when none is
  served      \* history: the version whose digest the mirror served to the run

inputs == <<data, policy, upstream, mirror, changes>>
vars   == <<inputs, clone, dist, job, runs, step, served>>

\* How a run ends; "idle" before the first one.
Ends == {"idle", "built", "failed", "published"}

\* What the commands make: the content of the described files, release.json with the
\* digests of those, and SHA256SUMS.
Contents == Trees \cup GeoipVersions \cup
            {HappProfile(p) : p \in Policies} \cup {XrayDocument(p) : p \in Policies}
Descriptions == [commit : Upstream, files : [Described -> Contents]]
Digests      == [Checksummed -> Contents \cup Descriptions]

\* A file that is not there, or cut short, is none of them.
ASSUME ContentsAssumption ==
  \A none \in {Missing, Partial} :
    /\ none \notin Trees /\ none \notin GeoipVersions
    /\ none \notin Descriptions /\ none \notin Digests

Empty == [f \in Files |-> Missing]

Init ==
  /\ data \in [Lists -> LocalTexts \cup {Absent}]
  /\ policy \in Policies
  /\ upstream \in Upstream
  /\ mirror \in GeoipVersions
  /\ changes = 0
  /\ clone = NoClone /\ dist = Empty
  /\ job = "build" /\ runs = 0 /\ step = "idle" /\ served = Missing

-----------------------------------------------------------------------------
(* The sources *)

AtRest == step \in Ends

Change ==
  /\ changes < MaxChanges
  /\ changes' = changes + 1
  /\ UNCHANGED <<clone, dist, job, runs>>

EditSources ==
  /\ AtRest /\ step' = "idle" /\ served' = Missing
  /\ Change
  /\ \/ \E l \in Lists, text \in LocalTexts \cup {Absent} :
          data' = [data EXCEPT ![l] = text] /\ UNCHANGED policy
     \/ policy' \in Policies /\ UNCHANGED data
  /\ UNCHANGED <<upstream, mirror>>

RemoteMoves ==
  /\ Change
  /\ \/ \E l \in Lists, text \in UpstreamTexts \cup {Absent} :
          upstream' = [upstream EXCEPT ![l] = text] /\ UNCHANGED mirror
     \/ mirror' \in GeoipVersions /\ UNCHANGED upstream
  /\ UNCHANGED <<data, policy, step, served>>

-----------------------------------------------------------------------------
(* Runs *)

\* Mutant: the metadata is written before the configurations.
MetadataFirst(s) ==
  [sync |-> "copy", copy |-> "compile", compile |-> "geoip", geoip |-> "geoip_sum",
   geoip_sum |-> "verify", verify |-> "metadata", metadata |-> "profile",
   profile |-> "link", link |-> "xray",
   xray |-> IF job = "configs" THEN "idle" ELSE "sums",
   sums |-> "validate", validate |-> "built"][s]

\* The commands in the order of the script; make configs runs the generators only,
\* target by target in the order of their file names (happ.yaml, xray.yaml).
After(s) ==
  [sync |-> "copy", copy |-> "compile", compile |-> "geoip", geoip |-> "geoip_sum",
   geoip_sum |-> "verify", verify |-> "profile", profile |-> "link", link |-> "xray",
   xray |-> IF job = "configs" THEN "idle" ELSE "metadata",
   metadata |-> "sums", sums |-> "validate", validate |-> "built"][s]

Run(s) ==
  /\ step = s /\ step' = After(s)
  /\ served' = IF s = "geoip_sum" THEN mirror ELSE served
  /\ UNCHANGED <<inputs, job, runs>>

Write(f, content) == dist' = [dist EXCEPT ![f] = content] /\ UNCHANGED clone

Start(j) ==
  /\ AtRest
  /\ runs < MaxRuns /\ runs' = runs + 1
  /\ job' = j /\ served' = Missing
  /\ UNCHANGED inputs

\* make build, or the workflow: the latter starts from a fresh checkout.
Begin(j) ==
  /\ Start(j) /\ step' = "sync"
  /\ dist' = IF j = "release" THEN Empty
             ELSE [dist EXCEPT !["geosite"] = Missing, !["geoip"] = Missing]
  /\ clone' = IF j = "release" THEN NoClone ELSE clone

Configs ==
  /\ Start("configs") /\ step' = "profile"
  /\ UNCHANGED <<clone, dist>>

Clean ==
  /\ AtRest /\ step' = "idle" /\ served' = Missing
  /\ clone' = NoClone /\ dist' = Empty
  /\ UNCHANGED <<inputs, job, runs>>

-----------------------------------------------------------------------------
(* The clone and geosite.dat *)

\* git reset --hard: tracked files are those of the new commit, and a file that is
\* in neither commit stays where it is.
ResetTree(c, commit) ==
  [l \in Lists |-> IF commit[l] # Absent \/ c.head[l] # Absent THEN commit[l]
                   ELSE c.tree[l]]

\* Mutant: the working tree is not reset after the fetch.
SyncUnreset ==
  /\ Run("sync")
  /\ clone' = [head |-> upstream, tree |-> IF clone = NoClone THEN upstream ELSE clone.tree]
  /\ UNCHANGED dist

Sync ==
  /\ Run("sync")
  /\ clone' = [head |-> upstream,
               tree |-> IF clone = NoClone THEN upstream ELSE ResetTree(clone, upstream)]
  /\ UNCHANGED dist

Overlay(tree, names) ==
  [l \in Lists |-> IF l \in names /\ data[l] # Absent THEN data[l] ELSE tree[l]]

\* Without a list under data/ the pattern stays as it is, and cp fails.
Copy ==
  /\ Run("copy")
  /\ \E l \in Lists : data[l] # Absent
  /\ clone' = [clone EXCEPT !.tree = Overlay(@, Lists)]
  /\ UNCHANGED dist

Compile == Run("compile") /\ Write("geosite", clone.tree)

-----------------------------------------------------------------------------
(* geoip.dat: the file and its digest are two downloads of "latest" *)

\* Mutant: without --fail an error page is a successful download.
FetchAnyPage == Run("geoip") /\ \E content \in {mirror, "page"} : Write("geoip", content)

\* A transfer may be cut short unnoticed.
FetchGeoip    == Run("geoip") /\ \E content \in {mirror, Partial} : Write("geoip", content)
FetchGeoipSum == Run("geoip_sum") /\ Write("upstream_sum", mirror)

\* Mutant: the digests are computed and not compared.
VerifyNothing == Run("verify") /\ Write("upstream_sum", Missing)

\* Mutant: the downloaded digest stays in dist.
VerifyKeeping ==
  Run("verify") /\ dist["geoip"] = dist["upstream_sum"] /\ UNCHANGED <<dist, clone>>

Verify ==
  Run("verify") /\ dist["geoip"] = dist["upstream_sum"] /\ Write("upstream_sum", Missing)

-----------------------------------------------------------------------------
(* generate_all, release_metadata.py, SHA256SUMS, validate.py *)

Generate ==
  /\ Loads(policy)
  /\ \/ Run("profile") /\ Write("profile", HappProfile(policy))
     \/ Run("link") /\ Write("link", HappProfile(policy))
     \/ Run("xray") /\ Write("xray", XrayDocument(policy))

Metadata ==
  /\ Run("metadata")
  /\ Write("release", [commit |-> clone.head, files |-> [f \in Described |-> dist[f]]])

Sums == Run("sums") /\ Write("sums", [f \in Checksummed |-> dist[f]])

Readable(f) == dist[f] \notin {Missing, Partial}

\* validate.py without --allow-missing-dat, over the files a full build has written.
Valid ==
  /\ Readable("profile") /\ Readable("link") /\ Readable("xray")
  /\ dist["xray"].domainStrategy # ""
  /\ dist["link"] = dist["profile"]
  /\ dist["geoip"] # Missing /\ dist["geosite"] # Missing
  /\ \A f \in DOMAIN dist["sums"] : dist[f] = dist["sums"][f]

Validate == Run("validate") /\ Valid /\ UNCHANGED <<clone, dist>>

-----------------------------------------------------------------------------
(* Failures *)

\* The file a command writes.
Output ==
  [compile |-> "geosite", geoip |-> "geoip", geoip_sum |-> "upstream_sum",
   profile |-> "profile", link |-> "link", xray |-> "xray",
   metadata |-> "release", sums |-> "sums"]

\* A command fails and set -e ends the script: a reset or a copy after some of the
\* lists, a writer before it opened its file or with the file cut short.  git moves
\* HEAD last.
Fails ==
  /\ ~AtRest /\ step' = "failed" /\ served' = Missing
  /\ CASE step = "sync" /\ clone # NoClone ->
            \E names \in SUBSET Lists :
              clone' = [clone EXCEPT !.tree =
                [l \in Lists |-> IF l \in names THEN ResetTree(clone, upstream)[l] ELSE @[l]]]
       [] step = "copy" ->
            \E names \in SUBSET Lists : clone' = [clone EXCEPT !.tree = Overlay(@, names)]
       [] OTHER -> UNCHANGED clone
  /\ IF step \in DOMAIN Output
     THEN dist' \in {dist, [dist EXCEPT ![Output[step]] = Partial]}
     ELSE UNCHANGED dist
  /\ UNCHANGED <<inputs, job, runs>>

-----------------------------------------------------------------------------
\* gh release create "$TAG" dist/*
Publish ==
  /\ step = "built" /\ job = "release"
  /\ step' = "published"
  /\ UNCHANGED <<inputs, clone, dist, job, runs, served>>

Next ==
  \/ EditSources \/ RemoteMoves
  \/ \E j \in {"build", "release"} : Begin(j)
  \/ Configs \/ Clean
  \/ Sync \/ Copy \/ Compile
  \/ FetchGeoip \/ FetchGeoipSum \/ Verify
  \/ Generate \/ Metadata \/ Sums \/ Validate
  \/ Fails \/ Publish

Spec == Init /\ [][Next]_vars

-----------------------------------------------------------------------------
(* Properties *)

TypeOK ==
  /\ data \in [Lists -> LocalTexts \cup {Absent}] /\ policy \in Policies
  /\ upstream \in Upstream /\ mirror \in GeoipVersions
  /\ changes \in 0..MaxChanges
  /\ clone \in [head : Upstream, tree : Trees] \cup {NoClone}
  /\ DOMAIN dist = Files /\ dist["geosite"] \in Trees \cup {Missing, Partial}
  /\ {dist["geoip"], dist["upstream_sum"]} \subseteq GeoipVersions \cup {Missing, Partial}
  /\ job \in {"build", "release", "configs"}
  /\ runs \in 0..MaxRuns
  /\ step \in Ends \cup {"sync", "copy", "verify", "validate"} \cup DOMAIN Output
  /\ served \in GeoipVersions \cup {Missing}

\* "Full builds always validate every digest": whatever earlier builds, failed or
\* interrupted ones, configuration runs and edits left in dist, a build that ends
\* well leaves files that match SHA256SUMS and release.json to the last one.
BuiltSealed ==
  step = "built" =>
    /\ \A f \in Checksummed : Readable(f) /\ dist["sums"][f] = dist[f]
    /\ \A f \in Described : dist["release"].files[f] = dist[f]

\* A built geosite.dat holds every list of data/ and, for the other names, the very
\* upstream commit release.json names, however old the cached clone was.
BuiltFromSources ==
  step = "built" =>
    /\ \A l \in Lists :
         \/ dist["geosite"][l] = Overlay(dist["release"].commit, Lists)[l]
         \/ data[l] = Absent /\ dist["release"].commit[l] = Absent
    /\ dist["profile"] = HappProfile(policy)

\* Everything a release publishes can be verified: SHA256SUMS names each of its
\* assets but itself, with its digest, and its geosite.dat has exactly the lists
\* of the commit and of data/.
ReleaseVerifiable ==
  step = "built" /\ job = "release" =>
    /\ {f \in Files : dist[f] # Missing} = DOMAIN dist["sums"] \cup {"sums"}
    /\ \A f \in DOMAIN dist["sums"] : dist["sums"][f] = dist[f]
    /\ dist["geosite"] = Overlay(dist["release"].commit, Lists)

\* "Loyalsoldier database verified against upstream SHA-256": the geoip.dat of a build
\* is the version whose digest the mirror served to that very run, though the two are
\* downloads of "latest" between which the mirror may move, and earlier runs left theirs.
GeoipIsServed == step = "built" => dist["geoip"] = served

\* The Xray document of a build decides every connection as the policy does, for every
\* strategy, order, fallback and overlap of rules, but for one case: under IPIfNonMatch
\* no name gets a second pass, since the last rule of the document applies to all, and
\* one without a domain rule goes where the fallback goes, whatever its addresses.
XrayFollowsPolicy ==
  step = "built" =>
    \A c \in Connections :
      Route(dist["xray"], c) =
        OutboundTag[IF SecondPass(policy, c) THEN policy.fallback ELSE Decide(policy, c)]

\* geosite.dat is "v2fly lists plus local custom categories" and nothing else.
OnlyKnownLists ==
  step = "built" =>
    \A l \in Lists :
      dist["geosite"][l] # Absent => data[l] # Absent \/ dist["release"].commit[l] # Absent
=============================================================================
