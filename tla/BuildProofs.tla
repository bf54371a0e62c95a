------------------------------ MODULE BuildProofs ------------------------------
(***************************************************************************)
(* What a build that ends well has made, proved for any lists, policies,   *)
(* changes and runs: from the invariant of what each command may find.     *)
(***************************************************************************)
EXTENDS Build, RoutingPolicyProofs

Clones == [head : Upstream, tree : Trees]

\* The steps from a command's end to the end of the build.
AfterSums     == {"validate", "built"}
AfterMetadata == {"sums"} \cup AfterSums
AfterXray     == {"metadata"} \cup AfterMetadata
AfterProfile  == {"link", "xray"} \cup AfterXray
AfterVerify   == {"profile"} \cup AfterProfile
AfterCompile  == {"geoip", "geoip_sum", "verify"} \cup AfterVerify

\* make configs runs the generators and nothing else, and its end is not a build.
ConfigsInv == job = "configs" => step \in {"idle", "failed", "profile", "link", "xray"}

\* Each list of the tree is that of the commit, or one the commit does not have.
Tracked(tree, head) == \A l \in Lists : tree[l] = head[l] \/ head[l] = Absent

\* Each list of the tree is that of data/ over the commit, or one neither has.
FromSources(tree, head) ==
  \A l \in Lists : \/ tree[l] = Overlay(head, Lists)[l]
                   \/ data[l] = Absent /\ head[l] = Absent

CloneInv ==
  /\ step \in {"copy", "compile"} => clone \in Clones
  /\ step = "copy" => Tracked(clone.tree, clone.head)
  /\ step = "compile" => FromSources(clone.tree, clone.head)
  /\ step \in AfterCompile /\ job # "configs" =>
       /\ clone \in Clones
       /\ FromSources(dist["geosite"], clone.head)

GeoipInv ==
  /\ step = "verify" => dist["upstream_sum"] = served /\ served \in GeoipVersions
  /\ step \in AfterVerify /\ job # "configs" =>
       dist["geoip"] = served /\ served \in GeoipVersions

GeneratedInv ==
  /\ step \in AfterProfile => Loads(policy) /\ dist["profile"] = HappProfile(policy)
  /\ step \in AfterXray => dist["xray"] = XrayDocument(policy)

SealInv ==
  /\ step \in AfterMetadata =>
       dist["release"] = [commit |-> clone.head, files |-> [f \in Described |-> dist[f]]]
  /\ step \in AfterSums => dist["sums"] = [f \in Checksummed |-> dist[f]]

BInv == TypeOK /\ ConfigsInv /\ CloneInv /\ GeoipInv /\ GeneratedInv /\ SealInv

-----------------------------------------------------------------------------
\* What the commands that only write a file leave alone.
Writers ==
  Compile \/ FetchGeoip \/ FetchGeoipSum \/ Verify \/ Generate \/ Metadata \/ Sums

LEMMA WriterWrites ==
  ASSUME TypeOK, NEW f \in Files, NEW content, Write(f, content)
  PROVE  /\ DOMAIN dist' = Files /\ clone' = clone /\ dist'[f] = content
         /\ \A g \in Files \ {f} : dist'[g] = dist[g]
  BY DEF Write, TypeOK

LEMMA OverlayTree ==
  ASSUME TypeOK, NEW tree \in Trees, NEW names \in SUBSET Lists
  PROVE  Overlay(tree, names) \in Trees
  BY DEF Overlay, Trees, TypeOK

LEMMA ResetTreeTree ==
  ASSUME NEW c \in Clones, NEW commit \in Upstream
  PROVE  /\ ResetTree(c, commit) \in Trees
         /\ Tracked(ResetTree(c, commit), commit)
  BY DEF ResetTree, Clones, Upstream, Trees, Tracked

LEMMA FileNames ==
  /\ Files = {"geoip", "geosite", "profile", "xray", "link", "release", "sums", "upstream_sum"}
  /\ Described \subseteq Checksummed /\ Checksummed \subseteq Files
  BY DEF Files, Described, Checksummed

LEMMA AfterIs ==
  /\ After("sync") = "copy" /\ After("copy") = "compile" /\ After("compile") = "geoip"
  /\ After("geoip") = "geoip_sum" /\ After("geoip_sum") = "verify"
  /\ After("verify") = "profile" /\ After("profile") = "link" /\ After("link") = "xray"
  /\ After("xray") = IF job = "configs" THEN "idle" ELSE "metadata"
  /\ After("metadata") = "sums" /\ After("sums") = "validate" /\ After("validate") = "built"
  BY DEF After

LEMMA Steps ==
  /\ DOMAIN Output = {"compile", "geoip", "geoip_sum", "profile", "link", "xray", "metadata",
                      "sums"}
  /\ \A s \in DOMAIN Output : Output[s] \in Files
  /\ Output["geoip"] = "geoip" /\ Output["geoip_sum"] = "upstream_sum"
  /\ Output["compile"] = "geosite"
  BY DEF Output, Files, Checksummed, Described

-----------------------------------------------------------------------------
(* Each step keeps the invariant *)

LEMMA SourcesNext == BInv /\ (EditSources \/ RemoteMoves) => BInv'
  <1> SUFFICES ASSUME BInv, EditSources \/ RemoteMoves PROVE BInv'
    OBVIOUS
  <1> USE DEF BInv
  <1>1. TypeOK'
    BY BoundsAssumption DEF TypeOK, EditSources, RemoteMoves, Change, Upstream, Ends
  <1>2. CASE EditSources
    <2>1. step' = "idle"
      BY <1>2 DEF EditSources
    <2> QED
      BY <1>1, <2>1
      DEF ConfigsInv, CloneInv, GeoipInv, GeneratedInv, SealInv, Ends, AfterSums, AfterMetadata,
          AfterXray, AfterProfile, AfterVerify, AfterCompile
  <1>3. CASE RemoteMoves
    <2>1. UNCHANGED <<data, policy, clone, dist, job, step, served>>
      BY <1>3 DEF RemoteMoves, Change
    <2> QED
      BY <1>1, <2>1
      DEF ConfigsInv, CloneInv, GeoipInv, GeneratedInv, SealInv, FromSources, Overlay
  <1> QED
    BY <1>2, <1>3

\* The steps that begin a run or end one.
Edges == Configs \/ Clean \/ Publish \/ Fails \/ \E j \in {"build", "release"} : Begin(j)

LEMMA EdgesNext == BInv /\ Edges => BInv'
  <1> SUFFICES ASSUME BInv, Edges PROVE BInv'
    OBVIOUS
  <1> USE DEF BInv, Edges
  <1> DEFINE Quiet == {"idle", "failed", "published", "sync", "profile"}
  <1>0. Empty["geosite"] = Missing /\ Empty["geoip"] = Missing /\ Empty["upstream_sum"] = Missing
        /\ DOMAIN Empty = Files
    BY FileNames DEF Empty
  <1>1. TypeOK'
    <2>1. CASE Configs
      BY <2>1, BoundsAssumption, Steps DEF TypeOK, Configs, Start, inputs
    <2>2. CASE Clean
      BY <1>0, <2>2 DEF TypeOK, Clean, inputs, Ends
    <2>3. CASE Publish
      BY <2>3 DEF TypeOK, Publish, inputs, Ends
    <2>4. ASSUME NEW j \in {"build", "release"}, Begin(j) PROVE TypeOK'
      <3>1. /\ DOMAIN dist' = Files
            /\ dist'["geosite"] = Missing /\ dist'["geoip"] = Missing
            /\ dist'["upstream_sum"] \in {Missing, dist["upstream_sum"]}
        BY <1>0, <2>4, FileNames DEF Begin, TypeOK
      <3> QED
        BY <2>4, <3>1, BoundsAssumption DEF TypeOK, Begin, Start, inputs
    <2>5. CASE Fails
      <3>1. clone' \in Clones \cup {NoClone}
        <4>1. CASE step = "copy"
          <5>1. PICK names \in SUBSET Lists : clone' = [clone EXCEPT !.tree = Overlay(@, names)]
            BY <2>5, <4>1 DEF Fails
          <5>2. clone \in Clones
            BY <4>1 DEF CloneInv
          <5>3. Overlay(clone.tree, names) \in Trees
            BY <5>2, OverlayTree DEF Clones
          <5> QED
            BY <5>1, <5>2, <5>3 DEF Clones
        <4>2. CASE step = "sync" /\ clone # NoClone
          <5> DEFINE tree(names) ==
                [l \in Lists |-> IF l \in names THEN ResetTree(clone, upstream)[l]
                                 ELSE clone.tree[l]]
          <5>1. clone \in Clones /\ upstream \in Upstream
            BY <4>2 DEF TypeOK, Clones
          <5>2. PICK names \in SUBSET Lists :
                  clone' = [clone EXCEPT !.tree = [l \in Lists |->
                    IF l \in names THEN ResetTree(clone, upstream)[l] ELSE @[l]]]
            BY <2>5, <4>2 DEF Fails
          <5>3. clone' = [clone EXCEPT !.tree = tree(names)]
            BY <5>2
          <5>4. tree(names) \in Trees
            BY <5>1, ResetTreeTree DEF Clones, Trees
          <5> HIDE DEF tree
          <5> QED
            BY <5>1, <5>3, <5>4 DEF Clones
        <4>3. CASE step # "copy" /\ ~(step = "sync" /\ clone # NoClone)
          BY <2>5, <4>3 DEF Fails, TypeOK, Clones
        <4> QED
          BY <4>1, <4>2, <4>3
      <3>2. /\ DOMAIN dist' = Files
            /\ \A f \in Files : dist'[f] = dist[f] \/ dist'[f] = Partial
        BY <2>5, Steps DEF Fails, TypeOK
      <3> QED
        BY <2>5, <3>1, <3>2, FileNames DEF TypeOK, Fails, inputs, Clones, Ends
    <2> QED
      BY <2>1, <2>2, <2>3, <2>4, <2>5
  <1>2. step' \in Quiet /\ (job' = "configs" => step' \notin {"sync", "published"})
    BY DEF Configs, Clean, Publish, Fails, Begin, Start
  <1>3. step' = "profile" => job' = "configs"
    BY DEF Configs, Clean, Publish, Fails, Begin, Start
  <1> QED
    BY <1>1, <1>2, <1>3
    DEF ConfigsInv, CloneInv, GeoipInv, GeneratedInv, SealInv, Ends, AfterSums, AfterMetadata,
        AfterXray, AfterProfile, AfterVerify, AfterCompile

LEMMA CloneNext == BInv /\ (Sync \/ Copy) => BInv'
  <1> SUFFICES ASSUME BInv, Sync \/ Copy PROVE BInv'
    OBVIOUS
  <1> USE DEF BInv
  <1>0. /\ UNCHANGED <<inputs, job, runs, dist, served>>
        /\ step \in {"sync", "copy"} /\ step' = IF step = "sync" THEN "copy" ELSE "compile"
        /\ job # "configs"
    BY AfterIs DEF Sync, Copy, Run, ConfigsInv, Ends
  <1>1. CASE Sync
    <2>1. step' = "copy"
      BY <1>0, <1>1 DEF Sync, Run
    <2>2. upstream \in Upstream /\ upstream \in Trees /\ Tracked(upstream, upstream)
      BY DEF TypeOK, Upstream, Trees, Tracked
    <2>3. clone' \in Clones /\ clone'.head = upstream /\ Tracked(clone'.tree, upstream)
      <3>1. CASE clone = NoClone
        BY <1>1, <2>2, <3>1 DEF Sync, Clones
      <3>2. CASE clone # NoClone
        <4>1. clone \in Clones
          BY <3>2 DEF TypeOK, Clones
        <4>2. /\ ResetTree(clone, upstream) \in Trees
              /\ Tracked(ResetTree(clone, upstream), upstream)
          BY <2>2, <4>1, ResetTreeTree
        <4>3. clone' = [head |-> upstream, tree |-> ResetTree(clone, upstream)]
          BY <1>1, <3>2 DEF Sync
        <4> QED
          BY <2>2, <4>2, <4>3 DEF Clones
      <3> QED
        BY <3>1, <3>2
    <2>4. TypeOK'
      BY <1>0, <2>1, <2>3 DEF TypeOK, inputs, Clones
    <2> QED
      BY <1>0, <2>1, <2>3, <2>4
      DEF ConfigsInv, CloneInv, GeoipInv, GeneratedInv, SealInv, Ends, AfterSums, AfterMetadata,
          AfterXray, AfterProfile, AfterVerify, AfterCompile
  <1>2. CASE Copy
    <2>1. step = "copy" /\ step' = "compile"
      BY <1>0, <1>2 DEF Copy, Run
    <2>2. clone \in Clones /\ Tracked(clone.tree, clone.head)
      BY <2>1 DEF CloneInv
    <2>3. Overlay(clone.tree, Lists) \in Trees
      BY <2>2, OverlayTree DEF Clones
    <2>4. /\ clone' \in Clones /\ clone'.head = clone.head
          /\ clone'.tree = Overlay(clone.tree, Lists)
      BY <1>2, <2>2, <2>3 DEF Copy, Clones
    <2>5. FromSources(Overlay(clone.tree, Lists), clone.head)
      BY <2>2 DEF Tracked, FromSources, Overlay
    <2>6. data' = data
      BY <1>0 DEF inputs
    <2>7. FromSources(clone.tree, clone.head)'
      BY <2>4, <2>5, <2>6 DEF FromSources, Overlay
    <2>8. TypeOK'
      BY <1>0, <2>1, <2>4, Steps DEF TypeOK, inputs, Clones
    <2> QED
      BY <1>0, <2>1, <2>4, <2>7, <2>8
      DEF ConfigsInv, CloneInv, GeoipInv, GeneratedInv, SealInv, Ends, AfterSums, AfterMetadata,
          AfterXray, AfterProfile, AfterVerify, AfterCompile
  <1> QED
    BY <1>1, <1>2

\* A command that writes one file f: what it finds of the others stays.
LEMMA WriteFrame ==
  ASSUME BInv, NEW f \in Files, NEW content, Write(f, content),
         UNCHANGED <<inputs, job, runs>>, step \notin Ends,
         served' \in {served, mirror},
         step' \in {"idle", "verify", "validate"} \cup DOMAIN Output,
         f = "geosite" => content \in Trees,
         f \in {"geoip", "upstream_sum"} => content \in GeoipVersions \cup {Missing, Partial}
  PROVE  /\ TypeOK'
         /\ DOMAIN dist' = Files /\ clone' = clone /\ dist'[f] = content
         /\ \A g \in Files \ {f} : dist'[g] = dist[g]
  <1>1. /\ DOMAIN dist' = Files /\ clone' = clone /\ dist'[f] = content
        /\ \A g \in Files \ {f} : dist'[g] = dist[g]
    BY WriterWrites DEF BInv
  <1> QED
    BY <1>1, FileNames DEF BInv, TypeOK, inputs, Ends

LEMMA WritersNext == BInv /\ Writers => BInv'
  <1> SUFFICES ASSUME BInv, Writers PROVE BInv'
    OBVIOUS
  <1> USE DEF BInv
  <1> USE DEF ConfigsInv, CloneInv, GeoipInv, GeneratedInv, SealInv, Ends, AfterSums,
              AfterMetadata, AfterXray, AfterProfile, AfterVerify, AfterCompile, inputs
  <1>1. CASE Compile
    <2>1. step = "compile" /\ step' = "geoip" /\ UNCHANGED <<inputs, job, runs, served>>
      BY <1>1, AfterIs DEF Compile, Run
    <2>2. Write("geosite", clone.tree) /\ clone \in Clones /\ clone.tree \in Trees
      BY <1>1, <2>1 DEF Compile, Clones
    <2>3. TypeOK' /\ clone' = clone /\ dist'["geosite"] = clone.tree
      BY <2>1, <2>2, WriteFrame, FileNames, Steps
    <2> QED
      BY <2>1, <2>2, <2>3 DEF FromSources, Overlay
  <1>2. CASE FetchGeoip
    <2>1. step = "geoip" /\ step' = "geoip_sum" /\ UNCHANGED <<inputs, job, runs, served>>
      BY <1>2, AfterIs DEF FetchGeoip, Run
    <2>2. PICK content \in {mirror, Partial} : Write("geoip", content)
      BY <1>2 DEF FetchGeoip
    <2>3. TypeOK' /\ clone' = clone /\ dist'["geosite"] = dist["geosite"]
      BY <2>1, <2>2, WriteFrame, FileNames, Steps DEF TypeOK
    <2> QED
      BY <2>1, <2>3 DEF FromSources, Overlay
  <1>3. CASE FetchGeoipSum
    <2>1. step = "geoip_sum" /\ step' = "verify" /\ UNCHANGED <<inputs, job, runs>>
          /\ served' = mirror
      BY <1>3, AfterIs DEF FetchGeoipSum, Run
    <2>2. Write("upstream_sum", mirror) /\ mirror \in GeoipVersions
      BY <1>3 DEF FetchGeoipSum, TypeOK
    <2>3. TypeOK' /\ clone' = clone /\ dist'["geosite"] = dist["geosite"]
          /\ dist'["upstream_sum"] = mirror
      BY <2>1, <2>2, WriteFrame, FileNames, Steps
    <2> QED
      BY <2>1, <2>2, <2>3 DEF FromSources, Overlay
  <1>4. CASE Verify
    <2>1. step = "verify" /\ step' = "profile" /\ UNCHANGED <<inputs, job, runs, served>>
      BY <1>4, AfterIs DEF Verify, Run
    <2>2. Write("upstream_sum", Missing) /\ dist["geoip"] = dist["upstream_sum"]
      BY <1>4 DEF Verify
    <2>3. TypeOK' /\ clone' = clone /\ dist'["geosite"] = dist["geosite"]
          /\ dist'["geoip"] = dist["geoip"]
      BY <2>1, <2>2, WriteFrame, FileNames, Steps
    <2> QED
      BY <2>1, <2>2, <2>3 DEF FromSources, Overlay
  <1>5. CASE Generate
    <2>0. Loads(policy) /\ step \in {"profile", "link", "xray"} /\ step' = After(step)
          /\ UNCHANGED <<inputs, job, runs, served>>
      BY <1>5 DEF Generate, Run
    <2>1. CASE step = "profile"
      <3>1. Write("profile", HappProfile(policy)) /\ step' = "link"
        BY <1>5, <2>0, <2>1, AfterIs DEF Generate, Run
      <3>2. TypeOK' /\ clone' = clone /\ dist'["profile"] = HappProfile(policy)
            /\ dist'["geosite"] = dist["geosite"] /\ dist'["geoip"] = dist["geoip"]
        BY <2>0, <3>1, WriteFrame, FileNames, Steps
      <3> QED
        BY <2>0, <2>1, <3>1, <3>2 DEF FromSources, Overlay
    <2>2. CASE step = "link"
      <3>1. Write("link", HappProfile(policy)) /\ step' = "xray"
        BY <1>5, <2>0, <2>2, AfterIs DEF Generate, Run
      <3>2. TypeOK' /\ clone' = clone /\ dist'["profile"] = dist["profile"]
            /\ dist'["geosite"] = dist["geosite"] /\ dist'["geoip"] = dist["geoip"]
        BY <2>0, <3>1, WriteFrame, FileNames, Steps
      <3> QED
        BY <2>0, <2>2, <3>1, <3>2 DEF FromSources, Overlay
    <2>3. CASE step = "xray"
      <3>1. Write("xray", XrayDocument(policy))
            /\ step' = IF job = "configs" THEN "idle" ELSE "metadata"
        BY <1>5, <2>0, <2>3, AfterIs DEF Generate, Run
      <3>2. TypeOK' /\ clone' = clone /\ dist'["profile"] = dist["profile"]
            /\ dist'["xray"] = XrayDocument(policy)
            /\ dist'["geosite"] = dist["geosite"] /\ dist'["geoip"] = dist["geoip"]
        BY <2>0, <3>1, WriteFrame, FileNames, Steps
      <3> QED
        BY <2>0, <2>3, <3>1, <3>2 DEF FromSources, Overlay
    <2> QED
      BY <2>0, <2>1, <2>2, <2>3
  <1>6. CASE Metadata
    <2>1. step = "metadata" /\ step' = "sums" /\ UNCHANGED <<inputs, job, runs, served>>
      BY <1>6, AfterIs DEF Metadata, Run
    <2> DEFINE content == [commit |-> clone.head, files |-> [f \in Described |-> dist[f]]]
    <2>2. Write("release", content)
      BY <1>6 DEF Metadata
    <2> HIDE DEF content
    <2>3. /\ TypeOK' /\ clone' = clone /\ dist'["release"] = content
          /\ \A g \in Files \ {"release"} : dist'[g] = dist[g]
      BY <2>1, <2>2, WriteFrame, FileNames, Steps
    <2>4. [f \in Described |-> dist'[f]] = [f \in Described |-> dist[f]]
      BY <2>3, FileNames DEF Described
    <2>5. /\ dist'["geosite"] = dist["geosite"] /\ dist'["geoip"] = dist["geoip"]
          /\ dist'["profile"] = dist["profile"] /\ dist'["xray"] = dist["xray"]
      BY <2>3, FileNames
    <2> QED
      BY <2>1, <2>3, <2>4, <2>5 DEF FromSources, Overlay, content
  <1>7. CASE Sums
    <2>1. step = "sums" /\ step' = "validate" /\ UNCHANGED <<inputs, job, runs, served>>
      BY <1>7, AfterIs DEF Sums, Run
    <2> DEFINE content == [f \in Checksummed |-> dist[f]]
    <2>2. Write("sums", content)
      BY <1>7 DEF Sums
    <2> HIDE DEF content
    <2>3. /\ TypeOK' /\ clone' = clone /\ dist'["sums"] = content
          /\ \A g \in Files \ {"sums"} : dist'[g] = dist[g]
      BY <2>1, <2>2, WriteFrame, FileNames, Steps
    <2>4. /\ [f \in Described |-> dist'[f]] = [f \in Described |-> dist[f]]
          /\ [f \in Checksummed |-> dist'[f]] = content
      BY <2>3, FileNames DEF Described, Checksummed, content
    <2>5. /\ dist'["geosite"] = dist["geosite"] /\ dist'["geoip"] = dist["geoip"]
          /\ dist'["profile"] = dist["profile"] /\ dist'["xray"] = dist["xray"]
          /\ dist'["release"] = dist["release"]
      BY <2>3, FileNames
    <2> QED
      BY <2>1, <2>3, <2>4, <2>5 DEF FromSources, Overlay
  <1> QED
    BY <1>1, <1>2, <1>3, <1>4, <1>5, <1>6, <1>7 DEF Writers

LEMMA ValidateNext == BInv /\ Validate => BInv'
  <1> SUFFICES ASSUME BInv, Validate PROVE BInv'
    OBVIOUS
  <1>1. step = "validate" /\ step' = "built" /\ UNCHANGED <<inputs, job, runs, clone, dist, served>>
    BY AfterIs DEF Validate, Run
  <1> QED
    BY <1>1
    DEF BInv, TypeOK, ConfigsInv, CloneInv, GeoipInv, GeneratedInv, SealInv, Ends, AfterSums,
        AfterMetadata, AfterXray, AfterProfile, AfterVerify, AfterCompile, inputs, FromSources,
        Overlay

LEMMA BInvInit == Init => BInv
  <1> SUFFICES ASSUME Init PROVE BInv
    OBVIOUS
  <1>1. TypeOK
    BY FileNames, BoundsAssumption DEF Init, TypeOK, Empty, Ends
  <1> QED
    BY <1>1
    DEF Init, BInv, ConfigsInv, CloneInv, GeoipInv, GeneratedInv, SealInv, AfterSums,
        AfterMetadata, AfterXray, AfterProfile, AfterVerify, AfterCompile

LEMMA BInvNext == BInv /\ [Next]_vars => BInv'
  <1> SUFFICES ASSUME BInv, [Next]_vars PROVE BInv'
    OBVIOUS
  <1>1. CASE UNCHANGED vars
    BY <1>1
    DEF vars, inputs, BInv, TypeOK, ConfigsInv, CloneInv, GeoipInv, GeneratedInv, SealInv,
        FromSources, Overlay
  <1> QED
    BY <1>1, SourcesNext, EdgesNext, CloneNext, WritersNext, ValidateNext
    DEF Next, Edges, Writers

LEMMA BInvariance == Spec => []BInv
  BY BInvInit, BInvNext, PTL DEF Spec

-----------------------------------------------------------------------------
(* What validate.py and a fresh checkout add *)

\* In the workflow the clone is new, so its tree is the commit's and nothing more.
FreshInv ==
  job = "release" =>
    /\ step = "sync" => clone = NoClone
    /\ step = "copy" => clone.tree = clone.head
    /\ step = "compile" => clone.tree = Overlay(clone.head, Lists)
    /\ step \in AfterCompile => dist["geosite"] = Overlay(clone.head, Lists)

\* The files are whole, the downloaded digest is gone, and what has been validated
\* is still as it was.
WholeInv ==
  /\ step \in AfterCompile /\ job # "configs" => dist["geosite"] \in Trees
  /\ step \in AfterVerify /\ job # "configs" => dist["upstream_sum"] = Missing
  /\ step = "built" => Valid

RInv == FreshInv /\ WholeInv

\* Where none of it is said, or nothing it is said of changes.
LEMMA RInvQuiet ==
  ASSUME RInv,
         \/ /\ step' \in {"idle", "failed", "published", "profile", "sync"}
            /\ step' = "profile" => job' = "configs"
            /\ step' = "sync" /\ job' = "release" => clone' = NoClone
         \/ UNCHANGED <<data, clone, dist, job, step>>
  PROVE  RInv'
  <1>1. CASE UNCHANGED <<data, clone, dist, job, step>>
    BY <1>1 DEF RInv, FreshInv, WholeInv, Overlay, Valid, Readable
  <1>2. CASE /\ step' \in {"idle", "failed", "published", "profile", "sync"}
             /\ step' = "profile" => job' = "configs"
             /\ step' = "sync" /\ job' = "release" => clone' = NoClone
    BY <1>2
    DEF RInv, FreshInv, WholeInv, AfterSums, AfterMetadata, AfterXray, AfterProfile, AfterVerify,
        AfterCompile
  <1> QED
    BY <1>1, <1>2

\* The generators and the writers of digests leave geosite.dat and the clone alone.
LEMMA RInvWrite ==
  ASSUME BInv, RInv, UNCHANGED <<data, clone, job>>,
         step \in AfterVerify \ {"validate", "built"}, step' = After(step),
         dist'["geosite"] = dist["geosite"], dist'["upstream_sum"] = dist["upstream_sum"]
  PROVE  RInv'
  <1>1. step' \in AfterVerify \cup {"idle"} /\ step' # "built"
    BY AfterIs DEF AfterSums, AfterMetadata, AfterXray, AfterProfile, AfterVerify
  <1>2. AfterVerify \subseteq AfterCompile /\ "compile" \notin AfterVerify
        /\ "sync" \notin AfterVerify /\ "copy" \notin AfterVerify
        /\ "idle" \notin AfterCompile
    BY DEF AfterSums, AfterMetadata, AfterXray, AfterProfile, AfterVerify, AfterCompile
  <1>3. Overlay(clone.head, Lists)' = Overlay(clone.head, Lists)
    BY DEF Overlay
  <1>4. FreshInv'
    BY <1>1, <1>2, <1>3 DEF RInv, FreshInv
  <1>5. WholeInv'
    BY <1>1, <1>2 DEF RInv, WholeInv
  <1> QED
    BY <1>4, <1>5 DEF RInv

LEMMA RInvInit == Init => RInv
  BY DEF Init, RInv, FreshInv, WholeInv, AfterSums, AfterMetadata, AfterXray, AfterProfile,
         AfterVerify, AfterCompile

LEMMA RInvNext == BInv /\ RInv /\ [Next]_vars => RInv'
  <1> SUFFICES ASSUME BInv, RInv, [Next]_vars PROVE RInv'
    OBVIOUS
  <1>1. CASE EditSources \/ RemoteMoves \/ Edges \/ UNCHANGED vars
    <2>1. EditSources => step' = "idle"
      BY DEF EditSources
    <2>2. RemoteMoves \/ UNCHANGED vars => UNCHANGED <<data, clone, dist, job, step>>
      BY DEF RemoteMoves, Change, vars, inputs
    <2>3. Edges => /\ step' \in {"idle", "failed", "published", "profile", "sync"}
                   /\ step' = "profile" => job' = "configs"
                   /\ step' = "sync" /\ job' = "release" => clone' = NoClone
      BY DEF Edges, Configs, Clean, Publish, Fails, Begin, Start
    <2> QED
      BY <1>1, <2>1, <2>2, <2>3, RInvQuiet
  <1>2. CASE Sync
    <2>1. step = "sync" /\ step' = "copy" /\ job' = job /\ clone'.head = upstream
          /\ (clone = NoClone => clone'.tree = upstream)
      BY <1>2, AfterIs DEF Sync, Run
    <2> QED
      BY <2>1
      DEF RInv, FreshInv, WholeInv, AfterSums, AfterMetadata, AfterXray, AfterProfile,
          AfterVerify, AfterCompile
  <1>3. CASE Copy
    <2>1. /\ step = "copy" /\ step' = "compile" /\ job' = job /\ data' = data
          /\ clone' = [clone EXCEPT !.tree = Overlay(@, Lists)] /\ clone \in Clones
      BY <1>3, AfterIs DEF Copy, Run, inputs, BInv, CloneInv
    <2>2. clone'.head = clone.head /\ clone'.tree = Overlay(clone.tree, Lists)
      BY <2>1 DEF Clones
    <2>3. job = "release" => clone.tree = clone.head
      BY <2>1 DEF RInv, FreshInv
    <2>4. job' = "release" => clone'.tree = Overlay(clone.head, Lists)'
      BY <2>1, <2>2, <2>3 DEF Overlay
    <2> QED
      BY <2>1, <2>4
      DEF RInv, FreshInv, WholeInv, AfterSums, AfterMetadata, AfterXray, AfterProfile,
          AfterVerify, AfterCompile
  <1>4. CASE Compile
    <2>1. /\ step = "compile" /\ step' = "geoip" /\ job' = job /\ data' = data
          /\ clone' = clone /\ dist'["geosite"] = clone.tree
      BY <1>4, AfterIs, WriterWrites, FileNames DEF Compile, Run, inputs, BInv
    <2>2. clone.tree \in Trees
      BY <2>1 DEF BInv, CloneInv, Clones
    <2>3. job' = "release" => dist'["geosite"] = Overlay(clone.head, Lists)'
      BY <2>1 DEF RInv, FreshInv, Overlay
    <2> QED
      BY <2>1, <2>2, <2>3
      DEF RInv, FreshInv, WholeInv, AfterSums, AfterMetadata, AfterXray, AfterProfile,
          AfterVerify, AfterCompile
  <1>5. CASE FetchGeoip \/ FetchGeoipSum \/ Verify
    <2>1. /\ step \in {"geoip", "geoip_sum", "verify"}
          /\ step' \in {"geoip_sum", "verify", "profile"}
          /\ step' = "profile" => Write("upstream_sum", Missing)
          /\ UNCHANGED <<job, data>>
          /\ \E f \in {"geoip", "upstream_sum"} : \E content : Write(f, content)
      BY <1>5, AfterIs DEF FetchGeoip, FetchGeoipSum, Verify, Run, inputs
    <2>2. clone' = clone /\ dist'["geosite"] = dist["geosite"]
      BY <2>1, WriterWrites, FileNames DEF BInv
    <2>3. step' = "profile" => dist'["upstream_sum"] = Missing
      BY <2>1, WriterWrites, FileNames DEF BInv
    <2>4. Overlay(clone.head, Lists)' = Overlay(clone.head, Lists)
      BY <2>1, <2>2 DEF Overlay
    <2> QED
      BY <2>1, <2>2, <2>3, <2>4
      DEF RInv, FreshInv, WholeInv, AfterSums, AfterMetadata, AfterXray, AfterProfile,
          AfterVerify, AfterCompile
  <1>6. CASE Generate \/ Metadata \/ Sums
    <2>1. /\ step \in AfterVerify \ {"validate", "built"} /\ step' = After(step)
          /\ UNCHANGED <<job, data>>
          /\ \E f \in Files \ {"geosite", "upstream_sum"} : \E content : Write(f, content)
      BY <1>6, FileNames
      DEF Generate, Metadata, Sums, Run, inputs, AfterSums, AfterMetadata, AfterXray,
          AfterProfile, AfterVerify
    <2>2. /\ clone' = clone /\ dist'["geosite"] = dist["geosite"]
          /\ dist'["upstream_sum"] = dist["upstream_sum"]
      BY <2>1, WriterWrites, FileNames DEF BInv
    <2> QED
      BY <2>1, <2>2, RInvWrite
  <1>7. CASE Validate
    <2>1. /\ step = "validate" /\ step' = "built" /\ UNCHANGED <<job, data, clone, dist>>
          /\ Valid
      BY <1>7, AfterIs DEF Validate, Run, inputs
    <2>2. Valid'
      BY <2>1 DEF Valid, Readable
    <2>3. Overlay(clone.head, Lists)' = Overlay(clone.head, Lists)
      BY <2>1 DEF Overlay
    <2> QED
      BY <2>1, <2>2, <2>3
      DEF RInv, FreshInv, WholeInv, AfterSums, AfterMetadata, AfterXray, AfterProfile,
          AfterVerify, AfterCompile
  <1> QED
    BY <1>1, <1>2, <1>3, <1>4, <1>5, <1>6, <1>7 DEF Next, Edges

LEMMA RInvariance == Spec => [](BInv /\ RInv)
  BY BInvInit, BInvNext, RInvInit, RInvNext, PTL DEF Spec

\* What a build that ends well finds in dist.
LEMMA BuiltFiles ==
  ASSUME BInv, RInv, step = "built"
  PROVE  /\ clone \in Clones
         /\ dist["sums"] = [f \in Checksummed |-> dist[f]]
         /\ dist["release"] = [commit |-> clone.head, files |-> [f \in Described |-> dist[f]]]
         /\ \A f \in Checksummed : Readable(f)
         /\ dist["sums"] \notin {Missing, Partial} /\ dist["upstream_sum"] = Missing
  <1>1. /\ step \in AfterSums /\ step \in AfterMetadata /\ step \in AfterXray
        /\ step \in AfterProfile /\ step \in AfterVerify /\ step \in AfterCompile
        /\ job # "configs"
    BY DEF BInv, ConfigsInv, AfterSums, AfterMetadata, AfterXray, AfterProfile, AfterVerify,
           AfterCompile
  <1>2. /\ clone \in Clones
        /\ dist["sums"] = [f \in Checksummed |-> dist[f]]
        /\ dist["release"] = [commit |-> clone.head, files |-> [f \in Described |-> dist[f]]]
        /\ dist["geoip"] \in GeoipVersions /\ dist["geosite"] \in Trees
        /\ dist["profile"] = HappProfile(policy) /\ dist["xray"] = XrayDocument(policy)
        /\ policy \in Policies /\ dist["upstream_sum"] = Missing /\ Valid
    BY <1>1 DEF BInv, CloneInv, SealInv, GeoipInv, GeneratedInv, TypeOK, RInv, WholeInv
  <1>3. \A f \in Described : dist[f] \in Contents
    BY <1>2 DEF Described, Contents
  <1>4. dist["link"] \in Contents
    BY <1>2, <1>3 DEF Valid, Described
  <1>5. dist["release"] \in Descriptions
    BY <1>2, <1>3 DEF Descriptions, Clones
  <1>6. \A f \in Checksummed : dist[f] \in Contents \cup Descriptions
    BY <1>3, <1>4, <1>5 DEF Checksummed
  <1>7. dist["sums"] \in Digests
    BY <1>2, <1>6 DEF Digests
  <1>8. \A f \in Checksummed : Readable(f)
    BY <1>2, <1>5, ContentsAssumption DEF Checksummed, Described, Valid, Readable
  <1> QED
    BY <1>2, <1>7, <1>8, ContentsAssumption

-----------------------------------------------------------------------------
(* The theorems *)

\* The types of the sources, the clone, dist and the run are kept.
THEOREM BuildTypeCorrect == Spec => []TypeOK
  <1>1. BInv => TypeOK
    BY DEF BInv
  <1> QED
    BY <1>1, BInvariance, PTL

\* build.sh and validate.py: whatever was in dist before, every file of a build that
\* ends well is whole, and is the one SHA256SUMS and release.json name.
THEOREM BuildSealed == Spec => []BuiltSealed
  <1>1. ASSUME BInv, RInv, step = "built" PROVE BuiltSealed
    <2>1. /\ dist["sums"] = [f \in Checksummed |-> dist[f]]
          /\ dist["release"] = [commit |-> clone.head, files |-> [f \in Described |-> dist[f]]]
          /\ \A f \in Checksummed : Readable(f)
      BY <1>1, BuiltFiles
    <2>2. \A f \in Checksummed : dist["sums"][f] = dist[f]
      BY <2>1
    <2>3. \A f \in Described : dist["release"].files[f] = dist[f]
      BY <2>1
    <2> QED
      BY <2>1, <2>2, <2>3 DEF BuiltSealed
  <1>2. BInv /\ RInv => BuiltSealed
    BY <1>1 DEF BuiltSealed
  <1> QED
    BY <1>2, RInvariance, PTL

\* build.sh: geosite.dat holds the lists of data/ over those of the very commit that
\* release.json names, and the profile is that of the policy.
THEOREM FromTheSources == Spec => []BuiltFromSources
  <1>1. BInv => BuiltFromSources
    BY DEF BInv, SealInv, CloneInv, GeneratedInv, ConfigsInv, BuiltFromSources, FromSources,
           AfterSums, AfterMetadata, AfterXray, AfterProfile, AfterVerify, AfterCompile, Ends
  <1> QED
    BY <1>1, BInvariance, PTL

\* build.sh: the geoip.dat of a build is the version whose digest the mirror served to
\* that very run, wherever between the downloads the mirror moved.
THEOREM GeoipChecked == Spec => []GeoipIsServed
  <1>1. BInv => GeoipIsServed
    BY DEF BInv, GeoipInv, ConfigsInv, GeoipIsServed,
           AfterSums, AfterMetadata, AfterXray, AfterProfile, AfterVerify, Ends
  <1> QED
    BY <1>1, BInvariance, PTL

\* generate_all: the Xray document of every build decides as the policy does, but for
\* the names that only a second pass could decide.
THEOREM XrayFollows == Spec => []XrayFollowsPolicy
  <1>1. ASSUME BInv, step = "built", NEW c \in Connections
        PROVE  Route(dist["xray"], c) =
                 OutboundTag[IF SecondPass(policy, c) THEN policy.fallback ELSE Decide(policy, c)]
    <2>1. dist["xray"] = XrayDocument(policy) /\ Loads(policy) /\ policy \in Sources
      BY <1>1, PoliciesAssumption
      DEF BInv, GeneratedInv, TypeOK, AfterSums, AfterMetadata, AfterXray, AfterProfile
    <2> QED
      BY <2>1, DocumentDecides
  <1>2. BInv => XrayFollowsPolicy
    BY <1>1 DEF XrayFollowsPolicy
  <1> QED
    BY <1>2, BInvariance, PTL

\* The workflow: SHA256SUMS names every asset of a release but itself, and its
\* geosite.dat is exactly the lists of the commit under those of data/.
THEOREM ReleaseVerified == Spec => []ReleaseVerifiable
  <1>1. ASSUME BInv, RInv, step = "built", job = "release" PROVE ReleaseVerifiable
    <2>1. \A f \in Files : dist[f] # Missing <=> f \in Checksummed \cup {"sums"}
      BY <1>1, BuiltFiles, FileNames DEF Files, Readable
    <2>2. DOMAIN dist["sums"] = Checksummed
      BY <1>1, BuiltFiles
    <2>3. {f \in Files : dist[f] # Missing} = DOMAIN dist["sums"] \cup {"sums"}
      BY <2>1, <2>2, FileNames
    <2>4. dist["geosite"] = Overlay(dist["release"].commit, Lists)
      BY <1>1, BuiltFiles
      DEF RInv, FreshInv, AfterSums, AfterMetadata, AfterXray, AfterProfile, AfterVerify,
          AfterCompile
    <2> QED
      BY <1>1, <2>2, <2>3, <2>4, BuiltFiles DEF ReleaseVerifiable
  <1>2. BInv /\ RInv => ReleaseVerifiable
    BY <1>1 DEF ReleaseVerifiable
  <1> QED
    BY <1>2, RInvariance, PTL

\* The leftovers for which OnlyKnownLists fails on a developer's clone never reach
\* users: a build of the workflow has the lists of the commit and of data/ only.
THEOREM ReleaseKnown == Spec => [](job = "release" => OnlyKnownLists)
  <1>1. ASSUME ReleaseVerifiable, job = "release", step = "built", NEW l \in Lists,
               dist["geosite"][l] # Absent
        PROVE  data[l] # Absent \/ dist["release"].commit[l] # Absent
    BY <1>1 DEF ReleaseVerifiable, Overlay
  <1>2. ReleaseVerifiable => (job = "release" => OnlyKnownLists)
    BY <1>1 DEF OnlyKnownLists
  <1> QED
    BY <1>2, ReleaseVerified, PTL
=============================================================================
